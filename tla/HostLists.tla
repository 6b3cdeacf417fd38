------------------------------ MODULE HostLists ------------------------------
(***************************************************************************)
(* The two lists of names the policy compiles: the block-list, read from   *)
(* hosts files (policy/blockset.rs), and the protected domains, indexed by *)
(* their confusable skeletons (policy/protectedset.rs).  A name is the     *)
(* sequence of its labels; a root dot at its end is an empty last label.   *)
(***************************************************************************)
EXTENDS Naturals, Sequences, SequencesExt

CONSTANTS
  LocalNames,  \* the names every stock hosts file maps to the machine itself
  Shown,       \* label -> what the user sees of it, punycode decoded
  Prototype,   \* shown label -> its confusable prototype
  Punycode     \* the labels that start with xn--

ParentDomains(labels) == {SubSeq(labels, i, Len(labels)) : i \in DOMAIN labels}

Rootless(labels) ==
  IF labels # <<>> /\ labels[Len(labels)] = "" THEN SubSeq(labels, 1, Len(labels) - 1)
                                               ELSE labels

-----------------------------------------------------------------------------
(* A line of a hosts file: nothing but a comment, an address with names,   *)
(* or anything else, a name alone included.                                *)
LineNames(line) == IF line.kind = "entry" THEN line.names ELSE <<>>

Stored(line) ==
  LET kept == SelectSeq(LineNames(line), LAMBDA n : n # line.address /\ n \notin LocalNames)
  IN  [i \in DOMAIN kept |-> Rootless(kept[i])]

StoredBy(files) ==
  FlattenSeq([f \in DOMAIN files |->
                FlattenSeq([l \in DOMAIN files[f] |-> Stored(files[f][l])])])

(* BlockSet::from_files() fails on a line that is no entry, and on a name  *)
(* that is there already, from the same list or from another.              *)
BlockSetLoads(files) ==
  /\ \A f \in DOMAIN files : \A l \in DOMAIN files[f] : files[f][l].kind \in {"blank", "entry"}
  /\ IsInjective(StoredBy(files))

BlockSet(files) == ToSet(StoredBy(files))

Blocked(domains, labels) == \E s \in ParentDomains(Rootless(labels)) : s \in domains

-----------------------------------------------------------------------------
Seen(labels) == [i \in DOMAIN labels |-> Shown[labels[i]]]

Skeleton(seen) == [i \in DOMAIN seen |-> Prototype[seen[i]]]

(* SkeletonSet::build(): of two domains with one skeleton the later stays. *)
Guarded(protected) ==
  {Seen(protected[i]) :
     i \in {j \in DOMAIN protected :
              /\ protected[j] # <<>>
              /\ \A k \in j + 1 .. Len(protected) :
                   Skeleton(Seen(protected[k])) # Skeleton(Seen(protected[j]))}}

(* confusable_with(): the longest suffix that looks like a protected       *)
(* domain settles the matter, and the domain itself is no look-alike.      *)
Confusable(protected, seen) ==
  \E i \in DOMAIN seen :
    LET suffix == SubSeq(seen, i, Len(seen)) IN
    /\ \E d \in Guarded(protected) : Skeleton(d) = Skeleton(suffix) /\ d # suffix
    /\ \A j \in 1 .. i - 1 :
         ~\E d \in Guarded(protected) : Skeleton(d) = Skeleton(SubSeq(seen, j, Len(seen)))

IsIdn(labels) == \E i \in DOMAIN labels : labels[i] \in Punycode
=============================================================================
