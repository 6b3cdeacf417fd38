------------------------------ MODULE InputWalk ------------------------------
(***************************************************************************)
(* How arguments become inputs (gather, input.rs): a URL is parsed, a path *)
(* that is not a directory is taken as it is, and a directory is walked in *)
(* the order of its names, behind links that stay in the tree and no       *)
(* others.  The file system is a function of its entries; the canonical    *)
(* form of a path is the entry its links lead to.                          *)
(***************************************************************************)
EXTENDS Naturals, Sequences, FiniteSets, SequencesExt

CONSTANTS
  Nowhere     \* what a dangling link, a link in a circle and no path lead to

VARIABLES
  fs,         \* entry -> [kind, parent, target, name, listed, readable]
  items,      \* the arguments, then the lines of the input list
  root,       \* the canonical root of the tree being walked
  visited,    \* the canonical directories this walk has entered
  frames,     \* the directories it is in: the path, and what it has yet to see
  began,      \* how many inputs there were before this walk (history)
  inputs,     \* the inputs found so far
  skipped,    \* the links that were refused
  gathered    \* "going", "done" or "failed"

walkVars == <<root, visited, frames, began>>
foundVars == <<inputs, skipped>>
gatherVars == <<fs, items, walkVars, foundVars, gathered>>

Entry == DOMAIN fs

(* canonicalize(): links are followed, but not for ever.                   *)
Canonical(e) ==
  LET to[k \in 0 .. Cardinality(Entry)] ==
        [n \in Entry \cup {Nowhere} |->
           IF n = Nowhere \/ fs[n].kind # "link" THEN n
           ELSE IF k = 0 THEN Nowhere ELSE to[k - 1][fs[n].target]]
  IN  to[Cardinality(Entry)][e]

IsDir(e) == Canonical(e) # Nowhere /\ fs[Canonical(e)].kind = "dir"

(* starts_with(), of canonical paths.                                      *)
Within(e, tree) ==
  LET in[n \in Entry \cup {Nowhere}] == n # Nowhere /\ (n = tree \/ in[fs[n].parent])
  IN  in[e]

InOrder(a, b) == fs[a].name < fs[b].name

Children(dir) == {e \in Entry : fs[e].parent = dir}

(* read_dir(), sorted: each entry comes after as many as are before it.    *)
Listing(dir) ==
  [k \in 1 .. Cardinality(Children(dir)) |->
     CHOOSE e \in Children(dir) : Cardinality({d \in Children(dir) : InOrder(d, e)}) = k - 1]

Found(kind, path) == [kind |-> kind, path |-> path]

-----------------------------------------------------------------------------
GatherInit ==
  /\ root = Nowhere
  /\ visited = {}
  /\ frames = <<>>
  /\ began = 0
  /\ inputs = <<>>
  /\ skipped = <<>>
  /\ gathered = "going"

Idle == gathered = "going" /\ frames = <<>>

(* An input list that cannot be read fails before anything is looked at.   *)
NoList ==
  /\ Idle
  /\ items # <<>>
  /\ items[1].kind = "unreadable list"
  /\ gathered' = "failed"
  /\ UNCHANGED <<fs, items, walkVars, foundVars>>

TakeUrl ==
  /\ Idle
  /\ items # <<>>
  /\ items[1].kind \in {"url", "malformed"}
  /\ inputs' = Append(inputs, Found(items[1].kind, <<items[1].entry>>))
  /\ items' = Tail(items)
  /\ UNCHANGED <<fs, walkVars, skipped, gathered>>

(* Missing or not, and whatever its extension: the engine finds out.       *)
TakePath ==
  /\ Idle
  /\ items # <<>>
  /\ items[1].kind = "path"
  /\ ~IsDir(items[1].entry)
  /\ inputs' = Append(inputs, Found("file", <<items[1].entry>>))
  /\ items' = Tail(items)
  /\ UNCHANGED <<fs, walkVars, skipped, gathered>>

(* A directory that cannot be read fails the whole gathering.              *)
Open(dir, path) ==
  IF fs[dir].readable
  THEN /\ frames' = Append(frames, [path |-> path, left |-> Listing(dir)])
       /\ UNCHANGED gathered
  ELSE gathered' = "failed" /\ UNCHANGED frames

WalkDir ==
  /\ Idle
  /\ items # <<>>
  /\ items[1].kind = "path"
  /\ IsDir(items[1].entry)
  /\ LET top == Canonical(items[1].entry) IN
     /\ root' = top
     /\ visited' = {top}
     /\ began' = Len(inputs)
     /\ Open(top, <<items[1].entry>>)
  /\ items' = Tail(items)
  /\ UNCHANGED <<fs, foundVars>>

AllTaken ==
  /\ Idle
  /\ items = <<>>
  /\ gathered' = "done"
  /\ UNCHANGED <<fs, items, walkVars, foundVars>>

-----------------------------------------------------------------------------
Top == Last(frames)
Here == Head(Top.left)
Path == Append(Top.path, Here)

Looking == gathered = "going" /\ frames # <<>> /\ Top.left # <<>>

Passed == [frames EXCEPT ![Len(frames)].left = Tail(@)]

(* A bug in which a link is judged by where it points, not by where it     *)
(* leads.                                                                  *)
EscapesByTarget(e) ==
  fs[e].kind = "link" /\ (Canonical(e) = Nowhere \/ ~Within(fs[e].target, root))

Escapes(e) ==
  fs[e].kind = "link" /\ (Canonical(e) = Nowhere \/ ~Within(Canonical(e), root))

SkipLink ==
  /\ Looking
  /\ Escapes(Here)
  /\ skipped' = Append(skipped, Path)
  /\ frames' = Passed
  /\ UNCHANGED <<fs, items, root, visited, began, inputs, gathered>>

Enter ==
  /\ Looking
  /\ ~Escapes(Here)
  /\ IsDir(Here)
  /\ LET dir == Canonical(Here) IN
     /\ visited' = visited \cup {dir}
     /\ IF dir \in visited THEN frames' = Passed /\ UNCHANGED gathered
        ELSE IF fs[dir].readable
        THEN /\ frames' = Append(Passed, [path |-> Path, left |-> Listing(dir)])
             /\ UNCHANGED gathered
        ELSE gathered' = "failed" /\ UNCHANGED frames
  /\ UNCHANGED <<fs, items, root, began, foundVars>>

(* The extension that counts is the one of the name in the tree.           *)
TakeFile ==
  /\ Looking
  /\ ~Escapes(Here)
  /\ ~IsDir(Here)
  /\ inputs' = IF fs[Here].listed THEN Append(inputs, Found("file", Path)) ELSE inputs
  /\ frames' = Passed
  /\ UNCHANGED <<fs, items, root, visited, began, skipped, gathered>>

Leave ==
  /\ gathered = "going"
  /\ frames # <<>>
  /\ Top.left = <<>>
  /\ frames' = Front(frames)
  /\ UNCHANGED <<fs, items, root, visited, began, foundVars, gathered>>

Gather ==
  \/ NoList \/ TakeUrl \/ TakePath \/ WalkDir \/ AllTaken
  \/ SkipLink \/ Enter \/ TakeFile \/ Leave

-----------------------------------------------------------------------------
(* What a walk of one tree should find: every entry of every directory of  *)
(* the tree that is a listed file or a link to a file of the tree, once.   *)
TreeFiles(tree) ==
  {e \in Entry :
     /\ fs[e].listed
     /\ Within(fs[e].parent, tree)
     /\ ~IsDir(e)
     /\ fs[e].kind = "link" => Canonical(e) # Nowhere /\ Within(Canonical(e), tree)}

(* Paths compare name by name.                                             *)
PathBefore(p, q) ==
  \E i \in DOMAIN p \cap DOMAIN q :
    InOrder(p[i], q[i]) /\ \A j \in 1 .. i - 1 : p[j] = q[j]
=============================================================================
