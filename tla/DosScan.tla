------------------------------- MODULE DosScan -------------------------------
(***************************************************************************)
(* The scanners that look for bodies too large to be opened (scan/dos):    *)
(* the entities of an XML document, the directory of an archive and the    *)
(* dimensions an image claims.                                             *)
(***************************************************************************)
EXTENDS Sniff, SequencesExt

CONSTANTS
  Word,       \* what the fields of a header are below (2^32 in the code)
  Packed      \* what the packed fields of a WebP are below (2^14)

ASSUME DosAssumption == Word \in Nat \ {0} /\ Packed \in 1 .. Word

NoRisk == [rule |-> "none"]
Risk(rule) == [rule |-> rule, action |-> "Refuse"]

-----------------------------------------------------------------------------
(* XML.  A declaration is [name, form, value]: an internal one has a value *)
(* between quotes, an external one a SYSTEM or PUBLIC identifier, and an   *)
(* open one ends the document before its name is read.  A value is a       *)
(* sequence of letters, references and an ampersand no semicolon follows.  *)
Text(n) == [kind |-> "text", length |-> n]
Ref(n) == [kind |-> "ref", name |-> n]
Amp == [kind |-> "amp", length |-> 1]

(* The declarations before the one that cannot be read, and of these the   *)
(* internal ones.                                                          *)
Scanned(decls) == {i \in DOMAIN decls : \A j \in 1 .. i : decls[j].form # "open"}
Internal(decls) == {i \in Scanned(decls) : decls[i].form = "internal"}

(* The map of entities: a later declaration replaces an earlier one.       *)
Entities(decls) ==
  LET At(n) == {i \in Internal(decls) : decls[i].name = n} IN
  [n \in {decls[i].name : i \in Internal(decls)} |-> decls[Max(At(n))].value]

TooLarge == [bytes |-> 0, ok |-> FALSE]
Sized(n) == [bytes |-> n, ok |-> TRUE]

(* The pieces of a value in a row, piece k being worth sub[k].             *)
AddUp(value, sub, max) ==
  LET upto[k \in 0 .. Len(value)] ==
        IF k = 0 THEN Sized(0)
        ELSE LET sum == upto[k - 1].bytes + sub[k].bytes IN
             IF \/ ~upto[k - 1].ok \/ ~sub[k].ok
                \/ value[k].kind = "ref" /\ sum > max
             THEN TooLarge ELSE Sized(sum)
      whole == upto[Len(value)]
  IN  IF whole.ok /\ whole.bytes <= max THEN whole ELSE TooLarge

(* A bug in which a reference back up the call chain counts for nothing.   *)
WorthForgiven(entities, sizes, path, left, p) ==
  IF p.kind # "ref" THEN Sized(p.length)
  ELSE IF left = 0 THEN TooLarge
  ELSE IF p.name \notin DOMAIN entities \ path THEN Sized(0)
  ELSE sizes[path][p.name]

(* What a piece of a value is worth: a name that is met again on the way   *)
(* up, or too far down, is too large.                                      *)
Worth(entities, sizes, path, left, p) ==
  IF p.kind # "ref" THEN Sized(p.length)
  ELSE IF left = 0 THEN TooLarge
  ELSE IF p.name \notin DOMAIN entities THEN Sized(0)
  ELSE IF p.name \in path THEN TooLarge
  ELSE sizes[path][p.name]

(* expanded_size(), with what is left of the depth and the names being     *)
(* expanded up the call chain.  An unclosed ampersand ends the value.      *)
ExpandedSize(entities, budget) ==
  LET size[left \in 0 .. budget.maxEntityDepth] ==
        [visiting \in SUBSET DOMAIN entities |->
          [name \in DOMAIN entities |->
             AddUp(entities[name],
                   [k \in DOMAIN entities[name] |->
                      Worth(entities, size[left - 1], visiting \cup {name}, left,
                            entities[name][k])],
                   budget.maxExpandedSize)]]
  IN  size[budget.maxEntityDepth][{}]

XmlRisk(decls, budget) ==
  LET entities == Entities(decls)
      size == ExpandedSize(entities, budget)
  IN  \/ Cardinality(DOMAIN entities) > budget.maxEntityCount
      \/ \E n \in DOMAIN entities : ~size[n].ok

-----------------------------------------------------------------------------
(* Archives.  An entry packed into nothing is taken to be packed into one. *)
AtLeastOne(n) == IF n = 0 THEN 1 ELSE n

Inflated(zip) == FoldLeft(LAMBDA sum, e : sum + e.full, 0, Entries(zip))

(* find_eocd() slices four bytes, which a body has or it panics.           *)
EndRecordPanics(body, type) == type = "zip" /\ body.tiny

ZipRisk(zip, budget) ==
  \/ ~ReadableArchive(zip, budget)
  \/ \E i \in 1 .. zip.count :
       zip.entries[i].full > budget.maxRatio * AtLeastOne(zip.entries[i].packed)
  \/ Inflated(zip) > budget.maxInflated

-----------------------------------------------------------------------------
(* Images.  What a format's header says, or Unreadable.                    *)
Unreadable == [width |-> 0, height |-> 0, ok |-> FALSE]
Claim(w, h) == [width |-> w, height |-> h, ok |-> TRUE]

PngClaim(head) == IF head.tag = "IHDR" THEN Claim(head.width, head.height) ELSE Unreadable

GifClaim(head) == IF head.tag # "short" THEN Claim(head.width, head.height) ELSE Unreadable

(* The three encodings: 24 bits stored minus one, 14 packed bits stored    *)
(* minus one, and 14 packed bits as they are.                              *)
WebpClaim(head) ==
  CASE head.tag = "VP8X" -> Claim(head.width + 1, head.height + 1)
    [] head.tag = "VP8L" -> Claim((head.width % Packed) + 1, (head.height % Packed) + 1)
    [] head.tag = "VP8 " -> Claim(head.width % Packed, head.height % Packed)
    [] OTHER             -> Unreadable

(* A JPEG is a tape of markers, each with the cells it owns.  The walk     *)
(* steps over what a segment owns, so a frame inside one is not seen; a    *)
(* segment shorter than its own length field stops it.                     *)
JpegClaim(tape) ==
  LET from[at \in 1 .. Len(tape) + 1] ==
        IF at > Len(tape) THEN Unreadable
        ELSE LET m == tape[at] IN
             CASE m.kind \in {"junk", "fill", "standalone"} -> from[at + 1]
               [] m.kind = "frame"   -> Claim(m.width, m.height)
               [] m.kind = "short"   -> Unreadable
               [] m.kind = "segment" ->
                    IF at + 1 + m.owns > Len(tape) THEN Unreadable
                    ELSE from[at + 1 + m.owns]
  IN  from[1]

(* A TIFF's first directory: of a tag that is repeated the last row with a *)
(* single short or long counts.  A row past the end of the file is cut.     *)
TiffField(directory, tag) ==
  LET rows == {i \in DOMAIN directory :
                 directory[i].tag = tag /\ directory[i].type \in {"short", "long"}}
  IN  IF rows = {} THEN Unreadable ELSE Claim(directory[Max(rows)].value, 0)

TiffClaim(directory) ==
  LET width == TiffField(directory, "width")
      height == TiffField(directory, "length")
      cut == \E i \in DOMAIN directory : directory[i].tag = "cut"
  IN  IF width.ok /\ height.ok /\ ~cut THEN Claim(width.width, height.width) ELSE Unreadable

ImageDimensions(body, type) ==
  CASE type = "png"  -> PngClaim(body.head)
    [] type = "gif"  -> GifClaim(body.head)
    [] type = "jpeg" -> JpegClaim(body.tape)
    [] type = "webp" -> WebpClaim(body.head)
    [] type = "tiff" -> TiffClaim(body.directory)
    [] OTHER         -> Unreadable

(* The product saturates at what twice as many bits can hold.              *)
Pixels(claim) ==
  LET full == Word * Word - 1 IN
  IF claim.width * claim.height > full THEN full ELSE claim.width * claim.height

ImageRisk(body, type, maxPixels) ==
  LET claim == ImageDimensions(body, type) IN claim.ok /\ Pixels(claim) > maxPixels

-----------------------------------------------------------------------------
(* scan_dos_risks().                                                       *)
DosRisk(body, type, rules) ==
  CASE type = "xml" -> IF XmlRisk(body.decls, rules.xml)
                       THEN Risk("scan.xml.entity_expansion") ELSE NoRisk
    [] type = "zip" -> IF ZipRisk(body.zip, rules.zip)
                       THEN Risk("scan.zip.bomb_risk") ELSE NoRisk
    [] OTHER        -> IF ImageRisk(body, type, rules.maxPixels)
                       THEN Risk("scan.image.dimensions") ELSE NoRisk

-----------------------------------------------------------------------------
(* What an expansion is, stated without a walk.  Ranks that fall along     *)
(* every reference leave no circle, and the largest is as long as the      *)
(* longest chain; the text a name stands for is as long as its pieces.     *)
Ranked(entities, rank) ==
  \A n \in DOMAIN entities : \A k \in DOMAIN entities[n] :
    LET p == entities[n][k] IN
    p.kind = "ref" => rank[n] > 0 /\ (p.name \in DOMAIN entities => rank[p.name] < rank[n])

Weights(entities, length, n) ==
  [k \in DOMAIN entities[n] |->
     LET p == entities[n][k] IN
     IF p.kind # "ref" THEN p.length
     ELSE IF p.name \in DOMAIN entities THEN length[p.name] ELSE 0]

Measured(entities, length) ==
  \A n \in DOMAIN entities :
    LET weights == Weights(entities, length, n) IN
    length[n] = MapThenSumSet(LAMBDA k : weights[k], DOMAIN entities[n])

Expandable(decls, budget) ==
  LET entities == Entities(decls) IN
  /\ Cardinality(DOMAIN entities) <= budget.maxEntityCount
  /\ \E rank \in [DOMAIN entities -> 0 .. budget.maxEntityDepth] : Ranked(entities, rank)
  /\ \E length \in [DOMAIN entities -> 0 .. budget.maxExpandedSize] :
       Measured(entities, length)
=============================================================================
