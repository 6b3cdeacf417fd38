-------------------------------- MODULE Sniff --------------------------------
(***************************************************************************)
(* What type a body is taken for (sniff/mod.rs): by what it declares, in   *)
(* its header or its name, and by what its first bytes show.  A body is a  *)
(* record of what the handlers can make out in it; the ones no handler     *)
(* sees anything in are Plain.                                             *)
(***************************************************************************)
EXTENDS Naturals, Sequences, FiniteSets, TLC

NoType == "none"

MimeType ==
  {"jpeg", "png", "gif", "webp", "svg", "tiff", "html", "css", "js", "pdf", "zip", "xml",
   "flac", "mp3", "wav", "avi", "mp4", "docx", "xlsx", "pptx"}

(* The bytes looked at, by offset, what they must be, and the type that    *)
(* shows; the first row that matches answers.  No row shows a WebP.        *)
Signatures ==
  << <<0, "FF D8 FF", "jpeg">>, <<0, "89 PNG", "png">>, <<0, "GIF87a", "gif">>,
     <<0, "GIF89a", "gif">>, <<0, "<!DOCTYPE html>", "html">>,
     <<0, "<!doctype html>", "html">>, <<0, "%PDF-", "pdf">>, <<0, "II*0", "tiff">>,
     <<0, "MM0*", "tiff">>, <<0, "PK34", "zip">>, <<0, "fLaC", "flac">>,
     <<0, "ID3", "mp3">>, <<0, "FF FB", "mp3">>, <<8, "WAVE", "wav">>,
     <<0, "AVI ", "avi">>, <<4, "ftyp", "mp4">>, <<0, "<?xml", "xml">>,
     <<0, "<svg", "svg">> >>

(* Essences in lower case, without their parameters.                       *)
ContentTypes ==
  ("image/jpeg" :> "jpeg") @@ ("image/jpg" :> "jpeg") @@ ("image/png" :> "png")
  @@ ("image/gif" :> "gif") @@ ("image/webp" :> "webp") @@ ("image/svg+xml" :> "svg")
  @@ ("image/tiff" :> "tiff") @@ ("text/html" :> "html")
  @@ ("application/xhtml+xml" :> "html") @@ ("text/css" :> "css")
  @@ ("text/javascript" :> "js") @@ ("application/javascript" :> "js")
  @@ ("application/x-javascript" :> "js") @@ ("text/ecmascript" :> "js")
  @@ ("application/ecmascript" :> "js") @@ ("text/jscript" :> "js")
  @@ ("text/livescript" :> "js") @@ ("application/pdf" :> "pdf")
  @@ ("application/zip" :> "zip") @@ ("application/xml" :> "xml") @@ ("text/xml" :> "xml")

Extensions ==
  [e \in {"png", "gif", "webp", "svg", "html", "css", "js", "pdf", "tiff", "zip", "xml",
          "flac", "mp3", "wav", "avi", "mp4", "docx", "xlsx", "pptx"} |-> e]
  @@ ("jpg" :> "jpeg") @@ ("jpeg" :> "jpeg") @@ ("htm" :> "html") @@ ("mjs" :> "js")
  @@ ("tif" :> "tiff")

Lookup(table, key) == IF key \in DOMAIN table THEN table[key] ELSE NoType

(* The extension an asset is written with: the first that names its type.  *)
Extension(type) ==
  CASE type = "jpeg" -> "jpg"
    [] OTHER         -> type

(* A header whose essence is unknown leaves it to the name; a name that    *)
(* could not be parsed as a URL has none.                                  *)
DeclaredType(header, source) ==
  IF Lookup(ContentTypes, header) # NoType THEN ContentTypes[header]
  ELSE IF source.kind = "malformed" THEN NoType
  ELSE Lookup(Extensions, source.extension)

-----------------------------------------------------------------------------
(* The central directory of an archive (scan/dos/zip/mod.rs): its entries, *)
(* when the end record and every entry can be read and the end record      *)
(* declares no more of them than the budget allows.                        *)
ReadableArchive(zip, budget) ==
  /\ zip.endRecord
  /\ zip.count <= budget.maxEntryCount
  /\ zip.count <= Len(zip.entries)

Entries(zip) == SubSeq(zip.entries, 1, zip.count)

FirstEntry(zip, P(_)) ==
  CHOOSE i \in 1 .. zip.count :
    P(zip.entries[i]) /\ \A j \in 1 .. i - 1 : ~P(zip.entries[j])

OoxmlKinds == ("word/" :> "docx") @@ ("xl/" :> "xlsx") @@ ("ppt/" :> "pptx")

(* The kind of office document the first telling name makes of an archive. *)
ZipOoxmlKind(zip, budget) ==
  LET Telling(e) == e.folder \in DOMAIN OoxmlKinds IN
  IF ReadableArchive(zip, budget) /\ \E i \in 1 .. zip.count : Telling(zip.entries[i])
  THEN OoxmlKinds[zip.entries[FirstEntry(zip, Telling)].folder]
  ELSE NoType

-----------------------------------------------------------------------------
Shows(body, row) == body.at[row[1]] = row[2]

ActualType(body, budget) ==
  LET matching == {i \in DOMAIN Signatures : Shows(body, Signatures[i])}
      first == CHOOSE i \in matching : \A j \in matching : i <= j
  IN  IF matching = {} THEN NoType
      ELSE IF Signatures[first][3] # "zip" THEN Signatures[first][3]
      ELSE IF ZipOoxmlKind(body.zip, budget) # NoType THEN ZipOoxmlKind(body.zip, budget)
      ELSE "zip"

Verdict(body, header, source, budget) ==
  [declared |-> DeclaredType(header, source), sniffed |-> ActualType(body, budget)]

Effective(v) == IF v.sniffed # NoType THEN v.sniffed ELSE v.declared

Contradicted(v) ==
  v.declared # NoType /\ v.sniffed # NoType /\ v.declared # v.sniffed

Action(rule, action) == [rule |-> rule, action |-> action]

SniffActions(v) ==
  IF Contradicted(v) THEN <<Action("sniff.mime_mismatch", "Rewrite")>> ELSE <<>>
=============================================================================
