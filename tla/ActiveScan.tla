------------------------------ MODULE ActiveScan ------------------------------
(***************************************************************************)
(* The scanners that look for content that acts (scan/active) and what     *)
(* they make of it when the policy lets it through.                        *)
(***************************************************************************)
EXTENDS DosScan, HtmlPass

-----------------------------------------------------------------------------
(* CSS.  A rule has an at-keyword or none, the tokens of its prelude and   *)
(* its block, and the rules inside it.  A token is what visit() makes of   *)
(* it: "scripting", "danger", "fetch", "match", "import", or "spelled" for *)
(* a scripting name only a search of the text finds.                       *)
Grouping == {"media", "supports", "document", "layer", "container", "scope"}

Inner(rule) == UNION {rule.rules[j].tokens : j \in DOMAIN rule.rules}

(* A grouping rule answers for its prelude, any other for all it encloses. *)
Facts(rule) ==
  IF rule.at \in Grouping THEN rule.tokens ELSE rule.tokens \cup Inner(rule)

Hits(facts) ==
  (IF {"match", "fetch"} \subseteq facts THEN {"scan.css.exfiltration"} ELSE {})
  \cup (IF "import" \in facts THEN {"scan.css.import"} ELSE {})
  \cup (IF "scripting" \in facts THEN {"scan.css.expression"} ELSE {})
  \cup (IF "danger" \in facts THEN {"scan.css.dangerous_scheme"} ELSE {})

(* What the tokenizer finds, with the path of the rule that has to go.     *)
Tokenized(sheet) ==
  UNION {{[hit |-> h, path |-> <<i>>] : h \in Hits(Facts(sheet[i]))} \cup
         UNION {{[hit |-> h, path |-> <<i, j>>] : h \in Hits(sheet[i].rules[j].tokens)} :
                  j \in {k \in DOMAIN sheet[i].rules : sheet[i].at \in Grouping}} :
           i \in DOMAIN sheet}

(* parser_disagreement(): the text names a scripting construct and no rule *)
(* was found to hold one, so the whole sheet has to go.                    *)
ParserDisagreement(sheet) ==
  IF /\ \A f \in Tokenized(sheet) : f.hit # "scan.css.expression"
     /\ \E i \in DOMAIN sheet : "spelled" \in sheet[i].tokens \cup Inner(sheet[i])
  THEN {[hit |-> "scan.css.expression", path |-> <<>>]} ELSE {}

Findings(sheet) == Tokenized(sheet) \cup ParserDisagreement(sheet)

KeepIndexes(seq, keep) ==
  FoldLeft(LAMBDA kept, i : IF i \in keep THEN Append(kept, seq[i]) ELSE kept, <<>>,
           [i \in DOMAIN seq |-> i])

(* sanitize_css(): deletes the span of every finding.                      *)
SanitizeCss(sheet) ==
  LET gone == {f.path : f \in Findings(sheet)}
      pruned == [i \in DOMAIN sheet |->
                   [sheet[i] EXCEPT !.rules =
                      KeepIndexes(@, {j \in DOMAIN @ : <<i, j>> \notin gone})]]
  IN  IF <<>> \in gone THEN <<>>
      ELSE KeepIndexes(pruned, {i \in DOMAIN sheet : <<i>> \notin gone})

-----------------------------------------------------------------------------
(* PDF.  The objects are the set of key paths that lead into them.         *)
DangerousKeys == {"JavaScript", "JS", "OpenAction", "AA", "Launch"}

PdfHasActiveContent(pdf) ==
  pdf.loads /\ \E p \in pdf.paths : Last(p) \in DangerousKeys

StripDangerousKeys(paths) == {p \in paths : ToSet(p) \cap DangerousKeys = {}}

(* A document that cannot be written again is passed on as it is.          *)
SanitizePdf(pdf) ==
  IF pdf.loads /\ pdf.saves THEN [pdf EXCEPT !.paths = StripDangerousKeys(@)] ELSE pdf

-----------------------------------------------------------------------------
(* TIFF.  The file after its signature is a tape of cells, counted from 0: *)
(* the offset of the first directory, and for a directory at d its count,  *)
(* that many rows and the offset of the next; 0 ends the chain.  Two bytes *)
(* say in which order its numbers are; the other two only sniffing reads.  *)
ByteOrdered(body) == body.at[0] \in {"II*0", "MM0*", "II", "MM"}

Readable(cells, p) == p < Len(cells)
Cell(cells, p) == cells[p + 1]
NextField(cells, d) == d + 1 + Cell(cells, d)

Structured(cells, d) == Readable(cells, d) /\ Readable(cells, NextField(cells, d))

(* The walk along the chain: the directories it found whole, and where it  *)
(* stopped.                                                                *)
Walk(cells) ==
  LET from[seen \in SUBSET Nat, d \in Nat, field \in Nat] ==
        IF d = 0 \/ d \in seen \/ ~Structured(cells, d)
        THEN [stop |-> d, cycle |-> d \in seen, field |-> field]
        ELSE from[seen \cup {d}, Cell(cells, NextField(cells, d)), NextField(cells, d)]
  IN  from[{}, Cell(cells, 0), 0]

Sound == [found |-> FALSE, offset |-> 0]

(* tiff_has_structural_risk(): what is reported is the directory a cycle   *)
(* returns to, the one that is out of bounds, or its first row.            *)
TiffRisk(body) ==
  LET cells == body.cells IN
  IF ~ByteOrdered(body) \/ cells = <<>> THEN [found |-> TRUE, offset |-> 0]
  ELSE LET end == Walk(cells) IN
       IF end.stop = 0 THEN Sound
       ELSE IF end.cycle \/ ~Readable(cells, end.stop)
            THEN [found |-> TRUE, offset |-> end.stop]
            ELSE [found |-> TRUE, offset |-> end.stop + 1]

(* A bug in which the chain is cut behind the directory that is not whole. *)
RewriteTiffLate(body) ==
  IF ~ByteOrdered(body) \/ body.cells = <<>> THEN body
  ELSE LET end == Walk(body.cells) IN
       IF end.stop = 0 \/ ~Readable(body.cells, end.stop) THEN body
       ELSE [body EXCEPT !.cells[end.stop + 1] = 0]

(* rewrite_tiff(): ends the chain at the last directory that is whole.     *)
RewriteTiff(body) ==
  IF ~ByteOrdered(body) \/ body.cells = <<>> THEN body
  ELSE LET end == Walk(body.cells) IN
       IF end.stop = 0 THEN body ELSE [body EXCEPT !.cells[end.field + 1] = 0]

-----------------------------------------------------------------------------
(* SVG goes through the HTML pass under rules of its own.                  *)
Inert == [text |-> "#blocked", scheme |-> "none", layers |-> 0, origins |-> {},
          label |-> "clean", canonical |-> NoValue]

DefaultHtmlRules ==
  [script |-> "Remove", handler |-> "Remove", scheme |-> "Rewrite", frame |-> "Placeholder",
   refresh |-> "Remove", scriptOrigins |-> {}, frameOrigins |-> {}]

NeutralUrlRules ==
  [blocked |-> "Rewrite", homograph |-> "Rewrite", userinfo |-> "Rewrite",
   internal |-> "Rewrite", idn |-> "Rewrite", normalised |-> "Rewrite",
   placeholder |-> Inert]

NeutralPass(body) == SanitizeHtml(body.elements, body.broken, DefaultHtmlRules, NeutralUrlRules)

Xss == {"html.script.disallowed", "html.attr.event_handler", "html.attr.dangerous_scheme",
        "html.frame.disallowed", "html.meta.refresh"}

XssActions(actions) == Each(actions, LAMBDA a : IF a.rule \in Xss THEN <<a>> ELSE <<>>)

-----------------------------------------------------------------------------
XmlHasActiveContent(body) == body.decls # <<>> \/ body.externalId

ZipHasActiveContent(zip, budget) ==
  ReadableArchive(zip, budget) /\ \E i \in 1 .. zip.count : zip.entries[i].vba

If(p, rule) == IF p THEN <<Action(rule, "none")>> ELSE <<>>

(* What scan_active_content() finds in a body of a type.                   *)
Detected(body, type, rules) ==
  CASE type = "js"   -> If(TRUE, "scan.script.active_type")
    [] type = "pdf"  -> If(PdfHasActiveContent(body.pdf), "scan.pdf.active_content")
    [] type = "tiff" -> If(TiffRisk(body).found, "scan.tiff.structural_risk")
    [] type = "zip"  -> If(ZipHasActiveContent(body.zip, rules.zip), "scan.zip.macro_present")
    [] type = "xml"  -> If(XmlHasActiveContent(body), "scan.xml.xxe")
    [] type = "svg"  -> XssActions(NeutralPass(body).actions)
    [] type = "css"  -> LET found == SetToSeq(Findings(body.sheet)) IN
                        [i \in DOMAIN found |-> Action(found[i].hit, "none")]
    [] OTHER         -> <<>>

(* A finding is reported with the bytes from its offset on, and there are  *)
(* none from an offset beyond the end, as the first directory's is in a    *)
(* body of two or three bytes: the worker panics.                          *)
OffsetPanics(body, type) ==
  /\ type = "tiff"
  /\ TiffRisk(body).found
  /\ \/ TiffRisk(body).offset > Len(body.cells)
     \/ ByteOrdered(body) /\ body.tiny

RewriteIfPossible(body, type) ==
  CASE type = "pdf"  -> [body EXCEPT !.pdf = SanitizePdf(@)]
    [] type = "tiff" -> RewriteTiff(body)
    [] type = "svg"  -> [body EXCEPT !.elements = NeutralPass(body).output]
    [] type = "css"  -> [body EXCEPT !.sheet = SanitizeCss(@)]
    [] OTHER         -> body

(* What was found is refused, or let through, rewritten where it can be.   *)
Acted(body, type, found, refused) ==
  [output  |-> IF found = <<>> THEN body
               ELSE IF refused THEN [none |-> TRUE]
               ELSE RewriteIfPossible(body, type),
   actions |-> [i \in DOMAIN found |->
                  Action(found[i].rule, IF refused THEN "Refuse" ELSE "Allow")],
   refused |-> refused]

ActedOn(body, type, found, rules) ==
  Acted(body, type, found, found # <<>> /\ rules.activeContent = "Reject")

(* scan_active_content().                                                  *)
ScanActive(body, type, rules) == ActedOn(body, type, Detected(body, type, rules), rules)
=============================================================================
