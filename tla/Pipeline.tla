------------------------------- MODULE Pipeline -------------------------------
(***************************************************************************)
(* What becomes of one input (Engine::pipeline and acquire, engine/mod.rs; *)
(* engine/route.rs), and of one fetched sub-resource, which goes the same  *)
(* way at depth 1 (engine/subresource.rs).  A file may change while it is  *)
(* being taken up; from then on nothing interferes, but a panic may.       *)
(***************************************************************************)
EXTENDS ActiveScan

CONSTANTS
  Inputs,      \* [role, source, header, kind, body, policy] that may come up
  Sizes        \* the sizes a file may take

None == [none |-> TRUE]
LocalCopy == [Inert EXCEPT !.text = "asset"]

HasParts(whole, parts) == whole = [p \in parts |-> whole[p]]
IsList(l) == Len(l) \in Nat /\ HasParts(l, 1 .. Len(l))

(* What the URL checker rewrites a value to passes as it stands, and has   *)
(* the scheme it had (UrlCheck!EmissionSettled).                           *)
Settles(value) ==
  value.canonical # NoValue =>
    /\ value.canonical.label \in {"clean", "idn"}
    /\ value.canonical.canonical = NoValue
    /\ Dangerous(value.canonical) => Dangerous(value)

Element(el) ==
  /\ HasParts(el, {"tag", "attrs", "handlers", "refresh", "sheet", "srcset"})
  /\ HasParts(el.attrs, DOMAIN el.attrs)
  /\ IsFiniteSet(el.handlers)
  /\ IsList(el.srcset)
  /\ \A n \in DOMAIN el.attrs : Settles(el.attrs[n])

Piece(p) == p.kind # "ref" => p.length \in Nat

Marker(m) ==
  /\ m.kind \in {"junk", "fill", "standalone", "frame", "short", "segment"}
  /\ {m.width, m.height, m.owns} \subseteq Nat

(* A body is tiny that has fewer than four bytes.                          *)
Body(body) ==
  /\ HasParts(body, {"at", "tiny", "size", "broken", "elements", "sheet", "decls", "externalId",
                     "zip", "pdf", "cells", "directory", "tape", "head"})
  /\ body.size \in Nat
  /\ body.tiny => ~body.zip.endRecord /\ body.cells = <<>>
  /\ IsList(body.elements)
  /\ \A n \in DOMAIN body.elements : Element(body.elements[n])
  /\ IsFiniteSet(DOMAIN body.sheet)
  /\ \A n \in DOMAIN body.sheet : IsFiniteSet(DOMAIN body.sheet[n].rules)

(* What the scanners for bodies too large to be opened read of one.        *)
Scannable(body) ==
  /\ IsList(body.decls)
  /\ \A n \in DOMAIN body.decls :
       LET value == body.decls[n].value IN
       IsList(value) /\ \A k \in DOMAIN value : Piece(value[k])
  /\ IsList(body.directory)
  /\ \A n \in DOMAIN body.directory : body.directory[n].value \in Nat
  /\ IsList(body.tape)
  /\ \A n \in DOMAIN body.tape : Marker(body.tape[n])
  /\ {body.head.width, body.head.height} \subseteq Nat

Bounds(policy) ==
  {policy.maxInput, policy.maxPixels, policy.xml.maxEntityCount, policy.xml.maxEntityDepth,
   policy.xml.maxExpandedSize} \subseteq Nat

(* A body has the parts its handlers read, a policy names kinds of asset   *)
(* and has a placeholder of its own, and a reference says what it is to.   *)
ASSUME InputsAssumption ==
  /\ Sizes \subseteq Nat
  /\ \A i \in Inputs :
       /\ Body(i.body) /\ Scannable(i.body)
       /\ Bounds(i.policy)
       /\ Settles(i.policy.urls.placeholder)
       /\ i.policy.types \subseteq {"css", "js", "image"}
       /\ i.role = "subresource" => i.kind \in {"css", "js", "image"}

VARIABLES
  stage,    \* "acquire", "read", "process", then "done" or "unwound"
  input,    \* what came up
  size,     \* the size of the file on disk; 0 when it is gone
  data,     \* the size of what was taken up
  routed,   \* what the handler of its type made of it
  outcome   \* its report, and the bytes or the asset that come with it

vars == <<stage, input, size, data, routed, outcome>>

Policy == input.policy
Source == input.source

(* A panic leaves an internal error in place of a report.                  *)
Failed(status) == [status |-> status, actions |-> <<>>, output |-> None, subs |-> "off",
                   extension |-> NoType, map |-> <<>>]

NotRouted == [output |-> None, actions |-> <<>>, refused |-> FALSE, references |-> <<>>]

Init ==
  /\ stage = "acquire"
  /\ input \in Inputs
  /\ size = input.body.size
  /\ data = 0
  /\ routed = NotRouted
  /\ outcome = Failed("none")

-----------------------------------------------------------------------------
Scanners == {"pdf", "tiff", "js", "css", "zip", "xml", "svg"}

RouteHtml(body, html) ==
  [output |-> [body EXCEPT !.elements = html.output], actions |-> html.actions,
   refused |-> html.refused, references |-> html.references]

Passed(body) == [output |-> body, actions |-> <<>>, refused |-> FALSE, references |-> <<>>]

(* route(): the handler of the effective type, behind the scan for bodies  *)
(* too large to be opened.                                                 *)
Route(body, type, policy) ==
  LET risk == DosRisk(body, type, policy)
      scan == ScanActive(body, type, policy)
  IN  IF risk # NoRisk THEN [Passed(None) EXCEPT !.actions = <<risk>>, !.refused = TRUE]
      ELSE IF type = "html"
           THEN RouteHtml(body, SanitizeHtml(body.elements, body.broken, policy.html, policy.urls))
      ELSE IF type \in Scanners
           THEN [output |-> scan.output, actions |-> scan.actions, refused |-> scan.refused,
                 references |-> <<>>]
      ELSE Passed(body)

Panics(body, type, policy) ==
  \/ EndRecordPanics(body, type)
  \/ DosRisk(body, type, policy) = NoRisk /\ OffsetPanics(body, type)

Done(result) ==
  /\ outcome' = result
  /\ stage' = "done"
  /\ UNCHANGED <<input, size>>

End(result) == Done(result) /\ UNCHANGED <<data, routed>>

-----------------------------------------------------------------------------
(* acquire().                                                              *)
TakeUp ==
  /\ data' = size
  /\ stage' = "process"
  /\ UNCHANGED <<input, size, routed, outcome>>

TakeBytes == stage = "acquire" /\ Source.kind = "bytes" /\ TakeUp

Malformed ==
  stage = "acquire" /\ Source.kind = "malformed" /\ End(Failed("MalformedUrl"))

(* A file over budget is turned away unread.                               *)
Measure ==
  /\ stage = "acquire"
  /\ Source.kind = "file"
  /\ IF size = 0 THEN End(Failed("IoError"))
     ELSE IF size > Policy.maxInput THEN End(Failed("BudgetExceeded"))
     ELSE stage' = "read" /\ UNCHANGED <<input, size, data, routed, outcome>>

Read ==
  /\ stage = "read"
  /\ IF size = 0 THEN End(Failed("IoError")) ELSE TakeUp

(* Another program writes to the file, or removes it.                      *)
FileChanges ==
  /\ stage \in {"acquire", "read"}
  /\ Source.kind = "file"
  /\ size' \in Sizes
  /\ UNCHANGED <<stage, input, data, routed, outcome>>

FetchFailure ==
  [ssrf |-> "SsrfBlocked", toolarge |-> "BudgetExceeded", other |-> "FetchError"]

Fetch ==
  /\ stage = "acquire"
  /\ Source.kind = "url"
  /\ IF ~Source.web THEN End(Failed("UnsupportedScheme"))
     ELSE \/ TakeUp
          \/ \E why \in DOMAIN FetchFailure : End(Failed(FetchFailure[why]))

-----------------------------------------------------------------------------
OverBudget == data > Policy.maxInput

Seen == Verdict(input.body, input.header, Source, Policy.zip)

(* What the sub-resource loop may do to a document: its references point   *)
(* at copies, or at the placeholder, which is reported.                    *)
Rewrites(refs) ==
  UNION {[S -> {LocalCopy, Policy.urls.placeholder}] :
           S \in SUBSET {refs[i].raw : i \in DOMAIN refs}}

Defanged(map) ==
  LET S == {r \in DOMAIN map : map[r] # LocalCopy} IN
  [i \in 1 .. Cardinality(S) |-> Action("subresource.refused", "Rewrite")]

StatusOf(refused, actions) ==
  IF refused THEN "Refused" ELSE IF actions = <<>> THEN "Clean" ELSE "Sanitised"

(* A document that was refused, or whose policy does not fetch, is left as *)
(* it is.                                                                  *)
LoopMaps(route) ==
  IF Policy.fetchSubresources /\ ~route.refused THEN Rewrites(route.references) ELSE {<<>>}

Subs(route) ==
  IF ~Policy.fetchSubresources THEN "off" ELSE IF route.refused THEN "none" ELSE "ran"

(* The pass that rewrites references may break off, and changes nothing.   *)
Pointed(body, map) ==
  {[body EXCEPT !.elements = RewriteReferences(@, broken, map)] : broken \in BOOLEAN}

Outputs(route, map) ==
  IF route.refused THEN {None}
  ELSE IF map = <<>> THEN {route.output}
  ELSE Pointed(route.output, map)

(* A bug in which the status is read before the loop has reported.         *)
ReportEarly(route, map) ==
  LET actions == SniffActions(Seen) \o route.actions IN
  \E output \in Outputs(route, map) :
    Done([status |-> StatusOf(route.refused, actions), actions |-> actions \o Defanged(map),
          output |-> output, subs |-> Subs(route), extension |-> NoType, map |-> map])

Report(route, map) ==
  LET actions == SniffActions(Seen) \o route.actions \o Defanged(map) IN
  \E output \in Outputs(route, map) :
    Done([status |-> StatusOf(route.refused, actions), actions |-> actions,
          output |-> output, subs |-> Subs(route), extension |-> NoType, map |-> map])

Deliver(route) ==
  /\ routed' = route
  /\ UNCHANGED data
  /\ \E map \in LoopMaps(route) : Report(route, map)

(* A sub-resource that panics takes its document with it (see Admit): of   *)
(* the bodies that do, only a TIFF gets that far.                          *)
LoopPanics(route) ==
  /\ Policy.fetchSubresources /\ "image" \in Policy.types
  /\ ~route.refused /\ route.references # <<>>
  /\ End(Failed("InternalError"))

(* pipeline(), once the input is there.                                    *)
Process ==
  /\ stage = "process"
  /\ input.role = "input"
  /\ IF OverBudget THEN End(Failed("BudgetExceeded"))
     ELSE IF Panics(input.body, Effective(Seen), Policy) THEN End(Failed("InternalError"))
     ELSE LET route == Route(input.body, Effective(Seen), Policy)
          IN  Deliver(route) \/ LoopPanics(route)

-----------------------------------------------------------------------------
(* A sub-resource without a declared type is taken for what the reference  *)
(* says it is; an image may be of many types.                              *)
Claimed(v, kind) ==
  IF v.declared # NoType \/ kind = "image" THEN v ELSE [v EXCEPT !.declared = kind]

Images == {"jpeg", "png", "gif", "webp", "svg", "tiff"}

(* A bug in which a body is held to be what its reference says it is.      *)
KindOfReference(type, kind) == kind

(* subresource_kind(): what sort of sub-resource the body turns out to be. *)
KindOf(type, kind) ==
  CASE type = NoType       -> kind
    [] type \in Images     -> "image"
    [] type \in {"css", "js"} -> type
    [] OTHER               -> NoType

AssetExtension(type, kind) ==
  IF type # NoType THEN Extension(type) ELSE IF kind = "image" THEN "bin" ELSE kind

Refused(actions) == [Failed("Refused") EXCEPT !.actions = actions]

Keep(route, type) ==
  LET actions == SniffActions(Seen) \o route.actions IN
  /\ routed' = route
  /\ UNCHANGED data
  /\ IF route.refused THEN Done(Refused(actions))
     ELSE Done([Failed(StatusOf(FALSE, actions)) EXCEPT
                  !.actions = actions, !.output = route.output,
                  !.extension = AssetExtension(type, KindOf(type, input.kind))])

(* process() catches a panic for the input it was given, not for one of    *)
(* its sub-resources: there is no report of it.                            *)
Unwind ==
  /\ stage' = "unwound"
  /\ UNCHANGED <<input, size, data, routed, outcome>>

AdmitAs(v, type) ==
  IF \/ Contradicted(v) /\ Policy.sniffRule = "Reject"
     \/ KindOf(type, input.kind) \notin Policy.types
  THEN End(Refused(SniffActions(Seen)))
  ELSE IF Panics(input.body, type, Policy) THEN Unwind
  ELSE Keep(Route(input.body, type, Policy), type)

(* handle(), once the body was fetched: refused if its types disagree, if  *)
(* it is none of the kinds asked for, or by its handler; else kept.        *)
Admit ==
  /\ stage = "process"
  /\ input.role = "subresource"
  /\ LET v == Claimed(Seen, input.kind)
     IN  IF OverBudget THEN End(Failed("BudgetExceeded")) ELSE AdmitAs(v, Effective(v))

Next ==
  \/ TakeBytes \/ Malformed \/ Measure \/ Read \/ FileChanges \/ Fetch
  \/ Process
  \/ Admit

Spec == Init /\ [][Next]_vars

-----------------------------------------------------------------------------
Status == {"Clean", "Sanitised", "Refused", "BudgetExceeded", "MalformedUrl", "IoError",
           "UnsupportedScheme", "SsrfBlocked", "FetchError", "InternalError"}

Delivered == stage = "done" /\ outcome.output # None

(* A file that grew after it was measured is still held to the budget, and *)
(* bytes leave the pipeline with a status that says so and no other.       *)
BudgetKept ==
  stage = "done" =>
    /\ outcome.status \in Status
    /\ outcome.status \in {"Clean", "Sanitised", "Refused"} => data <= Policy.maxInput
    /\ Delivered <=> outcome.status \in {"Clean", "Sanitised"}
    /\ ~Delivered => outcome.extension = NoType /\ outcome.map = <<>>

(* An output that differs from its input was reported as sanitised: only   *)
(* references that point at local copies change without one.               *)
CleanUntouched ==
  Delivered /\ outcome.status = "Clean" =>
    /\ \A r \in DOMAIN outcome.map : outcome.map[r] = LocalCopy
    /\ outcome.output \in Pointed(input.body, outcome.map)

(* A report holds of what comes with it: its budget was kept, its status   *)
(* says whether bytes left, and whether they differ from what came.        *)
StatusHonest == BudgetKept /\ CleanUntouched

(* What a policy has put in place of a URL, and the spelling it is given.  *)
OwnText(urls) == {urls.placeholder, urls.placeholder.canonical}

(* A URL the policy acts against is never handed on to be fetched, not by  *)
(* its old text nor by the one that replaced it, unless that is the text   *)
(* the policy itself puts there (a srcset's candidates are judged by the   *)
(* loop alone).                                                            *)
ReferencesSettled ==
  \A i \in DOMAIN routed.references :
    LET value == routed.references[i].raw IN
    routed.references[i].from # "srcset" /\ value \notin OwnText(Policy.urls) =>
      /\ Policy.html.scheme # "Allow" => ~Dangerous(value)
      /\ UrlRule(value, Policy.urls) = NoFire
         \/ UrlRule(value, Policy.urls).action = "Allow"

(* The directories of a TIFF that share no cell with one another or with   *)
(* the offset of the first.                                                *)
Spans(cells) ==
  {d .. NextField(cells, d) : d \in {c \in 1 .. Len(cells) - 1 : Structured(cells, c)}}

Overlapping(cells) == \E a, b \in Spans(cells) : a # b /\ a \cap b # {}

(* The type a body was handled as.                                         *)
Taken == Effective(IF input.role = "input" THEN Seen ELSE Claimed(Seen, input.kind))

NeverAllows(rules) ==
  "Allow" \notin {rules.script, rules.handler, rules.scheme, rules.frame, rules.refresh}

(* What comes out of a rewrite would pass where it was stopped: a document *)
(* under rules that allow nothing, and a stylesheet, a PDF that could be   *)
(* written, a TIFF and an SVG that were let through.  A scripting name in  *)
(* a string of a stylesheet may outlive the rule that was found.           *)
RewritesHold ==
  Delivered /\ routed.actions # <<>> =>
    LET out == outcome.output
        again == SanitizeHtml(out.elements, FALSE, Policy.html, Policy.urls)
    IN  CASE Taken = "html" -> NeverAllows(Policy.html) => XssActions(again.actions) = <<>>
          [] Taken = "svg"  -> Detected(out, "svg", Policy) = <<>>
          [] Taken = "css"  -> Tokenized(out.sheet) = {}
          [] Taken = "pdf"  -> out.pdf.saves => Detected(out, "pdf", Policy) = <<>>
          [] Taken = "tiff" -> ByteOrdered(out) /\ out.cells # <<>> /\ ~Overlapping(input.body.cells)
                                => ~TiffRisk(out).found
          [] OTHER          -> TRUE

(* What the scanners measure is what they bound: the walk over a document's*)
(* entities finds every circle, every chain and every size over budget and *)
(* no other; the pixels of an image do not wrap round.                     *)
BudgetsExact == stage = "done" =>
  /\ XmlRisk(input.body.decls, Policy.xml) <=> ~Expandable(input.body.decls, Policy.xml)
  /\ \A type \in Images :
       LET claim == ImageDimensions(input.body, type) IN
       Policy.maxPixels < Word * Word - 1 =>
         (ImageRisk(input.body, type, Policy.maxPixels)
            <=> claim.ok /\ claim.width * claim.height > Policy.maxPixels)

(* An asset that is kept is of a kind the policy asks for, is named after  *)
(* the type it was handled as, and under Reject its server did not say     *)
(* otherwise.                                                              *)
AssetsTyped ==
  Delivered /\ input.role = "subresource" =>
    /\ Taken \in Images => "image" \in Policy.types
    /\ Taken \in {"css", "js"} => Taken \in Policy.types
    /\ Taken = NoType => input.kind \in Policy.types /\ outcome.extension # NoType
    /\ Taken # NoType =>
         Taken \in Images \cup {"css", "js"} /\ outcome.extension = Extension(Taken)
    /\ Policy.sniffRule = "Reject" /\ Seen.sniffed # NoType =>
         Seen.declared \in {NoType, Seen.sniffed}
=============================================================================
