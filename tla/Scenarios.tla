------------------------------ MODULE Scenarios ------------------------------
(***************************************************************************)
(* xtask scenarios (scenarios/*.rs): an origin of hostile pages is made    *)
(* sure of, then in each suite and each mode a sanitiser is started with   *)
(* that mode's policy, asked about every scenario, judged, and killed.     *)
(* The local suite has one scenario, a page whose references point at a    *)
(* listener nobody may connect to.  docker, the origin and what the        *)
(* sanitiser answers are external.                                         *)
(***************************************************************************)
EXTENDS Naturals, Sequences, FiniteSets, FiniteSetsExt, SequencesExt, TLC

CONSTANTS
  Modes,        \* the modes asked for, in order
  Published,    \* the scenarios the origin publishes, in order
  Answers       \* scenario -> [transport, http, report, slow]: what may come back

(* The origin publishes no scenario twice.                                 *)
ASSUME ScenariosAssumption ==
  /\ Modes \in Seq({"nofetch", "fetch"}) /\ Modes # <<>> /\ IsInjective(Modes)
  /\ Published \in Seq(ToSet(Published)) /\ IsInjective(Published)

Sentinel == "ssrf-sentinel"

(* expect::table(): the codes, statuses and rules a scenario must end in.  *)
(* Where markers may not survive in the output, they are one, "payload".   *)
Expect(http, status, rules) == [http |-> http, status |-> status, rules |-> rules]
Sanitised(rules) == Expect({200}, {"sanitised"}, rules)
Tolerated == Expect({200}, {"clean", "sanitised"}, {})
ScriptGone == Sanitised({"html.script.disallowed"})

Table ==
  ("script-tag" :> ScriptGone) @@ ("triple-hop-to-script-html" :> ScriptGone)
  @@ ("hop-two" :> ScriptGone) @@ ("final-script" :> ScriptGone)
  @@ ("inline-handler" :> Sanitised({"html.attr.event_handler", "html.attr.dangerous_scheme"}))
  @@ ("meta-refresh" :> Sanitised({"html.meta.refresh"}))
  @@ ("iframe-embed" :> Sanitised({"html.frame.disallowed"}))
  @@ ("object-embed" :> Sanitised({"html.frame.disallowed"}))
  @@ ("data-uri" :> Sanitised({"html.attr.dangerous_scheme"}))
  @@ ("ssrf-internal-reference" :> Sanitised({"ssrf.link_local", "ssrf.private"}))
  @@ ("idn-homograph" :> Sanitised({"url.idn", "url.homograph"}))
  @@ ("host-split" :> Sanitised({"url.userinfo", "url.normalised"}))
  @@ ("html-disguised-as-png" :> Sanitised({"sniff.mime_mismatch", "html.script.disallowed"}))
  @@ (Sentinel :> Sanitised({"ssrf.loopback"}))
  @@ ("echo-headers" :> Tolerated) @@ ("recursive-include" :> Tolerated)
  @@ ("resource-count-bomb" :> Tolerated) @@ ("malformed" :> Tolerated)
  @@ ("png-magic-plus-html" :> Tolerated) @@ ("path-traversal" :> Tolerated)
  @@ ("pdf-served-as-html" :> [Tolerated EXCEPT !.rules = {"sniff.mime_mismatch"}])
  @@ ("malicious" :>
        Expect({200}, {"refused"},
               {"scan.css.dangerous_scheme", "scan.css.expression", "scan.css.import"}))
  @@ ("text-disguised-as-javascript" :> Expect({200}, {"refused"}, {"scan.script.active_type"}))
  @@ ("scripted-pdf" :> Expect({200}, {"refused"}, {"scan.pdf.active_content"}))
  @@ ("gzip-bomb" :> Expect({502, 413}, {"fetch_error", "budget_exceeded"}, {}))
  @@ ("xml-bomb" :>
        Expect({200, 413}, {"refused", "budget_exceeded"}, {"scan.xml.entity_expansion"}))
  @@ ("huge-dimensions" :>
        Expect({200, 413}, {"refused", "budget_exceeded"}, {"scan.image.dimensions"}))
  @@ ("large-payload" :> Expect({413}, {"budget_exceeded"}, {}))
  @@ ("slow-drip" :> Expect({502}, {"fetch_error"}, {}))

Sniffed == "png-magic-plus-html" :> "image/png" @@ "pdf-served-as-html" :> "application/pdf"
Hurried == {"slow-drip"}
Marked ==
  {"script-tag", "triple-hop-to-script-html", "hop-two", "final-script", "inline-handler",
   "meta-refresh", "iframe-embed", "object-embed", "data-uri", "ssrf-internal-reference",
   "idn-homograph", "host-split", "html-disguised-as-png", "echo-headers", "malformed", Sentinel}

(* expect::fetch_table(), of scenarios that are all in the first.          *)
FetchExpect(attempted, refusals, blocked, forbidden) ==
  [attempted |-> attempted, refusals |-> refusals, blocked |-> blocked, forbidden |-> forbidden]

FetchTable ==
  ("resource-count-bomb" :> FetchExpect(32, 1, FALSE, {}))
  @@ ("recursive-include" :> FetchExpect(2, 0, FALSE, {}))
  @@ (Sentinel :> FetchExpect(1000, 0, TRUE, {"/s.css"}))

-----------------------------------------------------------------------------
NoReport ==
  [status |-> "none", rules |-> {}, mime |-> "none", survived |-> {}, error |-> FALSE,
   fetched |-> 0, refused |-> 0, blocked |-> 0]

(* post(): the body of an answer that is not a success is thrown away, so  *)
(* neither its error nor its report is ever looked at.                     *)
Parsed(answer) ==
  IF answer.transport \/ answer.http >= 400 THEN NoReport ELSE answer.report

(* judge(): a row passes when nothing speaks against it.                   *)
FetchFaults(name, report) ==
  IF name \notin DOMAIN FetchTable THEN {}
  ELSE LET rule == FetchTable[name] IN
       {f \in {"too many requests", "too few refusals", "nothing blocked", "fetched marker"} :
          \/ f = "too many requests" /\ report.fetched > rule.attempted
          \/ f = "too few refusals" /\ report.refused < rule.refusals
          \/ f = "nothing blocked" /\ rule.blocked /\ report.blocked = 0
          \/ f = "fetched marker" /\ rule.forbidden \cap report.survived # {}}

TableFaults(name, answer, report) ==
  IF name \notin DOMAIN Table THEN {}
  ELSE {f \in {"http", "status", "rules", "marker", "mime", "time"} :
          \/ f = "http" /\ answer.http \notin Table[name].http
          \/ f = "status" /\ report.status \notin Table[name].status \cup {"none"}
          \/ f = "rules" /\ ~(Table[name].rules \subseteq report.rules)
          \/ f = "marker" /\ name \in Marked /\ "payload" \in report.survived
          \/ f = "mime" /\ name \in DOMAIN Sniffed /\ report.mime # Sniffed[name]
          \/ f = "time" /\ name \in Hurried /\ answer.slow}

Judge(mode, name, answer, accepted) ==
  LET report == Parsed(answer)
  IN  (IF answer.transport THEN {"transport"} ELSE {})
      \cup (IF report.error THEN {"error"} ELSE {})
      \cup TableFaults(name, answer, report)
      \cup (IF mode = "fetch" THEN FetchFaults(name, report) ELSE {})
      \cup (IF accepted > 0 THEN {"sentinel"} ELSE {})
-----------------------------------------------------------------------------
VARIABLES
  world,      \* [skip, originUp, docker, image, tarball, loads, runs, binary, attach]
  originUp,   \* the origin answers
  step,       \* where run() stands
  place,      \* [suite, mode, next]: the suite, the mode's index, the scenario's
  child,      \* the sanitiser that was started: [state, mode]
  port,       \* who listens on its port: "free", "child" or "other"
  intruder,   \* somebody else took the port
  answer,     \* the answer to judge
  by,         \* who gave it: the mode of the child's policy, or another
  trap,       \* the sentinel: [open, backlog, accepted, polled]
  reached,    \* somebody connected to it before the answer
  rows,       \* [suite, mode, name, by, reached, passed]
  exit        \* "none", 0 or 1 as a name

originVars == <<world, originUp>>
serverVars == <<child, port, intruder>>
askVars == <<answer, by, trap, reached>>
scenarioVars == <<originVars, step, place, serverVars, askVars, rows, exit>>

NoChild == [state |-> "none", mode |-> "none"]
NoAnswer == [transport |-> FALSE, http |-> 0, report |-> NoReport, slow |-> FALSE]
NoTrap == [open |-> FALSE, backlog |-> 0, accepted |-> 0, polled |-> FALSE]

ScenarioInit ==
  /\ originUp = world.originUp
  /\ step = "ensure"
  /\ place = [suite |-> "origin", mode |-> 1, next |-> 1]
  /\ child = NoChild
  /\ port = IF world.attach THEN "other" ELSE "free"
  /\ intruder = FALSE
  /\ answer = NoAnswer
  /\ by = "free"
  /\ trap = NoTrap
  /\ reached = FALSE
  /\ rows = <<>>
  /\ exit = "none"

Mode == Modes[place.mode]
Names == IF place.suite = "origin" THEN Published ELSE <<Sentinel>>
Name == Names[place.next]

(* Drop of the sanitiser: it is killed and waited for.                     *)
Dropped == child' = NoChild /\ port' = (IF port = "child" THEN "free" ELSE port)

(* A bug in which a server that is not up yet has no owner to drop it.     *)
QuitUnowned ==
  /\ exit' = "1"
  /\ step' = "over"
  /\ trap' = NoTrap
  /\ IF child.state = "booting" THEN UNCHANGED <<child, port>> ELSE Dropped

(* An error leaves run() and drops what it had; no row is saved.           *)
Quit ==
  /\ exit' = "1"
  /\ step' = "over"
  /\ trap' = NoTrap
  /\ Dropped

QuitFrom(here) ==
  /\ step = here
  /\ Quit
  /\ UNCHANGED <<originVars, place, intruder, answer, by, reached, rows>>

Go(to) ==
  /\ step' = to
  /\ UNCHANGED <<originVars, place, serverVars, askVars, rows, exit>>

-----------------------------------------------------------------------------
(* Origin::ensure(): an origin that answers is left alone; an image is     *)
(* loaded if it is not there, an old container is removed, if there is one,*)
(* and a new one is waited for.                                            *)
CanRun ==
  world.docker /\ (world.image \/ (world.tarball /\ world.loads)) /\ world.runs

Ensure ==
  \/ /\ step = "ensure"
     /\ world.skip \/ originUp
     /\ Go("list")
  \/ /\ step = "ensure"
     /\ ~world.skip /\ ~originUp
     /\ CanRun
     /\ Go("await origin")
  \/ ~world.skip /\ ~originUp /\ ~CanRun /\ QuitFrom("ensure")

OriginComesUp ==
  /\ step = "await origin"
  /\ ~originUp
  /\ originUp' = TRUE
  /\ UNCHANGED <<world, step, place, serverVars, askVars, rows, exit>>

OriginAwaited ==
  \/ step = "await origin" /\ originUp /\ Go("list")
  \/ QuitFrom("await origin")

(* An origin that is up may still be too late, or list what does not parse.*)
LoadScenarios ==
  \/ step = "list" /\ originUp /\ Go("start")
  \/ QuitFrom("list")

-----------------------------------------------------------------------------
GoAsk == Go(IF Len(Names) = 0 THEN "stop" ELSE "ask")

(* Sanitiser::start(), unless one is attached to: nothing may answer on the*)
(* port yet, and the program must have been built.                         *)
Start ==
  \/ step = "start" /\ world.attach /\ GoAsk
  \/ /\ step = "start"
     /\ ~world.attach /\ port = "free" /\ world.binary
     /\ child' = [state |-> "booting", mode |-> Mode]
     /\ step' = "boot"
     /\ UNCHANGED <<originVars, place, port, intruder, askVars, rows, exit>>
  \/ ~world.attach /\ (port # "free" \/ ~world.binary) /\ QuitFrom("start")

Happens == UNCHANGED <<originVars, step, place, askVars, rows, exit>>

(* A port that is taken ends the child.                                    *)
ChildBinds ==
  /\ child.state = "booting"
  /\ IF port = "free"
     THEN port' = "child" /\ child' = [child EXCEPT !.state = "serving"]
     ELSE child' = [child EXCEPT !.state = "dead"] /\ UNCHANGED port
  /\ UNCHANGED intruder
  /\ Happens

ChildDies ==
  /\ child.state \in {"booting", "serving"}
  /\ child' = [child EXCEPT !.state = "dead"]
  /\ port' = IF port = "child" THEN "free" ELSE port
  /\ UNCHANGED intruder
  /\ Happens

(* Another program that also answers on /health takes the port.            *)
OtherBinds ==
  /\ exit = "none"
  /\ port = "free"
  /\ ~intruder
  /\ port' = "other"
  /\ intruder' = TRUE
  /\ UNCHANGED child
  /\ Happens

(* wait_until() asks the port, and does not look at the child.             *)
Booted ==
  \/ step = "boot" /\ port # "free" /\ GoAsk
  \/ QuitFrom("boot")

-----------------------------------------------------------------------------
(* The sentinel listens before the page that names it is posted.           *)
Post ==
  \/ /\ step = "ask"
     /\ trap' = IF place.suite = "local" THEN [NoTrap EXCEPT !.open = TRUE] ELSE NoTrap
     /\ reached' = FALSE
     /\ step' = "asking"
     /\ UNCHANGED <<originVars, place, serverVars, answer, by, rows, exit>>
  \/ place.suite = "local" /\ QuitFrom("ask")

(* Nobody should, but the listener is there to find out; one that is still *)
(* at work when its caller gave up may connect later.                      *)
Connect ==
  /\ trap.open
  /\ port # "free"
  /\ trap.backlog = 0 /\ trap.accepted = 0
  /\ trap' = [trap EXCEPT !.backlog = 1]
  /\ reached' = (reached \/ step = "asking")
  /\ UNCHANGED <<originVars, step, place, serverVars, answer, by, rows, exit>>

Answered ==
  /\ step = "asking"
  /\ answer' \in IF port = "free" THEN {[NoAnswer EXCEPT !.transport = TRUE]} ELSE Answers[Name]
  /\ by' = IF port = "child" THEN child.mode ELSE port
  /\ step' = IF place.suite = "local" THEN "asleep" ELSE "judge"
  /\ UNCHANGED <<originVars, place, serverVars, trap, reached, rows, exit>>

(* The listener's thread looks every 20 ms, and at least once while the    *)
(* harness sleeps for 300 ms.                                              *)
Poll ==
  /\ trap.open
  /\ trap' = [trap EXCEPT !.backlog = 0, !.accepted = @ + trap.backlog,
                          !.polled = @ \/ step = "asleep"]
  /\ UNCHANGED <<originVars, step, place, serverVars, answer, by, reached, rows, exit>>

WakeUp == step = "asleep" /\ trap.polled /\ Go("judge")

Row ==
  [suite |-> place.suite, mode |-> Mode, name |-> Name,
   by |-> by, reached |-> reached,
   passed |-> Judge(Mode, Name, answer, trap.accepted) = {}]

JudgeRow ==
  /\ step = "judge"
  /\ rows' = Append(rows, Row)
  /\ trap' = NoTrap
  /\ reached' = FALSE
  /\ answer' = NoAnswer
  /\ by' = "free"
  /\ IF place.next < Len(Names)
     THEN place' = [place EXCEPT !.next = @ + 1] /\ step' = "ask"
     ELSE step' = "stop" /\ UNCHANGED place
  /\ UNCHANGED <<originVars, serverVars, exit>>

(* The end of a mode drops its server, before the next is started.         *)
Stop ==
  /\ step = "stop"
  /\ Dropped
  /\ IF place.mode < Len(Modes)
     THEN place' = [place EXCEPT !.mode = @ + 1, !.next = 1] /\ step' = "start" /\ UNCHANGED exit
     ELSE IF place.suite = "origin"
     THEN place' = [suite |-> "local", mode |-> 1, next |-> 1] /\ step' = "start" /\ UNCHANGED exit
     ELSE step' = "save" /\ UNCHANGED <<place, exit>>
  /\ UNCHANGED <<originVars, intruder, askVars, rows>>

(* save() may fail however well the rows did.                              *)
SaveScenarios ==
  \/ /\ step = "save"
     /\ exit' = IF \A i \in DOMAIN rows : rows[i].passed THEN "0" ELSE "1"
     /\ step' = "over"
     /\ UNCHANGED <<originVars, place, serverVars, askVars, rows>>
  \/ QuitFrom("save")

Harness ==
  \/ Ensure \/ OriginAwaited \/ LoadScenarios \/ Start \/ Booted \/ Post \/ WakeUp
  \/ JudgeRow \/ Stop \/ SaveScenarios

Surroundings ==
  OriginComesUp \/ ChildBinds \/ ChildDies \/ OtherBinds \/ Connect \/ Answered \/ Poll

-----------------------------------------------------------------------------
(* A row that passed met no fault it can show: nobody had connected to the *)
(* sentinel before the answer, and the server that answered ran under the  *)
(* policy of the row's mode, or was no server of the task at all, which is *)
(* attached to or took the port; never one of another mode.  The task ends *)
(* well only when each scenario of each suite passed once in each mode, and*)
(* ends one way or the other with no server of its own left.               *)
ScenariosTold ==
  /\ \A i \in DOMAIN rows : rows[i].passed =>
       /\ ~rows[i].reached
       /\ \/ rows[i].by = rows[i].mode
          \/ rows[i].by = "other" /\ (intruder \/ world.attach)
  /\ exit = "0" =>
       /\ \A i \in DOMAIN rows : rows[i].passed
       /\ Len(rows) = Len(Modes) * (Len(Published) + 1)
       /\ IsInjective([i \in DOMAIN rows |-> <<rows[i].suite, rows[i].mode, rows[i].name>>])
  /\ exit # "none" => child = NoChild /\ ~trap.open
=============================================================================
