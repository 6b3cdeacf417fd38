----------------------------- MODULE MCEvaluation -----------------------------
(* Two malicious samples and one benign in both modes; an origin that      *)
(* publishes two scenarios, one of them outside the table.                 *)
EXTENDS Evaluation

MCCommands == {"correctness", "scenarios", "coverage", "measure"}

Ref(before, scheme, authority) == [before |-> before, scheme |-> scheme, authority |-> authority]

Base ==
  [set |-> "malicious", category |-> "xss", status |-> {"sanitised"}, rules |-> <<"script">>,
   allowed |-> {"idn"}, forbidden_rules |-> {}, forbidden |-> {"payload"}, preserved |-> {},
   output |-> TRUE, hurried |-> FALSE, fetch |-> NoFetchTable, refs |-> {}]

Scripted ==
  [name |-> "scripted"] @@
  [Base EXCEPT !.fetch = [status |-> {"sanitised", "refused"}, rules |-> <<"refused", "script">>,
                          allowed |-> {}, forbidden |-> {"style"}],
               !.refs = {Ref(":", "http", "public name"), Ref(" ", "relative", "public name"),
                         Ref("\"", "relative", "own"), Ref(",", "relative", "public name"),
                         Ref(":", "https", "address")}]

Page ==
  [name |-> "page"] @@
  [Base EXCEPT !.set = "benign", !.category = "article", !.rules = <<>>, !.forbidden = {},
               !.forbidden_rules = {"idn"}, !.preserved = {"text"}, !.hurried = TRUE,
               !.refs = {Ref("(", "relative", "public name"), Ref(":", "ftp", "public name")}]

Bomb ==
  [name |-> "bomb"] @@
  [Base EXCEPT !.category = "dos", !.status = {"refused"}, !.rules = <<>>, !.output = FALSE]

MCSamples == "malicious" :> <<Bomb, Scripted>> @@ "benign" :> <<Page>>

Done(status, rules, output) == [status |-> status, rules |-> rules, output |-> output, slow |-> FALSE]

MCOutcomes ==
  "scripted" :> {Done("sanitised", {"script", "refused"}, {"text"}), Done("sanitised", {}, {"text"}),
                 Done("sanitised", {"script"}, {"payload"}), Done("refused", {"script"}, NoOutput)}
  @@ "bomb" :> {Done("refused", {"dos"}, NoOutput), Done("clean", {}, {"payload"})}
  @@ "page" :> {Done("clean", {}, {"text"}), Done("sanitised", {"idn"}, {"text"}),
                [Done("clean", {}, {"text"}) EXCEPT !.slow = TRUE],
                Done("sanitised", {"script"}, {})}

Both == <<"benign", "malicious">>
Modes2 == <<FALSE, TRUE>>

Task ==
  [strict |-> TRUE, sets |-> Both, modes |-> Modes2, disk |-> TRUE, policy |-> TRUE,
   unreadable |-> {}]

MCTasks ==
  {Task, [Task EXCEPT !.strict = FALSE, !.modes = <<FALSE>>],
   [Task EXCEPT !.disk = FALSE], [Task EXCEPT !.policy = FALSE],
   [Task EXCEPT !.unreadable = {"scripted"}],
   [Task EXCEPT !.strict = FALSE, !.sets = <<"benign">>, !.unreadable = {"page"}]}

-----------------------------------------------------------------------------
MCModes == <<"nofetch", "fetch">>
MCPublished == <<"resource-count-bomb", "new-scenario">>

Reply200(status, rules, fetched, refused, blocked) ==
  [NoAnswer EXCEPT !.http = 200,
     !.report = [NoReport EXCEPT !.status = status, !.rules = rules, !.fetched = fetched,
                                 !.refused = refused, !.blocked = blocked]]

MCAnswers ==
  "resource-count-bomb" :> {Reply200("clean", {}, 32, 8, 0), Reply200("clean", {}, 33, 0, 0),
                            [NoAnswer EXCEPT !.http = 502]}
  @@ "new-scenario" :> {Reply200("sanitised", {}, 1, 0, 0),
                        [Reply200("clean", {}, 0, 0, 0) EXCEPT !.report.error = TRUE]}
  @@ Sentinel :> {Reply200("sanitised", {"ssrf.loopback"}, 0, 0, 2),
                  [Reply200("sanitised", {"ssrf.loopback"}, 0, 0, 2)
                     EXCEPT !.report.survived = {"/s.css"}],
                  Reply200("sanitised", {"ssrf.loopback"}, 1, 0, 0),
                  [NoAnswer EXCEPT !.transport = TRUE]}

Ready ==
  [skip |-> FALSE, originUp |-> TRUE, docker |-> TRUE, image |-> TRUE, tarball |-> TRUE,
   loads |-> TRUE, runs |-> TRUE, binary |-> TRUE, attach |-> FALSE]

MCWorlds ==
  {Ready, [Ready EXCEPT !.attach = TRUE], [Ready EXCEPT !.binary = FALSE],
   [Ready EXCEPT !.originUp = FALSE, !.image = FALSE],
   [Ready EXCEPT !.originUp = FALSE, !.docker = FALSE],
   [Ready EXCEPT !.originUp = FALSE, !.image = FALSE, !.loads = FALSE],
   [Ready EXCEPT !.originUp = FALSE, !.runs = FALSE],
   [Ready EXCEPT !.originUp = FALSE, !.image = FALSE, !.tarball = FALSE],
   [Ready EXCEPT !.originUp = FALSE, !.skip = TRUE]}

-----------------------------------------------------------------------------
(* Two files of one set, of one size or empty, and one of the other; the   *)
(* ground truth's policies, two that were named, and one with the file     *)
(* name of a standard policy.                                              *)
File(name, bytes, readable) == [name |-> name, bytes |-> bytes, readable |-> readable]

MCFiles ==
  "benign" :> <<File("page", 3, TRUE), File("empty", 0, TRUE)>>
  @@ "malicious" :> <<File("gone", 1, FALSE)>>

MCPolicies ==
  "nofetch" :> [slug |-> "nofetch", fetching |-> FALSE, builds |-> TRUE]
  @@ "fetch" :> [slug |-> "fetch", fetching |-> TRUE, builds |-> TRUE]
  @@ "custom" :> [slug |-> "custom", fetching |-> TRUE, builds |-> TRUE]
  @@ "elsewhere/nofetch" :> [slug |-> "nofetch", fetching |-> TRUE, builds |-> TRUE]
  @@ "broken" :> [slug |-> "broken", fetching |-> FALSE, builds |-> FALSE]

MCStandard == TRUE :> "fetch" @@ FALSE :> "nofetch"

Survey(kind, policy) ==
  [kind |-> kind, sets |-> <<"benign">>, modes |-> Modes2, policy |-> policy, repeats |-> 2]

MCSurveys ==
  {Survey(kind, policy) : kind \in {"latency", "memory"}, policy \in DOMAIN MCPolicies \cup {"none"}}
  \cup {[Survey(kind, "none") EXCEPT !.sets = Both] : kind \in {"latency", "memory"}}
  \cup {[Survey("memory", "nofetch") EXCEPT !.sets = Both],
        [Survey("phases", "none") EXCEPT !.repeats = 1],
        [Survey("latency", "custom") EXCEPT !.repeats = 0]}

Kept0(set, slug, kind, us) ==
  <<set, slug, kind>> :>
    [rows |-> IF set = "malicious" THEN <<[name |-> "gone", bytes |-> 1, us |-> us]>>
              ELSE <<[name |-> "empty", bytes |-> 0, us |-> us], [name |-> "page", bytes |-> 3, us |-> us]>>,
     fetching |-> MCPolicies[slug].fetching, policy |-> slug, loads |-> TRUE, fresh |-> FALSE]

MCEarlier ==
  {<<>>,
   Kept0("benign", "nofetch", "latency", 2) @@ Kept0("malicious", "nofetch", "latency", 2)
     @@ Kept0("benign", "custom", "latency", 0) @@ Kept0("benign", "fetch", "phases", 2)}
=============================================================================
