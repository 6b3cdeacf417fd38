---------------------------- MODULE FrontEndProofs ----------------------------
(***************************************************************************)
(* What the program promises around its engine, for any policy file, any   *)
(* arguments, tree and callers: nothing happens under a configuration in   *)
(* error, a caller is answered about its own request, no output of a run   *)
(* overwrites another, and a walk takes its tree and nothing else.         *)
(***************************************************************************)
EXTENDS FrontEnd, SumProofs, TLAPS

(* Nothing has been processed, written or listened to yet.                 *)
Untouched ==
  /\ emitted = 0
  /\ written = <<>>
  /\ server = "down"
  /\ exit \in {NoExit, ConfigError}

Vetted == LoadError(command.file) = "none"

(* All that is looked at before the first input or request was in order.   *)
Sound ==
  /\ Vetted
  /\ command.listsOk
  /\ ~command.serve => gathered = "done" /\ command.outOk

Stages == {"policy", "gather", "prepare", "compile", "bind", "process", "serve", "over"}

(* What each stage has behind it; a failure on the way goes straight to    *)
(* the end, with nothing touched.                                          *)
StageInv ==
  /\ stage \in Stages
  /\ gathered \in {"going", "done", "failed"}
  /\ stage \notin {"process", "serve", "over"} => Untouched
  /\ stage \notin {"policy", "over"} => Vetted
  /\ stage \in {"gather", "prepare", "process"} => ~command.serve
  /\ stage \in {"bind", "serve"} => command.serve
  /\ stage \in {"prepare", "compile"} /\ ~command.serve => gathered = "done"
  /\ stage = "compile" /\ ~command.serve => command.outOk
  /\ stage \in {"bind", "process", "serve"} => Sound
  /\ stage = "over" => Untouched \/ Sound

(* An output directory is a scan's whose policy and inputs were in order,  *)
(* and comes before anything that is written.                              *)
OutDirInv ==
  /\ outDir => Vetted /\ gathered = "done" /\ ~command.serve /\ stage \notin {"policy", "gather"}
  /\ (stage = "compile" /\ ~command.serve) \/ stage = "process" => outDir
  /\ written # <<>> => outDir

PolicyInv ==
  \/ policy = Builtin
  \/ Vetted /\ policy = Override(Load(command.file), command.flag)

(* No policy has been settled, and nothing is under way.                   *)
LEMMA InitStageInv == Init => StageInv /\ OutDirInv /\ PolicyInv
<1>. SUFFICES ASSUME Init PROVE StageInv /\ OutDirInv /\ PolicyInv
  OBVIOUS
<1>1. /\ stage = "policy" /\ policy = Builtin /\ gathered = "going"
      /\ emitted = 0 /\ written = <<>> /\ server = "down" /\ exit = NoExit /\ ~outDir
  BY DEF Init, GatherInit, ServeInit
<1>. QED
  BY <1>1 DEF StageInv, OutDirInv, PolicyInv, Stages, Untouched

(* Gathering ends in one of two ways, and touches nothing else.            *)
LEMMA GatherKeeps ==
  ASSUME gathered \in {"going", "done", "failed"}, Gather
  PROVE  gathered' \in {"going", "done", "failed"} /\ fs' = fs
BY DEF Gather, NoList, TakeUrl, TakePath, WalkDir, AllTaken, SkipLink, Enter, TakeFile, Leave,
       Open

(* Every stage follows one that has looked at what it relies on.           *)
LEMMA StepStageInv == StageInv /\ [Next]_vars => StageInv'
<1>. SUFFICES ASSUME StageInv, [Next]_vars PROVE StageInv'
  OBVIOUS
<1>. USE DEF StageInv, Stages, Untouched, Vetted, Sound
<1>1. CASE SettlePolicy
  BY <1>1 DEF SettlePolicy, Exit, gatherVars
<1>2. CASE GatherStep
  BY <1>2, GatherKeeps DEF GatherStep, runVars, serveVars
<1>3. CASE Gathered
  BY <1>3 DEF Gathered, Exit, gatherVars, serveVars
<1>4. CASE PrepareOutDir
  BY <1>4 DEF PrepareOutDir, Exit, gatherVars, serveVars
<1>5. CASE Compile
  BY <1>5 DEF Compile, Exit, gatherVars, serveVars
<1>6. CASE Emit
  BY <1>6 DEF Emit, gatherVars, serveVars
<1>7. CASE WriteReport
  BY <1>7 DEF WriteReport, Exit, gatherVars, serveVars
<1>8. CASE Bind
  BY <1>8 DEF Bind, Exit, gatherVars, serveVars
<1>9. CASE ServerDone
  BY <1>9 DEF ServerDone, Exit, gatherVars, serveVars
<1>10. CASE ServeStep
  BY <1>10 DEF ServeStep, gatherVars, runVars
<1>11. CASE UNCHANGED vars
  BY <1>11 DEF vars, gatherVars, serveVars, runVars
<1>. QED
  BY <1>1, <1>2, <1>3, <1>4, <1>5, <1>6, <1>7, <1>8, <1>9, <1>10, <1>11 DEF Next, Working

(* It is made or probed once, and stays.                                   *)
LEMMA StepOutDirInv == StageInv /\ OutDirInv /\ [Next]_vars => OutDirInv'
<1>. SUFFICES ASSUME StageInv, OutDirInv, [Next]_vars PROVE OutDirInv'
  OBVIOUS
<1>. USE DEF StageInv, OutDirInv, Stages, Untouched, Vetted
<1>1. CASE SettlePolicy
  BY <1>1 DEF SettlePolicy, Exit, gatherVars
<1>2. CASE GatherStep
  BY <1>2 DEF GatherStep, runVars, serveVars
<1>3. CASE Gathered
  BY <1>3 DEF Gathered, Exit, gatherVars, serveVars
<1>4. CASE PrepareOutDir
  BY <1>4 DEF PrepareOutDir, Exit, gatherVars, serveVars
<1>5. CASE Compile
  BY <1>5 DEF Compile, Exit, gatherVars, serveVars
<1>6. CASE Emit
  BY <1>6 DEF Emit, gatherVars, serveVars
<1>7. CASE WriteReport
  BY <1>7 DEF WriteReport, Exit, gatherVars, serveVars
<1>8. CASE Bind
  BY <1>8 DEF Bind, Exit, gatherVars, serveVars
<1>9. CASE ServerDone
  BY <1>9 DEF ServerDone, Exit, gatherVars, serveVars
<1>10. CASE ServeStep
  BY <1>10 DEF ServeStep, gatherVars, runVars
<1>11. CASE UNCHANGED vars
  BY <1>11 DEF vars, gatherVars, serveVars, runVars
<1>. QED
  BY <1>1, <1>2, <1>3, <1>4, <1>5, <1>6, <1>7, <1>8, <1>9, <1>10, <1>11 DEF Next, Working

(* The policy is settled once, from the file and the flag.                 *)
LEMMA StepPolicyInv == PolicyInv /\ [Next]_vars => PolicyInv'
<1>. SUFFICES ASSUME PolicyInv, [Next]_vars PROVE PolicyInv'
  OBVIOUS
<1>. USE DEF PolicyInv, Vetted
<1>1. CASE SettlePolicy
  BY <1>1 DEF SettlePolicy
<1>2. CASE GatherStep \/ ServeStep \/ UNCHANGED vars
  BY <1>2 DEF GatherStep, ServeStep, vars, runVars
<1>3. CASE Gathered \/ PrepareOutDir \/ Compile \/ Emit \/ WriteReport \/ Bind \/ ServerDone
  BY <1>3 DEF Gathered, PrepareOutDir, Compile, Emit, WriteReport, Bind, ServerDone
<1>. QED
  BY <1>1, <1>2, <1>3 DEF Next, Working

(* The defaults act on what they find, and what may be fetched fits what   *)
(* may be taken up.                                                        *)
LEMMA BuiltinIsCautious == Acts(Builtin) /\ Fits(Builtin)
<1>1. Acts(Builtin)
  BY DEF Acts, Builtin, HtmlActions, UrlActions, HtmlDefaults, UrlDefaults, SsrfDefaults
<1>2. Fits(Builtin)
  BY DEF Fits, Builtin, FetchDefaults, BudgetDefaults, SubresourceDefaults
<1>. QED
  BY <1>1, <1>2

(* A key of a section is the file's if the file gives it, and otherwise    *)
(* the default.  The flag touches none but the one it is for.              *)
LEMMA LoadedKey ==
  ASSUME NEW file, NEW flag,
         NEW s \in {"html", "urls", "budgets", "fetch", "subresources", "ssrf"},
         NEW n \in DOMAIN Builtin[s], n # "fetch_subresources"
  PROVE  Override(Load(file), flag)[s][n] =
           IF <<s, n>> \in DOMAIN file.keys THEN file.keys[<<s, n>>] ELSE Builtin[s][n]
<1>1. s \in DOMAIN Builtin /\ s # "source"
  BY DEF Builtin
<1>2. Load(file)[s] = [m \in DOMAIN Builtin[s] |->
                         IF <<s, m>> \in DOMAIN file.keys THEN file.keys[<<s, m>>]
                         ELSE Builtin[s][m]]
  BY <1>1 DEF Load
<1>3. DOMAIN Load(file) = DOMAIN Builtin
  BY DEF Load
<1>4. Override(Load(file), flag)[s][n] = Load(file)[s][n]
  BY <1>1, <1>2, <1>3 DEF Override
<1>. QED
  BY <1>2, <1>4

(* A policy that was loaded acts wherever the file does not say otherwise. *)
LEMMA LoadedActs ==
  ASSUME NEW file, NEW flag,
         \A k \in DOMAIN file.keys \ Bounding : file.keys[k] \notin {"allow", "never"}
  PROVE  Acts(Override(Load(file), flag))
<1>. DEFINE P == Override(Load(file), flag)
<1>1. ASSUME NEW s \in {"html", "urls", "ssrf"}, NEW n \in DOMAIN Builtin[s],
             n \in HtmlActions \cup UrlActions \cup {"guard_input_urls"}
      PROVE  P[s][n] \notin {"allow", "never"} \/ P[s][n] = Builtin[s][n]
  <2>1. n # "fetch_subresources" /\ <<s, n>> \notin Bounding
    BY <1>1 DEF HtmlActions, UrlActions, Bounding
  <2>2. P[s][n] = IF <<s, n>> \in DOMAIN file.keys THEN file.keys[<<s, n>>] ELSE Builtin[s][n]
    BY <1>1, <2>1, LoadedKey
  <2>. QED
    BY <2>1, <2>2
<1>. HIDE DEF P
<1>2. ASSUME NEW n \in HtmlActions PROVE P.html[n] # "allow"
  <2>1. n \in DOMAIN Builtin["html"] /\ Builtin["html"][n] # "allow"
    BY DEF HtmlActions, Builtin, HtmlDefaults
  <2>2. P["html"][n] # "allow"
    BY <1>1, <2>1
  <2>. QED
    BY <2>2
<1>3. ASSUME NEW n \in UrlActions PROVE P.urls[n] # "allow"
  <2>1. n \in DOMAIN Builtin["urls"] /\ Builtin["urls"][n] # "allow"
    BY DEF UrlActions, Builtin, UrlDefaults
  <2>2. P["urls"][n] # "allow"
    BY <1>1, <2>1
  <2>. QED
    BY <2>2
<1>4. P.ssrf.guard_input_urls # "never"
  <2>1. /\ "guard_input_urls" \in DOMAIN Builtin["ssrf"]
        /\ Builtin["ssrf"]["guard_input_urls"] # "never"
    BY DEF Builtin, SsrfDefaults
  <2>2. P["ssrf"]["guard_input_urls"] # "never"
    BY <1>1, <2>1
  <2>. QED
    BY <2>2
<1>5. Acts(P)
  BY <1>2, <1>3, <1>4 DEF Acts
<1>. QED
  BY <1>5 DEF P

(* A file that leaves every bound alone leaves them fitting.               *)
LEMMA LoadedFits ==
  ASSUME NEW file, NEW flag, Bounding \cap DOMAIN file.keys = {}
  PROVE  Fits(Override(Load(file), flag))
<1>. DEFINE P == Override(Load(file), flag)
<1>1. ASSUME NEW s \in {"budgets", "fetch", "subresources"}, NEW n \in DOMAIN Builtin[s],
             <<s, n>> \in Bounding
      PROVE  P[s][n] = Builtin[s][n]
  <2>1. n # "fetch_subresources" /\ <<s, n>> \notin DOMAIN file.keys
    BY <1>1 DEF Bounding
  <2>. QED
    BY <2>1, LoadedKey
<1>. HIDE DEF P
<1>2. /\ {"max_response_bytes", "connect_timeout_ms", "total_timeout_ms"}
           \subseteq DOMAIN Builtin["fetch"]
      /\ "max_input_bytes" \in DOMAIN Builtin["budgets"]
      /\ "max_total_bytes" \in DOMAIN Builtin["subresources"]
  BY DEF Builtin, FetchDefaults, BudgetDefaults, SubresourceDefaults
<1>3. /\ P["fetch"]["max_response_bytes"] = Builtin["fetch"]["max_response_bytes"]
      /\ P["fetch"]["connect_timeout_ms"] = Builtin["fetch"]["connect_timeout_ms"]
      /\ P["fetch"]["total_timeout_ms"] = Builtin["fetch"]["total_timeout_ms"]
      /\ P["budgets"]["max_input_bytes"] = Builtin["budgets"]["max_input_bytes"]
      /\ P["subresources"]["max_total_bytes"] = Builtin["subresources"]["max_total_bytes"]
  BY <1>1, <1>2 DEF Bounding
<1>4. Fits(P)
  BY <1>3, BuiltinIsCautious DEF Fits
<1>. QED
  BY <1>4 DEF P

(* Under a policy file that cannot be read or has a key nobody knows, a    *)
(* malformed list, an output directory that cannot be written or a tree    *)
(* that cannot be walked, nothing is processed, written or listened to and *)
(* the exit code is that of a configuration error; the output directory is *)
(* not touched by a server or under a bad file or list of inputs, and is   *)
(* there before a copy is; and what the file and the flag leave alone is   *)
(* as cautious as the defaults (main::dispatch, run and serve,             *)
(* Policy::load).                                                          *)
THEOREM ConfigurationIsFirst == Spec => []ConfigFirst
<1>1. StageInv /\ OutDirInv /\ PolicyInv => ConfigFirst
  <2>. SUFFICES ASSUME StageInv, OutDirInv, PolicyInv PROVE ConfigFirst
    OBVIOUS
  <2>1. Untouched \/ Sound
    BY DEF StageInv, Stages
  <2>2. (Unsound => ~Sound) /\ (Unloadable => ~Vetted)
    BY DEF Unsound, Unloadable, Sound, Vetted, LoadError
  <2>3. Unsound => emitted = 0 /\ written = <<>> /\ server = "down"
                     /\ exit \in {NoExit, ConfigError}
    BY <2>1, <2>2 DEF Untouched
  <2>4. (\A k \in DOMAIN command.file.keys \ Bounding :
           command.file.keys[k] \notin {"allow", "never"}) => Acts(policy)
    BY LoadedActs, BuiltinIsCautious DEF PolicyInv
  <2>5. Bounding \cap DOMAIN command.file.keys = {} => Fits(policy)
    BY LoadedFits, BuiltinIsCautious DEF PolicyInv
  <2>6. /\ Unloadable \/ gathered = "failed" \/ command.serve => ~outDir
        /\ written # <<>> => outDir
    BY <2>2 DEF OutDirInv
  <2>. QED
    BY <2>3, <2>4, <2>5, <2>6 DEF ConfigFirst
<1>. QED
  BY InitStageInv, StepStageInv, StepOutDirInv, StepPolicyInv, <1>1, PTL DEF Spec

-----------------------------------------------------------------------------
(* What the response to a caller may say of the request it made.           *)
Rightful(c) ==
  LET a == answer[c] IN
  \/ a.report = "none" /\ ~a.content
  \/ \E status \in Statuses[InputKind(asked[c])] :
       /\ a = ResourceResponse(status)
       /\ status \in InputStatus
       /\ status = "SsrfBlocked" => guarded

(* A request stays what it was until it is answered; a thread works on the *)
(* request of its caller, whether or not the caller is still there.        *)
Exchange(c) ==
  /\ at[c] # "away" => asked[c] \in Submissions
  /\ at[c] = "waiting" => job[c] # "none"
  /\ job[c] # "none" =>
       /\ at[c] # "away"
       /\ InputKind(asked[c]) \in {"bytes", "url", "malformed"}
  /\ job[c] \notin {"none", "running"} =>
       /\ job[c] \in Statuses[InputKind(asked[c])]
       /\ job[c] = "SsrfBlocked" => guarded
  /\ at[c] \in {"answering", "answered"} => Rightful(c)

AnswerInv ==
  /\ at = [c \in Callers |-> at[c]]
  /\ asked = [c \in Callers |-> asked[c]]
  /\ job = [c \in Callers |-> job[c]]
  /\ answer = [c \in Callers |-> answer[c]]
  /\ server = "down" => \A c \in Callers : at[c] = "away" /\ job[c] = "none"
  /\ guarded = AppliesToServer(policy.ssrf.guard_input_urls)
  /\ \A c \in Callers : Exchange(c)

(* Nobody has called, and the guard is on for callers by default.          *)
LEMMA InitAnswerInv == Init => AnswerInv
<1>. SUFFICES ASSUME Init PROVE AnswerInv
  OBVIOUS
<1>1. /\ at = [c \in Callers |-> "away"]
      /\ job = [c \in Callers |-> "none"]
      /\ asked = [c \in Callers |-> [route |-> "none"]]
      /\ answer = [c \in Callers |-> Silence]
      /\ guarded = TRUE /\ policy = Builtin
  BY DEF Init, ServeInit
<1>2. guarded = AppliesToServer(policy.ssrf.guard_input_urls)
  BY <1>1 DEF AppliesToServer, Builtin, SsrfDefaults
<1>3. ASSUME NEW c \in Callers PROVE Exchange(c)
  BY <1>1 DEF Exchange
<1>. QED
  BY <1>1, <1>2, <1>3 DEF AnswerInv

(* One caller moves at a time, and each step of its exchange rests on the  *)
(* one before.                                                             *)
LEMMA ServingAnswerInv ==
  ASSUME AnswerInv, server # "down", Serving, UNCHANGED policy
  PROVE  AnswerInv' /\ server' # "down"
<1>. USE DEF AnswerInv
<1>1. ASSUME NEW c \in Callers, Arrive(c) PROVE AnswerInv' /\ server' # "down"
  BY <1>1 DEF Arrive, Exchange, Rightful
<1>2. ASSUME NEW c \in Callers, AnswerAtOnce(c) PROVE AnswerInv' /\ server' # "down"
  <2>1. PICK a \in {Plain(200), Plain(404), Plain(413), BadRequest} : Answer(c, a)
    BY <1>2 DEF AnswerAtOnce
  <2>2. /\ at[c] = "asking"
        /\ UNCHANGED <<server, guarded, asked, job>>
    BY <1>2 DEF AnswerAtOnce
  <2>3. a.report = "none" /\ ~a.content
    <3>1. \A code : Plain(code).report = "none" /\ ~Plain(code).content
      BY DEF Plain, Silence
    <3>2. BadRequest.report = "none" /\ ~BadRequest.content
      BY DEF BadRequest, Silence
    <3>. QED
      BY <2>1, <3>1, <3>2
  <2>4. ASSUME NEW d \in Callers PROVE Exchange(d)'
    <3>1. Exchange(d)
      OBVIOUS
    <3>2. CASE d = c
      <4>1. answer'[d] = a /\ at'[d] = "answering"
        BY <2>1, <3>2 DEF Answer
      <4>2. Rightful(d)'
        BY <2>3, <4>1 DEF Rightful
      <4>. QED
        BY <2>2, <3>1, <3>2, <4>1, <4>2 DEF Exchange
    <3>3. CASE d # c
      <4>1. answer'[d] = answer[d] /\ at'[d] = at[d]
        BY <2>1, <3>3 DEF Answer
      <4>2. Rightful(d) => Rightful(d)'
        BY <2>2, <4>1 DEF Rightful
      <4>. QED
        BY <2>2, <3>1, <4>1, <4>2 DEF Exchange
    <3>. QED
      BY <3>2, <3>3
  <2>. QED
    BY <2>1, <2>2, <2>4 DEF Answer
<1>3. ASSUME NEW c \in Callers, Submit(c) PROVE AnswerInv' /\ server' # "down"
  <2>1. InputKind(asked[c]) \in {"bytes", "url", "malformed"}
    <3>1. asked[c] \in Submissions /\ (asked[c].json => asked[c].body # "text")
      BY <1>3 DEF Submit, Exchange
    <3>. QED
      BY <3>1, ServeAssumption DEF InputKind
  <2>. QED
    BY <1>3, <2>1 DEF Submit, Exchange, Rightful
<1>4. ASSUME NEW c \in Callers, ThreadEnds(c) PROVE AnswerInv' /\ server' # "down"
  <2>1. PICK status \in Statuses[InputKind(asked[c])] :
          /\ status = "SsrfBlocked" => guarded
          /\ job' = [job EXCEPT ![c] = status]
    BY <1>4 DEF ThreadEnds
  <2>2. job[c] = "running" /\ UNCHANGED <<server, guarded, asked, at, answer>>
    BY <1>4 DEF ThreadEnds
  <2>3. job'[c] = status /\ \A d \in Callers \ {c} : job'[d] = job[d]
    BY <2>1
  <2>4. ASSUME NEW d \in Callers PROVE Exchange(d)'
    <3>1. Exchange(d) /\ (d = c => job[d] # "none")
      BY <2>2
    <3>2. Rightful(d) => Rightful(d)'
      BY <2>2 DEF Rightful
    <3>3. CASE d = c
      <4>1. /\ asked'[d] = asked[d] /\ at'[d] = at[d] /\ guarded' = guarded
            /\ job'[d] = status /\ job[d] # "none"
            /\ status \in Statuses[InputKind(asked[d])]
            /\ status = "SsrfBlocked" => guarded
        BY <2>1, <2>2, <2>3, <3>1, <3>3
      <4>2. InputKind(asked[d]) \in {"bytes", "url", "malformed"} /\ at[d] # "away"
        BY <3>1, <4>1 DEF Exchange
      <4>3. InputKind(asked[d])' = InputKind(asked[d])
        BY <4>1 DEF InputKind
      <4>4. status # "none"
        BY <4>1, <4>2, ServeAssumption DEF InputStatus
      <4>. QED
        BY <3>1, <3>2, <4>1, <4>2, <4>3, <4>4 DEF Exchange
    <3>4. CASE d # c
      BY <2>2, <2>3, <3>1, <3>2, <3>4 DEF Exchange
    <3>. QED
      BY <3>3, <3>4
  <2>5. job' = [d \in Callers |-> job'[d]]
    BY <2>1
  <2>. QED
    BY <2>2, <2>4, <2>5
<1>5. ASSUME NEW c \in Callers, Respond(c) PROVE AnswerInv' /\ server' # "down"
  <2>1. /\ job[c] \in Statuses[InputKind(asked[c])]
        /\ job[c] = "SsrfBlocked" => guarded
        /\ InputKind(asked[c]) \in {"bytes", "url", "malformed"}
    BY <1>5 DEF Respond, Exchange
  <2>2. job[c] \in InputStatus
    BY <2>1, ServeAssumption
  <2>. QED
    BY <1>5, <2>1, <2>2 DEF Respond, Answer, Exchange, Rightful
<1>6. ASSUME NEW c \in Callers, HangUp(c) PROVE AnswerInv' /\ server' # "down"
  BY <1>6 DEF HangUp, Connected, UpToCaller, Exchange, Rightful
<1>7. ASSUME NEW c \in Callers, SendRest(c) \/ TakeAnswer(c)
      PROVE  AnswerInv' /\ server' # "down"
  BY <1>7 DEF SendRest, TakeAnswer, Exchange, Rightful
<1>8. CASE Signal \/ Stop
  BY <1>8 DEF Signal, Stop, Exchange, Rightful
<1>. QED
  BY <1>1, <1>2, <1>3, <1>4, <1>5, <1>6, <1>7, <1>8 DEF Serving

(* The scope of the guard is settled with the policy, before anybody can   *)
(* call, and every other step leaves the exchanges alone.                  *)
LEMMA StepAnswerInv == StageInv /\ AnswerInv /\ [Next]_vars => AnswerInv'
<1>. SUFFICES ASSUME StageInv, AnswerInv, [Next]_vars PROVE AnswerInv'
  OBVIOUS
<1>1. CASE SettlePolicy
  <2>1. /\ server = "down"
        /\ UNCHANGED <<server, asked, at, job, answer>>
    BY <1>1 DEF SettlePolicy, StageInv, Untouched
  <2>2. guarded' = AppliesToServer(policy'.ssrf.guard_input_urls)
    BY <1>1 DEF SettlePolicy, AnswerInv
  <2>3. ASSUME NEW c \in Callers PROVE Exchange(c)'
    BY <2>1 DEF AnswerInv, Exchange
  <2>. QED
    BY <2>1, <2>2, <2>3 DEF AnswerInv
<1>2. CASE UNCHANGED <<serveVars, policy>>
  <2>1. UNCHANGED <<server, guarded, asked, at, job, answer>> /\ policy' = policy
    BY <1>2 DEF serveVars
  <2>2. ASSUME NEW c \in Callers PROVE Exchange(c)'
    BY <2>1 DEF AnswerInv, Exchange, Rightful
  <2>. QED
    BY <2>1, <2>2 DEF AnswerInv
<1>3. CASE Bind
  <2>1. CASE UNCHANGED <<serveVars, policy>>
    BY <1>2, <2>1
  <2>2. CASE Listen /\ UNCHANGED policy
    <3>1. UNCHANGED <<guarded, asked, at, job, answer, policy>> /\ server' = "listening"
      BY <2>2 DEF Listen
    <3>2. ASSUME NEW c \in Callers PROVE Exchange(c)'
      BY <3>1 DEF AnswerInv, Exchange, Rightful
    <3>. QED
      BY <3>1, <3>2 DEF AnswerInv
  <2>. QED
    BY <1>3, <2>1, <2>2 DEF Bind
<1>4. CASE ServeStep
  <2>1. CASE server # "down"
    BY <1>4, <2>1, ServingAnswerInv DEF ServeStep, runVars
  <2>2. CASE server = "down"
    <3>1. \A c \in Callers : at[c] = "away" /\ job[c] = "none"
      BY <2>2 DEF AnswerInv
    <3>2. ~Serving
      BY <2>2, <3>1 DEF Serving, Arrive, SendRest, AnswerAtOnce, Submit, ThreadEnds, Respond,
                        TakeAnswer, HangUp, Connected, UpToCaller, Signal, Stop
    <3>. QED
      BY <1>4, <3>2 DEF ServeStep
  <2>. QED
    BY <2>1, <2>2
<1>5. CASE GatherStep \/ Gathered \/ PrepareOutDir \/ Compile \/ Emit \/ WriteReport
           \/ ServerDone \/ UNCHANGED vars
  <2>1. UNCHANGED <<serveVars, policy>>
    BY <1>5 DEF GatherStep, Gathered, PrepareOutDir, Compile, Emit, WriteReport, ServerDone,
                runVars, vars
  <2>. QED
    BY <1>2, <2>1
<1>. QED
  BY <1>1, <1>3, <1>4, <1>5 DEF Next, Working

(* The status line, the error it names and the bytes that come with it say *)
(* the same of every status.                                               *)
LEMMA ResponsesAgree ==
  ASSUME NEW status \in InputStatus
  PROVE  LET a == ResourceResponse(status) IN
         /\ a.report = status
         /\ a.content => a.code = 200
         /\ a.code = 200 <=> a.error = "none"
         /\ Bucket(status) = "errored" => a.error = status
         /\ Bucket(status) = "ok" => a.content
<1>1. /\ HttpStatus(status) = 200 <=> status \in {"Sanitised", "Clean", "Refused"}
      /\ status # "none"
  BY DEF HttpStatus, InputStatus
<1>2. /\ Bucket(status) = "ok" => status \in {"Sanitised", "Clean"}
      /\ Bucket(status) = "errored" => status \notin {"Sanitised", "Clean", "Refused"}
  BY DEF Bucket, InputStatus
<1>. QED
  BY <1>1, <1>2 DEF ResourceResponse

(* Whatever callers do at once, whoever hangs up and whenever the signal   *)
(* comes: a caller is answered about its own request, with 200 exactly     *)
(* when no error is named, with bytes only then, and with a refusal of its *)
(* URL only where the policy has the guard on for callers                  *)
(* (serve::submit, http_status and ResourceResponse::of).                  *)
THEOREM AnswersAreTrue == Spec => []AnswersAgree
<1>1. AnswerInv => AnswersAgree
  <2>. SUFFICES ASSUME AnswerInv, NEW c \in Callers, at[c] \in {"answering", "answered"}
       PROVE  LET a == answer[c] IN
              /\ a.content => a.code = 200
              /\ a.report # "none" =>
                   /\ a.report \in Statuses[InputKind(asked[c])]
                   /\ a.code = 200 <=> a.error = "none"
                   /\ Bucket(a.report) = "errored" => a.error = a.report
                   /\ Bucket(a.report) = "ok" => a.content
              /\ a.report = "SsrfBlocked" => policy.ssrf.guard_input_urls # "never"
    BY DEF AnswersAgree
  <2>1. Rightful(c)
    BY DEF AnswerInv, Exchange
  <2>2. CASE answer[c].report = "none" /\ ~answer[c].content
    BY <2>2
  <2>3. ASSUME NEW status \in Statuses[InputKind(asked[c])],
               answer[c] = ResourceResponse(status),
               status \in InputStatus,
               status = "SsrfBlocked" => guarded
        PROVE  LET a == answer[c] IN
               /\ a.content => a.code = 200
               /\ a.report \in Statuses[InputKind(asked[c])]
               /\ a.code = 200 <=> a.error = "none"
               /\ Bucket(a.report) = "errored" => a.error = a.report
               /\ Bucket(a.report) = "ok" => a.content
               /\ a.report = "SsrfBlocked" => guarded
    BY <2>3, ResponsesAgree
  <2>4. guarded => policy.ssrf.guard_input_urls # "never"
    BY DEF AnswerInv, AppliesToServer
  <2>. QED
    BY <2>1, <2>2, <2>3, <2>4 DEF Rightful
<1>. QED
  BY InitStageInv, StepStageInv, InitAnswerInv, StepAnswerInv, <1>1, PTL DEF Spec

-----------------------------------------------------------------------------
(* What was written so far bears the positions of the outcomes emitted so  *)
(* far, until the report comes last.                                       *)
OutputInv ==
  /\ \A e \in Entry : fs[e].name \in Nat /\ fs[e].yields \in Nat
  /\ emitted \in Nat
  /\ written \in Seq(Seq(Nat))
  /\ IsInjective(written)
  /\ \A i \in DOMAIN written :
       \/ written[i] # <<>> /\ written[i][1] < emitted
       \/ written[i] = ReportPath /\ stage = "over"

(* The paths of a copy and of an asset tell what they are made of.         *)
LEMMA PathsTell ==
  /\ \A i, n \in Nat : <<i, n>> \in Seq(Nat) /\ Len(<<i, n>>) = 2 /\ <<i, n>>[1] = i
  /\ \A i, n, k \in Nat : /\ <<i, n, k>> \in Seq(Nat) /\ Len(<<i, n, k>>) = 3
                         /\ <<i, n, k>>[1] = i /\ <<i, n, k>>[3] = k
  /\ Len(<<>>) = 0
OBVIOUS

(* A copy and its assets bear the position of their input, and differ from *)
(* one another.                                                            *)
LEMMA OutputsBearTheirIndex ==
  ASSUME \A e \in Entry : fs[e].name \in Nat /\ fs[e].yields \in Nat,
         NEW index \in Nat, NEW path
  PROVE  /\ Outputs(index, path) \in Seq(Seq(Nat))
         /\ IsInjective(Outputs(index, path))
         /\ \A i \in DOMAIN Outputs(index, path) :
              /\ Outputs(index, path)[i] # <<>>
              /\ Outputs(index, path)[i][1] = index
<1>. DEFINE stem == OutputName(index, path)
            n == stem.name
            y == Yield(path)
            assets == [slot \in 1 .. y - 1 |-> AssetOf(stem, slot)]
            new == Outputs(index, path)
<1>1. stem.index = index /\ n \in Nat /\ y \in Nat
  BY DEF OutputName, FileName, Yield
<1>2. /\ CopyOf(stem) = <<index, n>>
      /\ \A slot : AssetOf(stem, slot) = <<index, n, slot>>
  BY <1>1 DEF CopyOf, AssetOf
<1>. HIDE DEF stem, y, n
<1>3. CASE y = 0
  <2>1. new = <<>> \o assets
    BY <1>3 DEF Outputs, y, stem
  <2>2. assets = <<>>
    BY <1>3
  <2>3. new = <<>>
    BY <2>1, <2>2
  <2>. QED
    BY <2>3 DEF IsInjective
<1>4. CASE y # 0
  <2>1. new = <<CopyOf(stem)>> \o assets
    BY <1>4 DEF Outputs, y, stem
  <2>2. ASSUME NEW i \in 1 .. y - 1
        PROVE  /\ AssetOf(stem, i) \in Seq(Nat) /\ Len(AssetOf(stem, i)) = 3
               /\ AssetOf(stem, i)[1] = index /\ AssetOf(stem, i)[3] = i
    <3>1. i \in Nat /\ AssetOf(stem, i) = <<index, n, i>>
      BY <1>1, <1>2
    <3>2. /\ <<index, n, i>> \in Seq(Nat) /\ Len(<<index, n, i>>) = 3
          /\ <<index, n, i>>[1] = index /\ <<index, n, i>>[3] = i
      BY <1>1, <3>1, PathsTell
    <3>. QED
      BY <3>1, <3>2
  <2>3. assets \in Seq(Seq(Nat)) /\ Len(assets) = y - 1
    BY <1>1, <1>4, <2>2
  <2>4. CopyOf(stem) \in Seq(Nat) /\ Len(CopyOf(stem)) = 2 /\ CopyOf(stem)[1] = index
    <3>1. <<index, n>> \in Seq(Nat) /\ Len(<<index, n>>) = 2 /\ <<index, n>>[1] = index
      BY <1>1, PathsTell
    <3>. QED
      BY <1>2, <3>1
  <2>5. \A i \in 1 .. y - 1 : assets[i] = AssetOf(stem, i)
    OBVIOUS
  <2>. HIDE DEF assets
  <2>6. /\ new \in Seq(Seq(Nat))
        /\ Len(new) = y
        /\ new[1] = CopyOf(stem)
        /\ \A i \in 2 .. y : new[i] = assets[i - 1]
    BY <1>1, <1>4, <2>1, <2>3, <2>4
  <2>. HIDE DEF new
  <2>7. /\ DOMAIN new = 1 .. y
        /\ Len(new[1]) = 2 /\ new[1][1] = index
        /\ \A i \in 2 .. y : Len(new[i]) = 3 /\ new[i][1] = index /\ new[i][3] = i - 1
    <3>1. DOMAIN new = 1 .. y
      BY <2>6
    <3>2. ASSUME NEW i \in 2 .. y
          PROVE  Len(new[i]) = 3 /\ new[i][1] = index /\ new[i][3] = i - 1
      <4>1. i - 1 \in 1 .. y - 1
        BY <1>1
      <4>2. new[i] = assets[i - 1] /\ assets[i - 1] = AssetOf(stem, i - 1)
        BY <2>5, <2>6, <4>1
      <4>3. new[i] = AssetOf(stem, i - 1)
        BY <4>2
      <4>. QED
        BY <2>2, <4>1, <4>3
    <3>. QED
      BY <2>4, <2>6, <3>1, <3>2
  <2>8. ASSUME NEW i \in 1 .. y, NEW j \in 1 .. y, new[i] = new[j]
        PROVE  i = j
    <3>1. CASE i = 1 /\ j # 1
      <4>1. Len(new[i]) = 2 /\ Len(new[j]) = 3
        BY <1>1, <2>7, <3>1
      <4>. QED
        BY <2>8, <4>1
    <3>2. CASE i # 1 /\ j = 1
      <4>1. Len(new[i]) = 3 /\ Len(new[j]) = 2
        BY <1>1, <2>7, <3>2
      <4>. QED
        BY <2>8, <4>1
    <3>3. CASE i # 1 /\ j # 1
      <4>1. new[i][3] = i - 1 /\ new[j][3] = j - 1
        BY <1>1, <2>7, <3>3
      <4>. QED
        BY <1>1, <2>8, <4>1
    <3>. QED
      BY <3>1, <3>2, <3>3
  <2>9. \A i \in 1 .. y : new[i] # <<>> /\ new[i][1] = index
    <3>. SUFFICES ASSUME NEW i \in 1 .. y PROVE new[i] # <<>> /\ new[i][1] = index
      OBVIOUS
    <3>1. Len(new[i]) # 0 /\ new[i][1] = index
      BY <1>1, <2>7
    <3>. QED
      BY <3>1, PathsTell
  <2>10. IsInjective(new)
    BY <2>7, <2>8 DEF IsInjective
  <2>. QED
    BY <2>6, <2>7, <2>9, <2>10 DEF new
<1>. QED
  BY <1>1, <1>3, <1>4

(* Two lists of paths that share none, neither of which repeats one, are   *)
(* apart when one follows the other.                                       *)
LEMMA AppendedApart ==
  ASSUME NEW s \in Seq(Seq(Nat)), NEW t \in Seq(Seq(Nat)),
         IsInjective(s), IsInjective(t),
         \A i \in DOMAIN s, j \in DOMAIN t : s[i] # t[j]
  PROVE  IsInjective(s \o t)
<1>. DEFINE st == s \o t
            m == Len(s)
            n == Len(t)
<1>1. /\ m \in Nat /\ n \in Nat
      /\ DOMAIN st = 1 .. m + n
      /\ \A i \in 1 .. m : st[i] = s[i]
      /\ \A i \in m + 1 .. m + n : st[i] = t[i - m]
      /\ DOMAIN s = 1 .. m /\ DOMAIN t = 1 .. n
  OBVIOUS
<1>2. /\ \A i, j \in 1 .. m : s[i] = s[j] => i = j
      /\ \A i, j \in 1 .. n : t[i] = t[j] => i = j
  BY <1>1 DEF IsInjective
<1>. HIDE DEF st, m, n
<1>3. ASSUME NEW i \in 1 .. m + n, NEW j \in 1 .. m + n, st[i] = st[j]
      PROVE  i = j
  <2>1. CASE i <= m /\ j <= m
    <3>1. i \in 1 .. m /\ j \in 1 .. m
      BY <1>1, <2>1
    <3>. QED
      BY <1>1, <1>2, <1>3, <3>1
  <2>2. CASE i > m /\ j > m
    <3>1. i - m \in 1 .. n /\ j - m \in 1 .. n /\ i \in m + 1 .. m + n /\ j \in m + 1 .. m + n
      BY <1>1, <2>2
    <3>2. i - m = j - m
      BY <1>1, <1>2, <1>3, <3>1
    <3>. QED
      BY <1>1, <3>2
  <2>3. CASE i <= m /\ j > m
    <3>1. i \in DOMAIN s /\ j - m \in DOMAIN t /\ st[i] = s[i] /\ st[j] = t[j - m]
      BY <1>1, <2>3
    <3>. QED
      BY <1>3, <3>1
  <2>4. CASE i > m /\ j <= m
    <3>1. j \in DOMAIN s /\ i - m \in DOMAIN t /\ st[j] = s[j] /\ st[i] = t[i - m]
      BY <1>1, <2>4
    <3>. QED
      BY <1>3, <3>1
  <2>. QED
    BY <1>1, <2>1, <2>2, <2>3, <2>4
<1>4. IsInjective(st)
  BY <1>1, <1>3 DEF IsInjective
<1>. QED
  BY <1>4 DEF st

(* Nothing has been written yet.                                           *)
LEMMA InitOutputInv == Init => OutputInv
<1>. SUFFICES ASSUME Init PROVE OutputInv
  OBVIOUS
<1>1. emitted = 0 /\ written = <<>>
  BY DEF Init
<1>2. \A e \in Entry : fs[e].name \in Nat /\ fs[e].yields \in Nat
  BY StartsAssumption DEF Init, Entry, FileSystem
<1>. QED
  BY <1>1, <1>2 DEF OutputInv, IsInjective

(* Each outcome adds paths of a position of its own.                       *)
LEMMA StepOutputInv == StageInv /\ OutputInv /\ [Next]_vars => OutputInv'
<1>. SUFFICES ASSUME StageInv, OutputInv, [Next]_vars PROVE OutputInv'
  OBVIOUS
<1>1. CASE UNCHANGED <<fs, emitted, written>> /\ (stage = "over" => stage' = "over")
  BY <1>1 DEF OutputInv, Entry
<1>2. CASE Emit
  <2>. DEFINE path == inputs[emitted + 1].path
              new == Outputs(emitted, path)
  <2>1. /\ written' = written \o new
        /\ emitted' = emitted + 1 /\ stage = "process" /\ stage' = stage /\ fs' = fs
    BY <1>2 DEF Emit, gatherVars
  <2>2. /\ \A e \in Entry : fs[e].name \in Nat /\ fs[e].yields \in Nat
        /\ emitted \in Nat
        /\ written \in Seq(Seq(Nat)) /\ IsInjective(written)
        /\ \A i \in DOMAIN written : written[i] # <<>> /\ written[i][1] < emitted
    BY <2>1 DEF OutputInv
  <2>3. /\ new \in Seq(Seq(Nat)) /\ IsInjective(new)
        /\ \A i \in DOMAIN new : new[i] # <<>> /\ new[i][1] = emitted
    BY <2>2, OutputsBearTheirIndex
  <2>. HIDE DEF new
  <2>4. \A i \in DOMAIN written, j \in DOMAIN new : written[i] # new[j]
    <3>. SUFFICES ASSUME NEW i \in DOMAIN written, NEW j \in DOMAIN new,
                         written[i] = new[j]
         PROVE  FALSE
      OBVIOUS
    <3>1. written[i][1] < emitted /\ new[j][1] = emitted
      BY <2>2, <2>3
    <3>. QED
      BY <2>2, <3>1
  <2>5. written' \in Seq(Seq(Nat)) /\ IsInjective(written')
    BY <2>1, <2>2, <2>3, <2>4, AppendedApart
  <2>6. ASSUME NEW i \in DOMAIN written'
        PROVE  written'[i] # <<>> /\ written'[i][1] < emitted'
    <3>1. \/ i \in DOMAIN written /\ written'[i] = written[i]
          \/ i - Len(written) \in DOMAIN new /\ written'[i] = new[i - Len(written)]
      BY <2>1, <2>2, <2>3
    <3>2. CASE i \in DOMAIN written /\ written'[i] = written[i]
      <4>1. written[i] # <<>> /\ written[i][1] < emitted /\ written[i][1] \in Nat
        <5>1. written[i] \in Seq(Nat) /\ written[i] # <<>>
          BY <2>2, <3>2
        <5>. QED
          BY <2>2, <3>2, <5>1
      <4>. QED
        BY <2>1, <2>2, <3>2, <4>1
    <3>3. CASE i - Len(written) \in DOMAIN new /\ written'[i] = new[i - Len(written)]
      BY <2>1, <2>2, <2>3, <3>3
    <3>. QED
      BY <3>1, <3>2, <3>3
  <2>. QED
    BY <2>1, <2>2, <2>5, <2>6 DEF OutputInv, Entry
<1>3. CASE WriteReport
  <2>1. /\ written' = Append(written, <<>>)
        /\ stage = "process" /\ stage' = "over" /\ fs' = fs /\ emitted' = emitted
    BY <1>3 DEF WriteReport, Exit, ReportPath, gatherVars
  <2>2. /\ written \in Seq(Seq(Nat)) /\ IsInjective(written)
        /\ \A i \in DOMAIN written : written[i] # <<>> /\ written[i][1] < emitted
    BY <2>1 DEF OutputInv
  <2>. DEFINE last == <<ReportPath>>
  <2>3. /\ last \in Seq(Seq(Nat)) /\ DOMAIN last = {1} /\ last[1] = <<>>
        /\ written \o last = Append(written, <<>>)
    BY <2>2 DEF ReportPath
  <2>. HIDE DEF last
  <2>4. IsInjective(last) /\ \A i \in DOMAIN written, j \in DOMAIN last : written[i] # last[j]
    BY <2>2, <2>3 DEF IsInjective
  <2>5. written' \in Seq(Seq(Nat)) /\ IsInjective(written')
    <3>1. written \o last \in Seq(Seq(Nat))
      BY <2>2, <2>3
    <3>2. IsInjective(written \o last)
      <4>1. written \in Seq(Seq(Nat)) /\ last \in Seq(Seq(Nat))
        BY <2>2, <2>3
      <4>2. IsInjective(written) /\ IsInjective(last)
        BY <2>2, <2>4
      <4>3. \A i \in DOMAIN written, j \in DOMAIN last : written[i] # last[j]
        BY <2>4
      <4>. QED
        BY <4>1, <4>2, <4>3, AppendedApart
    <3>. QED
      BY <2>1, <2>3, <3>1, <3>2
  <2>6. \A i \in DOMAIN written' :
          \/ i \in DOMAIN written /\ written'[i] = written[i]
          \/ written'[i] = <<>>
    BY <2>1, <2>2
  <2>. QED
    BY <2>1, <2>2, <2>5, <2>6 DEF OutputInv, Entry, ReportPath
<1>4. CASE GatherStep
  <2>1. fs' = fs /\ UNCHANGED runVars
    BY <1>4, GatherKeeps DEF GatherStep, StageInv
  <2>. QED
    BY <1>1, <2>1 DEF runVars
<1>5. CASE SettlePolicy \/ Gathered \/ PrepareOutDir \/ Compile \/ Bind \/ ServerDone
           \/ ServeStep \/ UNCHANGED vars
  <2>1. UNCHANGED <<fs, emitted, written>> /\ (stage = "over" => stage' = "over")
    BY <1>5 DEF SettlePolicy, Gathered, PrepareOutDir, Compile, Bind, ServerDone, ServeStep,
                Exit, vars, runVars, gatherVars
  <2>. QED
    BY <1>1, <2>1
<1>. QED
  BY <1>2, <1>3, <1>4, <1>5 DEF Next, Working

(* No output of a run takes the path of another, whatever the inputs are   *)
(* called and however many assets come with each: a later file never       *)
(* replaces an earlier one, and none replaces the report                   *)
(* (OutputName::derive and the closure that writes outcomes, main.rs).     *)
THEOREM OutputsAreApart == Spec => []OutputsApart
<1>1. OutputInv => OutputsApart
  BY DEF OutputInv, OutputsApart
<1>. QED
  BY InitStageInv, StepStageInv, InitOutputInv, StepOutputInv, <1>1, PTL DEF Spec

-----------------------------------------------------------------------------
(* The paths there are, and the directories under way.                     *)
Place == Entry \cup {Nowhere}
Frame == [path : Seq(Place), left : Seq(Entry)]
Input == [kind : {"file", "url", "malformed"}, path : Seq(Place)]
Item == [kind : {"path", "url", "malformed", "unreadable list"}, entry : Place]

Sorted(s) == \A i, j \in DOMAIN s : i < j => InOrder(s[i], s[j])

(* What a walk has come to: f is where it is, ins what was found, the last *)
(* of it after b, v the directories it entered and r the root.             *)
Shaped(f, ins, b, r) ==
  /\ f \in Seq(Frame)
  /\ ins \in Seq(Input)
  /\ b \in 0 .. Len(ins)
  /\ r \in Place
  /\ f # <<>> => r # Nowhere

(* The directories under way lie in one another, each where the one above  *)
(* it was looked at last, and have nothing left in common.                 *)
Nested(f) ==
  /\ \A k \in DOMAIN f : Len(f[k].path) = k /\ Sorted(f[k].left)
  /\ \A k, l \in DOMAIN f : k < l =>
       /\ \A i \in 1 .. k : f[l].path[i] = f[k].path[i]
       /\ \A x \in Range(f[k].left) : InOrder(f[l].path[k + 1], x)
       /\ Range(f[k].left) \cap Range(f[l].left) = {}

Since(ins, b) == {i \in DOMAIN ins : i > b /\ Len(ins[i].path) > 1}

(* What was found comes in order, and before whatever there is to see.     *)
Ordered(f, ins, b) ==
  /\ \A i, j \in Since(ins, b) : i < j => PathBefore(ins[i].path, ins[j].path)
  /\ \A i \in Since(ins, b), k \in DOMAIN f : \A x \in Range(f[k].left) :
       PathBefore(ins[i].path, Append(f[k].path, x))

(* It was found once, where it should be, and is not to be seen again.     *)
Once(f, ins, b, v, r) ==
  /\ \A i, j \in Since(ins, b) : i < j => Last(ins[i].path) # Last(ins[j].path)
  /\ \A i \in Since(ins, b) :
       Last(ins[i].path) \in TreeFiles(r) /\ fs[Last(ins[i].path)].parent \in v
  /\ \A k \in DOMAIN f : \A x \in Range(f[k].left) :
       fs[x].parent \in v /\ \A i \in Since(ins, b) : Last(ins[i].path) # x

Entered(v, r) ==
  /\ \A d \in v : d \in Entry /\ fs[d].kind = "dir" /\ Within(d, r)
  /\ r # Nowhere => r \in v

Settled(e, ins, b, v, r) ==
  /\ e \in TreeFiles(r) => \E i \in Since(ins, b) : Last(ins[i].path) = e
  /\ fs[e].kind = "dir" => e \in v

(* An entry of a directory that was entered has yet to be seen, or what it *)
(* asks for has been done.                                                 *)
Seen(f, ins, b, v, r) ==
  \A d \in v : \A e \in Children(d) :
    Settled(e, ins, b, v, r) \/ \E k \in DOMAIN f : e \in Range(f[k].left)

WalkInv ==
  /\ FileSystem(fs)
  /\ items \in Seq(Item)
  /\ Shaped(frames, inputs, began, root)
  /\ Nested(frames)
  /\ Ordered(frames, inputs, began)
  /\ Once(frames, inputs, began, visited, root)
  /\ Entered(visited, root)
  /\ gathered # "failed" => Seen(frames, inputs, began, visited, root)

(* Links are followed one by one, up to as many as there are entries.      *)
Follows(to, f, N) ==
  to = [k \in 0 .. N |->
          [n \in DOMAIN f \cup {Nowhere} |->
             IF n = Nowhere \/ f[n].kind # "link" THEN n
             ELSE IF k = 0 THEN Nowhere ELSE to[k - 1][f[n].target]]]

(* Following links, from few to many.                                      *)
LEMMA FollowsExists ==
  ASSUME NEW f, NEW N \in Nat
  PROVE  \E to : Follows(to, f, N)
<1>. DEFINE Good == {m \in Nat : \E to : Follows(to, f, m)}
<1>1. 0 \in Good
  <2>. DEFINE to == [k \in 0 .. 0 |->
                       [n \in DOMAIN f \cup {Nowhere} |->
                          IF n = Nowhere \/ f[n].kind # "link" THEN n ELSE Nowhere]]
  <2>1. Follows(to, f, 0)
    BY DEF Follows
  <2>. QED
    BY <2>1
<1>2. ASSUME NEW m \in Nat, m \in Good PROVE m + 1 \in Good
  <2>1. PICK to : Follows(to, f, m)
    BY <1>2
  <2>. DEFINE Step(k) == [n \in DOMAIN f \cup {Nowhere} |->
                            IF n = Nowhere \/ f[n].kind # "link" THEN n
                            ELSE IF k = 0 THEN Nowhere ELSE to[k - 1][f[n].target]]
              more == [k \in 0 .. m + 1 |-> Step(k)]
  <2>2. \A k \in 0 .. m : to[k] = Step(k)
    BY <2>1 DEF Follows
  <2>. HIDE DEF Step
  <2>3. \A k \in 0 .. m : more[k] = to[k]
    BY <2>2
  <2>. HIDE DEF more, Good
  <2>4. \A k \in 0 .. m + 1 : k = 0 \/ (k - 1 \in 0 .. m /\ more[k - 1] = to[k - 1])
    BY <2>3
  <2>5. \A k \in 0 .. m + 1 :
          Step(k) = [n \in DOMAIN f \cup {Nowhere} |->
                       IF n = Nowhere \/ f[n].kind # "link" THEN n
                       ELSE IF k = 0 THEN Nowhere ELSE more[k - 1][f[n].target]]
    BY <2>4 DEF Step
  <2>6. more = [k \in 0 .. m + 1 |->
                 [n \in DOMAIN f \cup {Nowhere} |->
                   IF n = Nowhere \/ f[n].kind # "link" THEN n
                   ELSE IF k = 0 THEN Nowhere ELSE more[k - 1][f[n].target]]]
    BY <2>5 DEF more
  <2>7. Follows(more, f, m + 1)
    BY <2>6 DEF Follows
  <2>. QED
    BY <2>7 DEF Good
<1>. HIDE DEF Good
<1>3. N \in Good
  BY <1>1, <1>2, NatSetInduction
<1>. QED
  BY <1>3 DEF Good

(* What is not a link leads to itself, and a link to no other link         *)
(* (canonicalize()).                                                       *)
LEMMA CanonicalIs ==
  ASSUME FileSystem(fs), NEW e \in Place
  PROVE  /\ Canonical(e) \in Place
         /\ e = Nowhere \/ fs[e].kind # "link" => Canonical(e) = e
<1>. DEFINE N == Cardinality(Entry)
            to == CHOOSE to : Follows(to, fs, N)
            Good == {k \in Nat : k <= N => \A n \in Place : to[k][n] \in Place}
<1>1. N \in Nat
  BY FS_CardinalityType DEF FileSystem, Entry
<1>2. Follows(to, fs, N)
  BY <1>1, FollowsExists
<1>3. Canonical(e) = to[N][e]
  BY DEF Canonical, Follows, Entry
<1>. HIDE DEF to, N, Good
<1>. DEFINE Step(k) == [n \in Place |->
                          IF n = Nowhere \/ fs[n].kind # "link" THEN n
                          ELSE IF k = 0 THEN Nowhere ELSE to[k - 1][fs[n].target]]
<1>11. to = [k \in 0 .. N |-> Step(k)]
  BY <1>2 DEF Follows, Place, Entry
<1>. HIDE DEF Step
<1>12. \A k \in 0 .. N : to[k] = Step(k)
  BY <1>11
<1>4. \A k \in 0 .. N : \A n \in Place :
        to[k][n] = IF n = Nowhere \/ fs[n].kind # "link" THEN n
                   ELSE IF k = 0 THEN Nowhere ELSE to[k - 1][fs[n].target]
  <2>. SUFFICES ASSUME NEW k \in 0 .. N, NEW n \in Place
       PROVE  to[k][n] = IF n = Nowhere \/ fs[n].kind # "link" THEN n
                         ELSE IF k = 0 THEN Nowhere ELSE to[k - 1][fs[n].target]
    OBVIOUS
  <2>1. to[k] = Step(k)
    BY <1>12
  <2>2. Step(k)[n] = IF n = Nowhere \/ fs[n].kind # "link" THEN n
                     ELSE IF k = 0 THEN Nowhere ELSE to[k - 1][fs[n].target]
    BY DEF Step
  <2>. QED
    BY <2>1, <2>2
<1>5. \A n \in Place : n = Nowhere \/ fs[n].target \in Place
  BY DEF FileSystem, Place, Entry
<1>6. 0 \in Good
  BY <1>1, <1>4 DEF Place, Good
<1>7. ASSUME NEW k \in Nat, k \in Good PROVE k + 1 \in Good
  <2>1. ASSUME k + 1 <= N PROVE \A n \in Place : to[k + 1][n] \in Place
    <3>1. k \in 0 .. N /\ k + 1 \in 0 .. N /\ k + 1 # 0 /\ (k + 1) - 1 = k
      BY <1>1, <2>1
    <3>2. \A n \in Place : to[k][n] \in Place
      BY <1>1, <1>7, <3>1 DEF Good
    <3>3. \A n \in Place :
            to[k + 1][n] = IF n = Nowhere \/ fs[n].kind # "link" THEN n ELSE to[k][fs[n].target]
      BY <1>4, <3>1
    <3>4. \A n \in Place : to[k + 1][n] \in Place
      BY <1>5, <3>2, <3>3
    <3>. QED
      BY <3>4
  <2>. QED
    BY <2>1 DEF Good
<1>8. N \in Good
  BY <1>1, <1>6, <1>7, NatSetInduction
<1>9. to[N][e] \in Place
  BY <1>1, <1>8 DEF Good
<1>10. e = Nowhere \/ fs[e].kind # "link" => to[N][e] = e
  BY <1>1, <1>4
<1>. QED
  BY <1>3, <1>9, <1>10

(* A path lies in a tree when it is its root, or what it lies in does      *)
(* (starts_with()).                                                        *)
LEMMA WithinIs ==
  ASSUME FileSystem(fs), NEW tree \in Entry, NEW e \in Place
  PROVE  Within(e, tree) <=> e # Nowhere /\ (e = tree \/ Within(fs[e].parent, tree))
<1>. DEFINE Inside == {M \in SUBSET Entry :
                         \A m \in M : m # tree /\ fs[m].parent # Nowhere => fs[m].parent \in M}
            Under(n) == n # Nowhere /\ \A M \in Inside : n \in M => tree \in M
            Reached == {n \in Place : Under(n)}
            in == [n \in Place |-> n \in Reached]
<1>1. ASSUME NEW n \in Place, n # Nowhere
      PROVE  n \in Entry /\ fs[n].parent \in Place /\ Nowhere \notin Entry
  BY <1>1 DEF FileSystem, Place, Entry
<1>2. ASSUME NEW n \in Place
      PROVE  Under(n) <=> n # Nowhere /\ (n = tree \/ Under(fs[n].parent))
  <2>1. CASE n = Nowhere \/ n = tree
    BY <1>1, <2>1
  <2>2. CASE n # Nowhere /\ n # tree
    <3>1. ASSUME Under(fs[n].parent) PROVE Under(n)
      BY <2>2, <3>1
    <3>2. ASSUME Under(n) PROVE Under(fs[n].parent)
      <4>1. fs[n].parent # Nowhere
        <5>1. CASE fs[n].parent = Nowhere
          <6>1. {n} \in Inside
            BY <1>1, <2>2, <5>1
          <6>. QED
            BY <2>2, <3>2, <6>1
        <5>. QED
          BY <5>1
      <4>2. ASSUME NEW M \in Inside, fs[n].parent \in M PROVE tree \in M
        <5>1. M \cup {n} \in Inside
          BY <1>1, <2>2, <4>2
        <5>. QED
          BY <2>2, <3>2, <5>1
      <4>. QED
        BY <4>1, <4>2
    <3>. QED
      BY <2>2, <3>1, <3>2
  <2>. QED
    BY <2>1, <2>2
<1>. HIDE DEF Under
<1>3. \A n \in Place : n # Nowhere => fs[n].parent \in Place
  BY <1>1
<1>8. \A n \in Place :
        n \in Reached <=> n # Nowhere /\ (n = tree \/ fs[n].parent \in Reached)
  BY <1>2, <1>3
<1>. HIDE DEF Reached
<1>4. in = [n \in Place |-> n # Nowhere /\ (n = tree \/ in[fs[n].parent])]
  <2>1. ASSUME NEW n \in Place
        PROVE  (n \in Reached) = (n # Nowhere /\ (n = tree \/ in[fs[n].parent]))
    <3>1. CASE n = Nowhere
      BY <1>8, <3>1
    <3>2. CASE n # Nowhere
      <4>1. in[fs[n].parent] = (fs[n].parent \in Reached)
        BY <1>3, <3>2
      <4>2. n \in Reached <=> (n = tree \/ fs[n].parent \in Reached)
        BY <1>8, <3>2
      <4>. HIDE DEF in
      <4>3. in[fs[n].parent] <=> fs[n].parent \in Reached
        BY <4>1, Zenon
      <4>4. n \in Reached <=> n # Nowhere /\ (n = tree \/ in[fs[n].parent])
        BY <3>2, <4>2, <4>3, Zenon
      <4>. QED
        BY <4>4
    <3>. QED
      BY <3>1, <3>2
  <2>. DEFINE Step(n) == n # Nowhere /\ (n = tree \/ in[fs[n].parent])
  <2>2. \A n \in Place : (n \in Reached) = Step(n)
    BY <2>1
  <2>. HIDE DEF Step
  <2>3. [n \in Place |-> n \in Reached] = [n \in Place |-> Step(n)]
    BY <2>2, Zenon
  <2>. QED
    BY <2>3 DEF Step
<1>. HIDE DEF in
<1>. DEFINE it == CHOOSE it : it = [n \in Place |-> n # Nowhere /\ (n = tree \/ it[fs[n].parent])]
<1>5. it = [n \in Place |-> n # Nowhere /\ (n = tree \/ it[fs[n].parent])]
  BY <1>4
<1>6. \A n : Within(n, tree) = it[n]
  BY DEF Within, Place
<1>. HIDE DEF it
<1>7. \A n \in Place : it[n] = (n # Nowhere /\ (n = tree \/ it[fs[n].parent]))
  BY <1>5
<1>. QED
  BY <1>6, <1>7

(* A listing has every entry of the directory, and is in their order: as   *)
(* no two have a name in common, each has a rank of its own (read_dir()    *)
(* and the sort of walk_into).                                             *)
LEMMA ListingIs ==
  ASSUME FileSystem(fs), NEW dir
  PROVE  /\ Listing(dir) \in Seq(Entry)
         /\ Range(Listing(dir)) = Children(dir)
         /\ Sorted(Listing(dir))
<1>. DEFINE C == Children(dir)
            n == Cardinality(C)
            Before(e) == {d \in C : InOrder(d, e)}
            rank == [e \in C |-> Cardinality(Before(e))]
            list == Listing(dir)
<1>1. /\ C \in SUBSET Entry /\ IsFiniteSet(Entry)
      /\ \A e \in C : fs[e].name \in Nat
      /\ \A d, e \in C : d # e => fs[d].name # fs[e].name
  BY DEF Children, FileSystem, Entry
<1>2. IsFiniteSet(C) /\ n \in Nat
  BY <1>1, FS_Subset, FS_CardinalityType
<1>3. list = [k \in 1 .. n |-> CHOOSE e \in C : Cardinality(Before(e)) = k - 1]
  BY DEF Listing
<1>. HIDE DEF C, n, list
<1>4. ASSUME NEW e \in C PROVE rank[e] \in 0 .. n - 1
  <2>1. Before(e) \in SUBSET C /\ e \notin Before(e)
    BY <1>1 DEF InOrder
  <2>2. IsFiniteSet(Before(e)) /\ Cardinality(Before(e)) <= n /\ Cardinality(Before(e)) # n
    BY <1>2, <2>1, FS_Subset DEF n
  <2>3. Cardinality(Before(e)) \in Nat
    BY <2>2, FS_CardinalityType
  <2>4. rank[e] = Cardinality(Before(e))
    OBVIOUS
  <2>. HIDE DEF Before, rank
  <2>. QED
    BY <1>2, <2>2, <2>3, <2>4
<1>5. ASSUME NEW d \in C, NEW e \in C, InOrder(d, e) PROVE rank[d] < rank[e]
  <2>1. Before(d) \in SUBSET Before(e)
    BY <1>1, <1>5 DEF InOrder
  <2>2. d \in Before(e) /\ d \notin Before(d)
    BY <1>1, <1>5 DEF InOrder
  <2>3. IsFiniteSet(Before(e))
    BY <1>2, FS_Subset
  <2>4. rank[d] = Cardinality(Before(d)) /\ rank[e] = Cardinality(Before(e))
    OBVIOUS
  <2>. HIDE DEF Before
  <2>5. /\ Cardinality(Before(d)) <= Cardinality(Before(e))
        /\ Cardinality(Before(d)) # Cardinality(Before(e))
    BY <2>1, <2>2, <2>3, FS_Subset
  <2>6. rank[d] \in 0 .. n - 1 /\ rank[e] \in 0 .. n - 1
    BY <1>4
  <2>. QED
    BY <1>2, <2>4, <2>5, <2>6
<1>6. ASSUME NEW d \in C, NEW e \in C, d # e PROVE InOrder(d, e) \/ InOrder(e, d)
  BY <1>1, <1>6 DEF InOrder
<1>7. \A e \in C : rank[e] = Cardinality(Before(e))
  OBVIOUS
<1>8. rank \in [C -> 0 .. n - 1]
  BY <1>4
<1>. HIDE DEF Before, rank
<1>9. ASSUME NEW d \in C, NEW e \in C, rank[d] = rank[e] PROVE d = e
  <2>1. rank[d] \in 0 .. n - 1 /\ rank[e] \in 0 .. n - 1
    BY <1>8
  <2>. QED
    BY <1>2, <1>5, <1>6, <1>9, <2>1
<1>10. rank \in Injection(C, 0 .. n - 1)
  BY <1>8, <1>9 DEF Injection, IsInjective
<1>11. IsFiniteSet(0 .. n - 1) /\ Cardinality(0 .. n - 1) = n
  BY <1>2, FS_Interval
<1>12. rank \in Surjection(C, 0 .. n - 1)
  BY <1>10, <1>11, FS_Injection DEF n
<1>13. ASSUME NEW k \in 1 .. n PROVE list[k] \in C /\ rank[list[k]] = k - 1
  <2>1. k - 1 \in 0 .. n - 1
    BY <1>2
  <2>2. PICK e \in C : rank[e] = k - 1
    BY <1>12, <2>1 DEF Surjection
  <2>3. Cardinality(Before(e)) = k - 1
    BY <1>7, <2>2
  <2>4. list[k] = CHOOSE d \in C : Cardinality(Before(d)) = k - 1
    BY <1>3
  <2>5. list[k] \in C /\ Cardinality(Before(list[k])) = k - 1
    BY <2>3, <2>4
  <2>. QED
    BY <1>7, <2>5
<1>14. list \in Seq(C) /\ Len(list) = n
  BY <1>2, <1>3, <1>13
<1>15. \A e \in C : rank[e] + 1 \in 1 .. n /\ list[rank[e] + 1] = e
  <2>. SUFFICES ASSUME NEW e \in C PROVE rank[e] + 1 \in 1 .. n /\ list[rank[e] + 1] = e
    OBVIOUS
  <2>1. rank[e] \in 0 .. n - 1
    BY <1>8
  <2>2. rank[e] + 1 \in 1 .. n /\ (rank[e] + 1) - 1 = rank[e]
    BY <1>2, <2>1
  <2>. QED
    BY <1>9, <1>13, <2>2
<1>16. Range(list) = C
  BY <1>13, <1>14, <1>15 DEF Range
<1>17. ASSUME NEW i \in 1 .. n, NEW j \in 1 .. n, i < j PROVE InOrder(list[i], list[j])
  <2>1. list[i] \in C /\ list[j] \in C /\ rank[list[i]] = i - 1 /\ rank[list[j]] = j - 1
    BY <1>13
  <2>2. list[i] # list[j]
    BY <1>2, <1>17, <2>1
  <2>3. ~InOrder(list[j], list[i])
    <3>1. ~(rank[list[j]] < rank[list[i]])
      BY <1>2, <1>17, <2>1
    <3>. QED
      BY <1>5, <2>1, <3>1
  <2>. QED
    BY <1>6, <2>1, <2>2, <2>3
<1>18. Sorted(list)
  BY <1>14, <1>17 DEF Sorted
<1>19. list \in Seq(Entry)
  BY <1>1, <1>14 DEF C
<1>. QED
  BY <1>16, <1>18, <1>19 DEF list, C

(* A tree is what it was as long as the file system is.                    *)
LEMMA SameTree ==
  ASSUME fs' = fs, NEW r
  PROVE  /\ TreeFiles(r)' = TreeFiles(r)
         /\ \A e : Within(e, r)' = Within(e, r)
<1>1. TreeFiles(r)' = TreeFiles(r)
  BY DEF TreeFiles, Within, IsDir, Canonical, Entry
<1>2. ASSUME NEW e PROVE Within(e, r)' = Within(e, r)
  BY DEF Within, Entry
<1>. QED
  BY <1>1, <1>2

(* What is true of a walk in these terms is true of the state it leads to. *)
LEMMA Carried ==
  ASSUME fs' = fs, WalkInv,
         items' \in Seq(Item),
         Shaped(frames', inputs', began', root'),
         Nested(frames'),
         Ordered(frames', inputs', began'),
         Once(frames', inputs', began', visited', root'),
         Entered(visited', root'),
         gathered' # "failed" => Seen(frames', inputs', began', visited', root')
  PROVE  WalkInv'
<1>1. FileSystem(fs)'
  BY DEF WalkInv, FileSystem
<1>2. Place' = Place /\ Frame' = Frame /\ Input' = Input /\ Item' = Item
  BY DEF Place, Frame, Input, Item, Entry
<1>3. Shaped(frames, inputs, began, root)'
  BY <1>2 DEF Shaped
<1>4. Nested(frames)'
  BY DEF Nested, Sorted, InOrder
<1>5. Ordered(frames, inputs, began)'
  BY DEF Ordered, PathBefore, InOrder, Since
<1>6. PICK r : r = root'
  OBVIOUS
<1>7. TreeFiles(root)' = TreeFiles(r)
  BY <1>6, SameTree
<1>8. Once(frames, inputs, began, visited, root)'
  BY <1>6, <1>7 DEF Once, Since
<1>9. Entered(visited, root)'
  BY <1>6, SameTree DEF Entered, Entry
<1>10. (gathered # "failed" => Seen(frames, inputs, began, visited, root))'
  BY <1>6, <1>7 DEF Seen, Settled, Since, Children, Entry
<1>11. (items \in Seq(Item))'
  BY <1>2
<1>. QED
  BY <1>1, <1>3, <1>4, <1>5, <1>8, <1>9, <1>10, <1>11 DEF WalkInv

(* The paths of what was found.                                            *)
LEMMA InputPaths ==
  ASSUME WalkInv
  PROVE  \A i \in DOMAIN inputs : inputs[i].path \in Seq(Place)
<1>1. inputs \in Seq(Input)
  BY DEF WalkInv, Shaped
<1>2. \A i \in DOMAIN inputs : inputs[i] \in Input
  BY <1>1
<1>. QED
  BY <1>2 DEF Input

(* The entry that is looked at, its path and what is left after it.        *)
LEMMA LookingAt ==
  ASSUME WalkInv, Looking
  PROVE  LET n == Len(frames) IN
         /\ n \in DOMAIN frames /\ n \in Nat /\ DOMAIN frames = 1 .. n
         /\ Top = frames[n] /\ Top \in Frame /\ Len(Top.path) = n
         /\ Here \in Entry /\ Here \in Range(Top.left)
         /\ Path \in Seq(Place) /\ Len(Path) = n + 1 /\ Path[n + 1] = Here
         /\ \A i \in 1 .. n : Path[i] = Top.path[i]
         /\ Last(Path) = Here
         /\ Passed \in Seq(Frame) /\ Len(Passed) = n
         /\ \A k \in 1 .. n : Passed[k].path = frames[k].path
         /\ \A k \in 1 .. n - 1 : Passed[k].left = frames[k].left
         /\ Sorted(Passed[n].left)
         /\ Range(Passed[n].left) = Range(Top.left) \ {Here}
         /\ \A x \in Range(Passed[n].left) : InOrder(Here, x)
<1>. DEFINE n == Len(frames)
            list == Top.left
<1>1. /\ frames \in Seq(Frame) /\ frames # <<>> /\ list # <<>>
      /\ \A k \in DOMAIN frames : Len(frames[k].path) = k /\ Sorted(frames[k].left)
      /\ \A e \in Entry : fs[e].name \in Nat
  BY DEF WalkInv, Shaped, Nested, Looking, FileSystem, Entry
<1>2. /\ n \in Nat /\ n \in DOMAIN frames /\ DOMAIN frames = 1 .. n
      /\ Top = frames[n] /\ frames[n] \in Frame
  BY <1>1 DEF Last, Top
<1>3. /\ Top.path \in Seq(Place) /\ list \in Seq(Entry) /\ Len(Top.path) = n /\ Sorted(list)
  BY <1>1, <1>2 DEF Frame
<1>4. Passed = [frames EXCEPT ![n] = [Top EXCEPT !.left = Tail(list)]]
  BY <1>2 DEF Passed
<1>5. /\ Tail(list) \in Seq(Entry) /\ Len(Tail(list)) = Len(list) - 1 /\ Len(list) \in Nat \ {0}
      /\ \A i \in 1 .. Len(list) - 1 : Tail(list)[i] = list[i + 1]
      /\ Here = list[1] /\ Here \in Entry
  BY <1>1, <1>3 DEF Here
<1>. HIDE DEF list, n
<1>6. [Top EXCEPT !.left = Tail(list)] \in Frame
  BY <1>2, <1>3, <1>5 DEF Frame
<1>7. /\ Passed \in Seq(Frame) /\ Len(Passed) = n
      /\ \A k \in 1 .. n : Passed[k].path = frames[k].path
      /\ \A k \in 1 .. n - 1 : Passed[k].left = frames[k].left
      /\ Passed[n].left = Tail(list)
  <2>1. Passed \in Seq(Frame) /\ Len(Passed) = n
    BY <1>1, <1>2, <1>4, <1>6 DEF n
  <2>2. \A k \in 1 .. n - 1 : Passed[k] = frames[k]
    BY <1>2, <1>4
  <2>3. Passed[n] = [Top EXCEPT !.left = Tail(list)]
    BY <1>2, <1>4
  <2>4. Passed[n].left = Tail(list) /\ Passed[n].path = Top.path
    BY <1>2, <2>3 DEF Frame
  <2>. QED
    BY <1>2, <2>1, <2>2, <2>4
<1>8. \A i, j \in 1 .. Len(list) : i < j => InOrder(list[i], list[j])
  BY <1>3, <1>5 DEF Sorted
<1>9. Sorted(Tail(list))
  <2>. SUFFICES ASSUME NEW i \in 1 .. Len(list) - 1, NEW j \in 1 .. Len(list) - 1, i < j
       PROVE  InOrder(Tail(list)[i], Tail(list)[j])
    BY <1>5 DEF Sorted
  <2>1. i + 1 \in 1 .. Len(list) /\ j + 1 \in 1 .. Len(list) /\ i + 1 < j + 1
    BY <1>5
  <2>. QED
    BY <1>5, <1>8, <2>1
<1>10. \A x \in Range(Tail(list)) : x \in Range(list) /\ InOrder(Here, x)
  <2>. SUFFICES ASSUME NEW i \in 1 .. Len(list) - 1
       PROVE  Tail(list)[i] \in Range(list) /\ InOrder(Here, Tail(list)[i])
    BY <1>5 DEF Range
  <2>1. i + 1 \in 1 .. Len(list) /\ 1 \in 1 .. Len(list) /\ 1 < i + 1
    BY <1>5
  <2>2. InOrder(list[1], list[i + 1]) /\ list[i + 1] \in Range(list)
    BY <1>3, <1>8, <2>1 DEF Range
  <2>. QED
    BY <1>5, <2>2
<1>11. ~InOrder(Here, Here) /\ Here \in Range(list)
  BY <1>1, <1>3, <1>5 DEF InOrder, Range
<1>12. \A x \in Range(list) : x = Here \/ x \in Range(Tail(list))
  <2>. SUFFICES ASSUME NEW i \in 1 .. Len(list), i # 1
       PROVE  list[i] \in Range(Tail(list))
    BY <1>3, <1>5 DEF Range
  <2>1. i - 1 \in 1 .. Len(list) - 1 /\ (i - 1) + 1 = i
    BY <1>5
  <2>2. list[i] = Tail(list)[i - 1]
    BY <1>5, <2>1
  <2>3. i - 1 \in DOMAIN Tail(list)
    BY <1>5, <2>1
  <2>. QED
    BY <2>2, <2>3 DEF Range
<1>13. Range(Tail(list)) = Range(list) \ {Here}
  BY <1>10, <1>11, <1>12
<1>14. /\ Path \in Seq(Place) /\ Len(Path) = n + 1 /\ Path[n + 1] = Here
       /\ \A i \in 1 .. n : Path[i] = Top.path[i]
  BY <1>2, <1>3, <1>5 DEF Path, Place
<1>15. Last(Path) = Here
  BY <1>14 DEF Last
<1>. QED
  BY <1>2, <1>3, <1>5, <1>7, <1>9, <1>10, <1>11, <1>13, <1>14, <1>15 DEF n, list

(* Looking away from one entry leaves the directories as they lie, and     *)
(* less of them to see.                                                    *)
LEMMA PassedOn ==
  ASSUME WalkInv, Looking
  PROVE  /\ Nested(Passed)
         /\ Ordered(Passed, inputs, began)
         /\ Once(Passed, inputs, began, visited, root)
         /\ \A k \in DOMAIN frames : \A x \in Range(frames[k].left) :
              x = Here \/ (k \in DOMAIN Passed /\ x \in Range(Passed[k].left))
<1>. DEFINE n == Len(frames)
<1>1. /\ n \in Nat /\ n \in DOMAIN frames /\ DOMAIN frames = 1 .. n /\ Top = frames[n]
      /\ DOMAIN Passed = 1 .. n
      /\ \A k \in 1 .. n : Passed[k].path = frames[k].path
      /\ \A k \in 1 .. n - 1 : Passed[k].left = frames[k].left
      /\ Sorted(Passed[n].left)
      /\ Range(Passed[n].left) = Range(Top.left) \ {Here}
  BY LookingAt
<1>2. Nested(frames) /\ Ordered(frames, inputs, began) /\ Once(frames, inputs, began, visited, root)
  BY DEF WalkInv
<1>. HIDE DEF n
<1>3. \A k \in 1 .. n : k = n \/ k \in 1 .. n - 1
  BY <1>1
<1>4. \A k \in 1 .. n :
        /\ Range(Passed[k].left) \subseteq Range(frames[k].left)
        /\ \A x \in Range(frames[k].left) : x = Here \/ x \in Range(Passed[k].left)
        /\ Sorted(Passed[k].left)
  <2>. SUFFICES ASSUME NEW k \in 1 .. n
       PROVE  /\ Range(Passed[k].left) \subseteq Range(frames[k].left)
              /\ \A x \in Range(frames[k].left) : x = Here \/ x \in Range(Passed[k].left)
              /\ Sorted(Passed[k].left)
    OBVIOUS
  <2>1. CASE k = n
    BY <1>1, <2>1
  <2>2. CASE k \in 1 .. n - 1
    BY <1>1, <1>2, <2>2 DEF Nested
  <2>. QED
    BY <1>3, <2>1, <2>2
<1>5. Nested(Passed)
  <2>1. \A k \in 1 .. n : Len(Passed[k].path) = k /\ Sorted(Passed[k].left)
    BY <1>1, <1>2, <1>4 DEF Nested
  <2>2. ASSUME NEW k \in 1 .. n, NEW l \in 1 .. n, k < l
        PROVE  /\ \A i \in 1 .. k : Passed[l].path[i] = Passed[k].path[i]
               /\ \A x \in Range(Passed[k].left) : InOrder(Passed[l].path[k + 1], x)
               /\ Range(Passed[k].left) \cap Range(Passed[l].left) = {}
    <3>1. /\ \A i \in 1 .. k : frames[l].path[i] = frames[k].path[i]
          /\ \A x \in Range(frames[k].left) : InOrder(frames[l].path[k + 1], x)
          /\ Range(frames[k].left) \cap Range(frames[l].left) = {}
      BY <1>1, <1>2, <2>2 DEF Nested
    <3>2. Passed[k].path = frames[k].path /\ Passed[l].path = frames[l].path
      BY <1>1, <2>2
    <3>3. /\ Range(Passed[k].left) \subseteq Range(frames[k].left)
          /\ Range(Passed[l].left) \subseteq Range(frames[l].left)
      BY <1>4, <2>2
    <3>. QED
      BY <3>1, <3>2, <3>3
  <2>. QED
    BY <1>1, <2>1, <2>2 DEF Nested
<1>6. Ordered(Passed, inputs, began)
  BY <1>1, <1>2, <1>4 DEF Ordered
<1>7. Once(Passed, inputs, began, visited, root)
  BY <1>1, <1>2, <1>4 DEF Once
<1>. QED
  BY <1>1, <1>4, <1>5, <1>6, <1>7

(* A path that comes before another comes before all there is in it.       *)
LEMMA BeforeLonger ==
  ASSUME NEW p \in Seq(Place), NEW q \in Seq(Place), NEW x \in Place, PathBefore(p, q)
  PROVE  PathBefore(p, Append(q, x))
<1>1. PICK i \in DOMAIN p \cap DOMAIN q : InOrder(p[i], q[i]) /\ \A j \in 1 .. i - 1 : p[j] = q[j]
  BY DEF PathBefore
<1>2. /\ \A j \in 1 .. Len(q) : Append(q, x)[j] = q[j]
      /\ DOMAIN Append(q, x) = 1 .. Len(q) + 1 /\ Len(q) \in Nat /\ i \in 1 .. Len(q)
  OBVIOUS
<1>3. i \in DOMAIN p \cap DOMAIN Append(q, x)
  BY <1>2
<1>4. \A j \in 1 .. i : Append(q, x)[j] = q[j]
  BY <1>2
<1>5. InOrder(p[i], Append(q, x)[i]) /\ \A j \in 1 .. i - 1 : p[j] = Append(q, x)[j]
  BY <1>1, <1>2, <1>4
<1>. QED
  BY <1>3, <1>5 DEF PathBefore

(* A directory that was entered is looked through before what is left of   *)
(* those above it.                                                         *)
LEMMA PushedOn ==
  ASSUME WalkInv, Looking, NEW dir \in Entry, dir \notin visited
  PROVE  LET f == Append(Passed, [path |-> Path, left |-> Listing(dir)])
             v == visited \cup {dir} IN
         /\ f \in Seq(Frame)
         /\ Nested(f)
         /\ Ordered(f, inputs, began)
         /\ Once(f, inputs, began, v, root)
         /\ \A k \in DOMAIN frames : \A x \in Range(frames[k].left) :
              x = Here \/ (k \in DOMAIN f /\ x \in Range(f[k].left))
         /\ \A x \in Children(dir) : \E k \in DOMAIN f : x \in Range(f[k].left)
<1>. DEFINE n == Len(frames)
            new == [path |-> Path, left |-> Listing(dir)]
            f == Append(Passed, new)
            v == visited \cup {dir}
<1>1. /\ n \in Nat /\ n \in DOMAIN frames /\ DOMAIN frames = 1 .. n
      /\ Top = frames[n] /\ Len(Top.path) = n
      /\ Here \in Entry /\ Here \in Range(Top.left)
      /\ Path \in Seq(Place) /\ Len(Path) = n + 1 /\ Path[n + 1] = Here
      /\ \A i \in 1 .. n : Path[i] = Top.path[i]
      /\ Passed \in Seq(Frame) /\ Len(Passed) = n
      /\ \A k \in 1 .. n : Passed[k].path = frames[k].path
      /\ Range(Passed[n].left) = Range(Top.left) \ {Here}
      /\ \A x \in Range(Passed[n].left) : InOrder(Here, x)
  BY LookingAt
<1>2. /\ Nested(Passed) /\ Ordered(Passed, inputs, began)
      /\ Once(Passed, inputs, began, visited, root)
      /\ \A k \in DOMAIN frames : \A x \in Range(frames[k].left) :
           x = Here \/ (k \in DOMAIN Passed /\ x \in Range(Passed[k].left))
  BY PassedOn
<1>3. /\ Listing(dir) \in Seq(Entry) /\ Range(Listing(dir)) = Children(dir)
      /\ Sorted(Listing(dir))
      /\ \A x \in Children(dir) : x \in Entry /\ fs[x].parent = dir
  BY ListingIs DEF WalkInv, Children
<1>4. /\ new \in Frame /\ new.path = Path /\ new.left = Listing(dir)
  BY <1>1, <1>3 DEF Frame
<1>. HIDE DEF n, new
<1>5. /\ f \in Seq(Frame) /\ DOMAIN f = 1 .. n + 1 /\ f[n + 1] = new
      /\ \A k \in 1 .. n : f[k] = Passed[k]
      /\ DOMAIN Passed = 1 .. n
  BY <1>1, <1>4
<1>6. \A k \in 1 .. n + 1 : k = n + 1 \/ k \in 1 .. n
  BY <1>1
<1>. HIDE DEF f
<1>7. \A k \in 1 .. n : \A x \in Range(f[k].left) :
        fs[x].parent \in visited /\ \A i \in Since(inputs, began) : Last(inputs[i].path) # x
  BY <1>2, <1>5 DEF Once
<1>8. \A i \in Since(inputs, began) : fs[Last(inputs[i].path)].parent \in visited
  BY <1>2 DEF Once
<1>9. Nested(f)
  <2>1. \A k \in DOMAIN f : Len(f[k].path) = k /\ Sorted(f[k].left)
    <3>. SUFFICES ASSUME NEW k \in 1 .. n + 1 PROVE Len(f[k].path) = k /\ Sorted(f[k].left)
      BY <1>5
    <3>1. CASE k = n + 1
      BY <1>1, <1>3, <1>4, <1>5, <3>1
    <3>2. CASE k \in 1 .. n
      BY <1>2, <1>5, <3>2 DEF Nested
    <3>. QED
      BY <1>6, <3>1, <3>2
  <2>2. ASSUME NEW k \in 1 .. n + 1, NEW l \in 1 .. n + 1, k < l
        PROVE  /\ \A i \in 1 .. k : f[l].path[i] = f[k].path[i]
               /\ \A x \in Range(f[k].left) : InOrder(f[l].path[k + 1], x)
               /\ Range(f[k].left) \cap Range(f[l].left) = {}
    <3>1. CASE l \in 1 .. n
      <4>1. k \in 1 .. n
        BY <1>1, <2>2, <3>1
      <4>2. f[k] = Passed[k] /\ f[l] = Passed[l]
        BY <1>5, <3>1, <4>1
      <4>3. /\ \A i \in 1 .. k : Passed[l].path[i] = Passed[k].path[i]
            /\ \A x \in Range(Passed[k].left) : InOrder(Passed[l].path[k + 1], x)
            /\ Range(Passed[k].left) \cap Range(Passed[l].left) = {}
        BY <1>2, <1>5, <2>2, <3>1, <4>1 DEF Nested
      <4>. QED
        BY <4>2, <4>3
    <3>2. CASE l = n + 1
      <4>1. k \in 1 .. n
        BY <1>1, <2>2, <3>2
      <4>2. f[l].path = Path /\ f[l].left = Listing(dir) /\ f[k] = Passed[k]
        BY <1>4, <1>5, <3>2, <4>1
      <4>3. Passed[n].path = Top.path /\ n \in 1 .. n
        BY <1>1
      <4>4. CASE k = n
        <5>1. \A i \in 1 .. k : f[l].path[i] = f[k].path[i]
          BY <1>1, <4>2, <4>3, <4>4
        <5>2. \A x \in Range(f[k].left) : InOrder(f[l].path[k + 1], x)
          BY <1>1, <4>2, <4>4
        <5>. QED
          BY <1>3, <1>7, <4>1, <4>2, <5>1, <5>2
      <4>5. CASE k # n
        <5>1. k < n /\ k + 1 \in 1 .. n
          BY <1>1, <4>1, <4>5
        <5>2. /\ \A i \in 1 .. k : Passed[n].path[i] = Passed[k].path[i]
              /\ \A x \in Range(Passed[k].left) : InOrder(Passed[n].path[k + 1], x)
          BY <1>2, <1>5, <4>1, <4>3, <5>1 DEF Nested
        <5>3. \A i \in 1 .. k : i \in 1 .. n
          BY <1>1, <5>1
        <5>4. \A i \in 1 .. k : f[l].path[i] = f[k].path[i]
          BY <1>1, <4>2, <4>3, <5>2, <5>3
        <5>5. \A x \in Range(f[k].left) : InOrder(f[l].path[k + 1], x)
          BY <1>1, <4>2, <4>3, <5>1, <5>2
        <5>. QED
          BY <1>3, <1>7, <4>1, <4>2, <5>4, <5>5
      <4>. QED
        BY <4>4, <4>5
    <3>. QED
      BY <1>6, <3>1, <3>2
  <2>. QED
    BY <1>5, <2>1, <2>2 DEF Nested
<1>10. Ordered(f, inputs, began)
  <2>1. ASSUME NEW i \in Since(inputs, began), NEW k \in 1 .. n + 1, NEW x \in Range(f[k].left)
        PROVE  PathBefore(inputs[i].path, Append(f[k].path, x))
    <3>1. CASE k \in 1 .. n
      BY <1>2, <1>5, <2>1, <3>1 DEF Ordered
    <3>2. CASE k = n + 1
      <4>1. PathBefore(inputs[i].path, Append(frames[n].path, Here))
        BY <1>1, <2>1 DEF Ordered, WalkInv
      <4>2. Append(frames[n].path, Here) = Path
        BY <1>1 DEF Path
      <4>3. inputs[i].path \in Seq(Place)
        BY InputPaths DEF Since
      <4>5. x \in Children(dir)
        BY <1>3, <1>4, <1>5, <2>1, <3>2
      <4>6. x \in Place
        BY <1>3, <4>5 DEF Place
      <4>4. PathBefore(inputs[i].path, Append(Path, x))
        BY <1>1, <4>1, <4>2, <4>3, <4>6, BeforeLonger
      <4>. QED
        BY <1>4, <1>5, <3>2, <4>4
    <3>. QED
      BY <1>6, <3>1, <3>2
  <2>. QED
    BY <1>2, <1>5, <2>1 DEF Ordered
<1>11. Once(f, inputs, began, v, root)
  <2>1. ASSUME NEW k \in 1 .. n + 1, NEW x \in Range(f[k].left)
        PROVE  fs[x].parent \in v /\ \A i \in Since(inputs, began) : Last(inputs[i].path) # x
    <3>1. CASE k \in 1 .. n
      BY <1>7, <3>1
    <3>2. CASE k = n + 1
      <4>1. fs[x].parent = dir
        BY <1>3, <1>4, <1>5, <3>2
      <4>. QED
        BY <1>8, <4>1
    <3>. QED
      BY <1>6, <3>1, <3>2
  <2>. QED
    BY <1>2, <1>5, <2>1 DEF Once
<1>12. \A k \in DOMAIN frames : \A x \in Range(frames[k].left) :
         x = Here \/ (k \in DOMAIN f /\ x \in Range(f[k].left))
  <2>1. \A k \in 1 .. n : k \in 1 .. n + 1
    BY <1>1
  <2>. QED
    BY <1>1, <1>2, <1>5, <2>1
<1>13. \A x \in Children(dir) : \E k \in DOMAIN f : x \in Range(f[k].left)
  <2>1. n + 1 \in DOMAIN f
    BY <1>1, <1>5
  <2>. QED
    BY <1>3, <1>4, <1>5, <2>1
<1>. QED
  BY <1>5, <1>9, <1>10, <1>11, <1>12, <1>13 DEF f, new

(* What comes after the entry that is looked at comes after its path.      *)
LEMMA PathIsNext ==
  ASSUME WalkInv, Looking
  PROVE  /\ \A i \in Since(inputs, began) : PathBefore(inputs[i].path, Path)
         /\ \A k \in DOMAIN Passed : \A x \in Range(Passed[k].left) :
              PathBefore(Path, Append(Passed[k].path, x)) /\ x # Here
<1>. DEFINE n == Len(frames)
<1>1. /\ n \in Nat /\ n \in DOMAIN frames /\ DOMAIN frames = 1 .. n /\ DOMAIN Passed = 1 .. n
      /\ Top = frames[n] /\ Top \in Frame /\ Len(Top.path) = n
      /\ Here \in Entry /\ Here \in Range(Top.left)
      /\ Path \in Seq(Place) /\ Len(Path) = n + 1 /\ Path[n + 1] = Here
      /\ \A i \in 1 .. n : Path[i] = Top.path[i]
      /\ Passed \in Seq(Frame)
      /\ \A k \in 1 .. n : Passed[k].path = frames[k].path
      /\ \A k \in 1 .. n - 1 : Passed[k].left = frames[k].left
      /\ Range(Passed[n].left) = Range(Top.left) \ {Here}
      /\ \A x \in Range(Passed[n].left) : InOrder(Here, x)
  BY LookingAt
<1>2. Nested(frames) /\ Ordered(frames, inputs, began)
  BY DEF WalkInv
<1>3. Path = Append(frames[n].path, Here)
  BY <1>1 DEF Path
<1>. HIDE DEF n
<1>4. \A i \in Since(inputs, began) : PathBefore(inputs[i].path, Path)
  <2>1. n \in DOMAIN frames /\ Here \in Range(frames[n].left)
    BY <1>1
  <2>. QED
    BY <1>2, <1>3, <2>1 DEF Ordered
<1>5. ASSUME NEW k \in 1 .. n, NEW x \in Range(Passed[k].left)
      PROVE  PathBefore(Path, Append(Passed[k].path, x)) /\ x # Here
  <2>. DEFINE p == Passed[k].path
              q == Append(p, x)
  <2>. HIDE DEF q
  <2>1. p \in Seq(Place)
    <3>1. Passed[k] \in Frame
      BY <1>1, <1>5
    <3>. QED
      BY <3>1 DEF Frame
  <2>2. p = frames[k].path /\ Len(p) = k
    BY <1>1, <1>2, <1>5 DEF Nested
  <2>. HIDE DEF p
  <2>3. /\ DOMAIN q = 1 .. k + 1 /\ q[k + 1] = x
        /\ \A i \in 1 .. k : q[i] = p[i]
    BY <1>5, <2>1, <2>2 DEF q
  <2>4. k + 1 \in DOMAIN Path \cap DOMAIN q /\ (k + 1) - 1 = k
    BY <1>1, <1>5, <2>3
  <2>5. /\ InOrder(Path[k + 1], x) /\ x # Here
        /\ \A i \in 1 .. k : Path[i] = p[i]
    <3>1. CASE k = n
      BY <1>1, <1>5, <2>2, <3>1
    <3>2. CASE k # n
      <4>1. k < n /\ k \in 1 .. n - 1 /\ k + 1 \in 1 .. n
        BY <1>1, <1>5, <3>2
      <4>2. x \in Range(frames[k].left)
        BY <1>1, <1>5, <4>1
      <4>3. /\ \A i \in 1 .. k : frames[n].path[i] = frames[k].path[i]
            /\ \A y \in Range(frames[k].left) : InOrder(frames[n].path[k + 1], y)
            /\ Range(frames[k].left) \cap Range(frames[n].left) = {}
        BY <1>1, <1>2, <1>5, <4>1 DEF Nested
      <4>4. InOrder(Path[k + 1], x) /\ x # Here
        BY <1>1, <4>1, <4>2, <4>3
      <4>5. \A i \in 1 .. k : i \in 1 .. n
        BY <1>1, <4>1
      <4>6. \A i \in 1 .. k : Path[i] = p[i]
        BY <1>1, <2>2, <4>3, <4>5
      <4>. QED
        BY <4>4, <4>6
    <3>. QED
      BY <3>1, <3>2
  <2>6. PathBefore(Path, q)
    BY <2>3, <2>4, <2>5 DEF PathBefore
  <2>. QED
    BY <2>5, <2>6 DEF q, p
<1>. QED
  BY <1>1, <1>4, <1>5

(* A file that is taken is the last of what was found so far.              *)
LEMMA TakenOn ==
  ASSUME WalkInv, Looking, Here \in TreeFiles(root)
  PROVE  LET ins == Append(inputs, Found("file", Path)) IN
         /\ ins \in Seq(Input)
         /\ Len(ins) = Len(inputs) + 1
         /\ Ordered(Passed, ins, began)
         /\ Once(Passed, ins, began, visited, root)
         /\ \A i \in Since(inputs, began) : i \in Since(ins, began) /\ ins[i] = inputs[i]
         /\ \E i \in Since(ins, began) : Last(ins[i].path) = Here
<1>. DEFINE m == Len(inputs)
            new == Found("file", Path)
            ins == Append(inputs, new)
<1>1. /\ Len(frames) \in Nat /\ Len(frames) \in DOMAIN frames
      /\ Top = frames[Len(frames)] /\ Here \in Range(Top.left)
      /\ Path \in Seq(Place) /\ Len(Path) = Len(frames) + 1
      /\ Last(Path) = Here /\ DOMAIN frames = 1 .. Len(frames)
  BY LookingAt
<1>2. /\ inputs \in Seq(Input)
      /\ m \in Nat /\ began \in 0 .. m /\ DOMAIN inputs = 1 .. m
      /\ Once(frames, inputs, began, visited, root)
  <2>1. /\ inputs \in Seq(Input) /\ began \in 0 .. Len(inputs)
        /\ Once(frames, inputs, began, visited, root)
    BY DEF WalkInv, Shaped
  <2>. QED
    BY <2>1
<1>3. new \in Input /\ new.path = Path
  BY <1>1 DEF Found, Input
<1>4. Ordered(Passed, inputs, began) /\ Once(Passed, inputs, began, visited, root)
  BY PassedOn
<1>. HIDE DEF m, new
<1>5. /\ ins \in Seq(Input)
      /\ Len(ins) = m + 1 /\ DOMAIN ins = 1 .. m + 1 /\ ins[m + 1] = new
      /\ \A i \in 1 .. m : ins[i] = inputs[i]
  BY <1>2, <1>3 DEF m
<1>. HIDE DEF ins
<1>6. Len(Path) > 1
  BY <1>1
<1>7. /\ m + 1 \in Since(ins, began)
      /\ \A i \in Since(inputs, began) : i \in Since(ins, began) /\ ins[i] = inputs[i]
      /\ \A i \in Since(ins, began) : i = m + 1 \/ (i \in Since(inputs, began) /\ i < m + 1)
  <2>1. m + 1 \in Since(ins, began)
    BY <1>2, <1>3, <1>5, <1>6 DEF Since
  <2>2. ASSUME NEW i \in Since(inputs, began) PROVE i \in Since(ins, began) /\ ins[i] = inputs[i]
    BY <1>2, <1>5 DEF Since
  <2>3. ASSUME NEW i \in Since(ins, began)
        PROVE  i = m + 1 \/ (i \in Since(inputs, began) /\ i < m + 1)
    BY <1>2, <1>5 DEF Since
  <2>. QED
    BY <2>1, <2>2, <2>3
<1>8. Ordered(Passed, ins, began)
  <2>1. ASSUME NEW i \in Since(ins, began), NEW j \in Since(ins, began), i < j
        PROVE  PathBefore(ins[i].path, ins[j].path)
    <3>1. i \in Since(inputs, began)
      BY <1>2, <1>7, <2>1 DEF Since
    <3>2. CASE j = m + 1
      BY <1>3, <1>5, <1>7, <3>1, <3>2, PathIsNext
    <3>3. CASE j \in Since(inputs, began)
      BY <1>4, <1>7, <2>1, <3>1, <3>3 DEF Ordered
    <3>. QED
      BY <1>7, <3>2, <3>3
  <2>2. ASSUME NEW i \in Since(ins, began), NEW k \in DOMAIN Passed,
               NEW x \in Range(Passed[k].left)
        PROVE  PathBefore(ins[i].path, Append(Passed[k].path, x))
    <3>1. CASE i = m + 1
      BY <1>3, <1>5, <3>1, PathIsNext
    <3>2. CASE i \in Since(inputs, began)
      BY <1>4, <1>7, <3>2 DEF Ordered
    <3>. QED
      BY <1>7, <3>1, <3>2
  <2>. QED
    BY <2>1, <2>2 DEF Ordered
<1>9. Last(ins[m + 1].path) = Here
  BY <1>1, <1>3, <1>5
<1>10. /\ fs[Here].parent \in visited
       /\ \A i \in Since(inputs, began) : Last(inputs[i].path) # Here
  BY <1>1, <1>2 DEF Once
<1>11. Once(Passed, ins, began, visited, root)
  <2>1. ASSUME NEW i \in Since(ins, began), NEW j \in Since(ins, began), i < j
        PROVE  Last(ins[i].path) # Last(ins[j].path)
    <3>1. i \in Since(inputs, began)
      BY <1>2, <1>7, <2>1 DEF Since
    <3>2. CASE j = m + 1
      BY <1>7, <1>9, <1>10, <3>1, <3>2
    <3>3. CASE j \in Since(inputs, began)
      BY <1>4, <1>7, <2>1, <3>1, <3>3 DEF Once
    <3>. QED
      BY <1>7, <3>2, <3>3
  <2>2. ASSUME NEW i \in Since(ins, began)
        PROVE  Last(ins[i].path) \in TreeFiles(root) /\ fs[Last(ins[i].path)].parent \in visited
    <3>1. CASE i = m + 1
      BY <1>9, <1>10, <3>1
    <3>2. CASE i \in Since(inputs, began)
      BY <1>4, <1>7, <3>2 DEF Once
    <3>. QED
      BY <1>7, <3>1, <3>2
  <2>3. ASSUME NEW k \in DOMAIN Passed, NEW x \in Range(Passed[k].left)
        PROVE  fs[x].parent \in visited /\ \A i \in Since(ins, began) : Last(ins[i].path) # x
    <3>1. fs[x].parent \in visited /\ \A i \in Since(inputs, began) : Last(inputs[i].path) # x
      BY <1>4 DEF Once
    <3>2. x # Here
      BY PathIsNext
    <3>. QED
      BY <1>7, <1>9, <3>1, <3>2
  <2>. QED
    BY <2>1, <2>2, <2>3 DEF Once
<1>. QED
  BY <1>5, <1>7, <1>8, <1>9, <1>11 DEF ins, new, m

(* Nothing is forgotten when an entry is settled and a directory that is   *)
(* entered has all of its own to see.                                      *)
LEMMA SeenOn ==
  ASSUME Seen(frames, inputs, began, visited, root),
         NEW f, NEW ins, NEW v, visited \subseteq v,
         \A k \in DOMAIN frames : \A x \in Range(frames[k].left) :
           x = Here \/ (k \in DOMAIN f /\ x \in Range(f[k].left)),
         \A i \in Since(inputs, began) : i \in Since(ins, began) /\ ins[i] = inputs[i],
         \A d \in v \ visited : \A x \in Children(d) : \E k \in DOMAIN f : x \in Range(f[k].left),
         Settled(Here, ins, began, v, root)
  PROVE  Seen(f, ins, began, v, root)
<1>. SUFFICES ASSUME NEW d \in v, NEW e \in Children(d)
     PROVE  Settled(e, ins, began, v, root) \/ \E k \in DOMAIN f : e \in Range(f[k].left)
  BY DEF Seen
<1>1. CASE d \notin visited
  BY <1>1
<1>2. CASE d \in visited
  <2>1. \/ Settled(e, inputs, began, visited, root)
        \/ \E k \in DOMAIN frames : e \in Range(frames[k].left)
    BY <1>2 DEF Seen
  <2>2. CASE Settled(e, inputs, began, visited, root)
    <3>1. e \in TreeFiles(root) => \E i \in Since(inputs, began) : Last(inputs[i].path) = e
      BY <2>2 DEF Settled
    <3>2. e \in TreeFiles(root) => \E i \in Since(ins, began) : Last(ins[i].path) = e
      BY <3>1
    <3>3. fs[e].kind = "dir" => e \in v
      BY <2>2 DEF Settled
    <3>. QED
      BY <3>2, <3>3 DEF Settled
  <2>3. CASE \E k \in DOMAIN frames : e \in Range(frames[k].left)
    BY <2>3
  <2>. QED
    BY <2>1, <2>2, <2>3
<1>. QED
  BY <1>1, <1>2

(* Nothing has been found and no tree has been entered.                    *)
LEMMA InitWalkInv == Init => WalkInv
<1>. SUFFICES ASSUME Init PROVE WalkInv
  OBVIOUS
<1>1. /\ root = Nowhere /\ visited = {} /\ frames = <<>> /\ began = 0 /\ inputs = <<>>
  BY DEF Init, GatherInit
<1>2. /\ FileSystem(fs)
      /\ items \in Seq(Item)
  <2>1. PICK s \in Starts : fs = s.fs /\ items = s.items
    BY DEF Init
  <2>2. /\ FileSystem(s.fs)
        /\ s.items \in Seq([kind : {"path", "url", "malformed", "unreadable list"},
                              entry : DOMAIN s.fs \cup {Nowhere}])
    BY StartsAssumption
  <2>. QED
    BY <2>1, <2>2 DEF Item, Place, Entry
<1>3. Shaped(frames, inputs, began, root)
  BY <1>1 DEF Shaped, Place
<1>4. Nested(frames) /\ Ordered(frames, inputs, began) /\ Once(frames, inputs, began, visited, root)
  BY <1>1 DEF Nested, Ordered, Once, Since
<1>5. Entered(visited, root) /\ Seen(frames, inputs, began, visited, root)
  BY <1>1 DEF Entered, Seen
<1>. QED
  BY <1>2, <1>3, <1>4, <1>5 DEF WalkInv

(* An argument that becomes an input is found by no walk.                  *)
LEMMA ArgumentTaken ==
  ASSUME WalkInv, NEW new \in Input, Len(new.path) = 1
  PROVE  LET ins == Append(inputs, new) IN
         /\ Shaped(frames, ins, began, root)
         /\ Ordered(frames, ins, began)
         /\ Once(frames, ins, began, visited, root)
         /\ Seen(frames, inputs, began, visited, root) => Seen(frames, ins, began, visited, root)
<1>. DEFINE m == Len(inputs)
            ins == Append(inputs, new)
<1>1. /\ inputs \in Seq(Input) /\ began \in 0 .. m
      /\ Ordered(frames, inputs, began) /\ Once(frames, inputs, began, visited, root)
      /\ frames \in Seq(Frame) /\ root \in Place /\ (frames # <<>> => root # Nowhere)
  BY DEF WalkInv, Shaped
<1>2. /\ m \in Nat /\ DOMAIN inputs = 1 .. m
      /\ ins \in Seq(Input) /\ Len(ins) = m + 1 /\ DOMAIN ins = 1 .. m + 1 /\ ins[m + 1] = new
      /\ \A i \in 1 .. m : ins[i] = inputs[i]
  BY <1>1
<1>. HIDE DEF m, ins
<1>3. ASSUME NEW i \in Since(ins, began) PROVE i \in Since(inputs, began)
  <2>1. i \in 1 .. m + 1 /\ i > began /\ Len(ins[i].path) > 1
    BY <1>2 DEF Since
  <2>2. i # m + 1
    <3>. SUFFICES ASSUME i = m + 1 PROVE FALSE
      OBVIOUS
    <3>1. ins[i] = new
      BY <1>2
    <3>2. Len(new.path) > 1
      BY <2>1, <3>1
    <3>. QED
      BY <3>2
  <2>3. i \in 1 .. m /\ ins[i] = inputs[i]
    BY <1>2, <2>1, <2>2
  <2>. QED
    BY <1>2, <2>1, <2>3 DEF Since
<1>4. ASSUME NEW i \in Since(inputs, began) PROVE i \in Since(ins, began) /\ ins[i] = inputs[i]
  BY <1>1, <1>2 DEF Since
<1>5. Since(ins, began) = Since(inputs, began) /\ \A i \in Since(inputs, began) : ins[i] = inputs[i]
  BY <1>3, <1>4
<1>6. Shaped(frames, ins, began, root)
  BY <1>1, <1>2 DEF Shaped
<1>7. Ordered(frames, ins, began)
  BY <1>1, <1>5 DEF Ordered
<1>8. Once(frames, ins, began, visited, root)
  BY <1>1, <1>5 DEF Once
<1>9. Seen(frames, inputs, began, visited, root) => Seen(frames, ins, began, visited, root)
  BY <1>5 DEF Seen, Settled
<1>. QED
  BY <1>6, <1>7, <1>8, <1>9 DEF ins

(* A walk begins with the whole of its root to see.                        *)
LEMMA WalkBegins ==
  ASSUME WalkInv, NEW e \in Place, IsDir(e)
  PROVE  LET top == Canonical(e)
             f == <<[path |-> <<e>>, left |-> Listing(top)]>>
             b == Len(inputs) IN
         /\ Shaped(f, inputs, b, top) /\ Shaped(<<>>, inputs, b, top)
         /\ Nested(f)
         /\ Ordered(f, inputs, b) /\ Ordered(<<>>, inputs, b)
         /\ Once(f, inputs, b, {top}, top) /\ Once(<<>>, inputs, b, {top}, top)
         /\ Entered({top}, top)
         /\ Seen(f, inputs, b, {top}, top)
<1>. DEFINE top == Canonical(e)
            new == [path |-> <<e>>, left |-> Listing(top)]
            f == <<new>>
            b == Len(inputs)
<1>1. FileSystem(fs) /\ inputs \in Seq(Input)
  BY DEF WalkInv, Shaped
<1>2. top \in Place /\ top # Nowhere /\ fs[top].kind = "dir"
  BY <1>1, CanonicalIs DEF IsDir
<1>. HIDE DEF top
<1>3. top \in Entry
  BY <1>2 DEF Place
<1>4. /\ Listing(top) \in Seq(Entry) /\ Range(Listing(top)) = Children(top)
      /\ Sorted(Listing(top)) /\ \A x \in Children(top) : fs[x].parent = top
  BY <1>1, ListingIs DEF Children
<1>5. new \in Frame /\ Len(new.path) = 1 /\ new.left = Listing(top)
  <2>1. <<e>> \in Seq(Place) /\ Len(<<e>>) = 1
    OBVIOUS
  <2>. QED
    BY <1>4, <2>1 DEF Frame
<1>. HIDE DEF new
<1>6. f \in Seq(Frame) /\ DOMAIN f = {1} /\ f[1] = new /\ f # <<>>
  BY <1>5
<1>. HIDE DEF f
<1>7. b \in Nat /\ DOMAIN inputs = 1 .. b
  BY <1>1
<1>8. Since(inputs, b) = {}
  BY <1>7 DEF Since
<1>9. Shaped(f, inputs, b, top) /\ Shaped(<<>>, inputs, b, top)
  <2>1. <<>> \in Seq(Frame) /\ b \in 0 .. Len(inputs)
    BY <1>7
  <2>. QED
    BY <1>1, <1>2, <1>6, <2>1 DEF Shaped
<1>10. Nested(f)
  BY <1>4, <1>5, <1>6 DEF Nested
<1>11. Ordered(f, inputs, b) /\ Ordered(<<>>, inputs, b)
  BY <1>8 DEF Ordered
<1>12. Once(f, inputs, b, {top}, top) /\ Once(<<>>, inputs, b, {top}, top)
  BY <1>4, <1>5, <1>6, <1>8 DEF Once
<1>13. Entered({top}, top)
  <2>1. Within(top, top)
    BY <1>1, <1>2, <1>3, WithinIs
  <2>. QED
    BY <1>2, <1>3, <2>1 DEF Entered
<1>14. Seen(f, inputs, b, {top}, top)
  BY <1>4, <1>5, <1>6 DEF Seen
<1>. QED
  BY <1>9, <1>10, <1>11, <1>12, <1>13, <1>14 DEF top, new, f

(* Between two walks: arguments become inputs that no walk found, and an   *)
(* argument that is a directory is one whose walk begins (gather()).       *)
LEMMA IdleWalkInv ==
  ASSUME WalkInv, NoList \/ TakeUrl \/ TakePath \/ WalkDir \/ AllTaken
  PROVE  WalkInv'
<1>1. items \in Seq(Item) /\ (items # <<>> => items[1] \in Item /\ Tail(items) \in Seq(Item))
  <2>1. items \in Seq(Item)
    BY DEF WalkInv
  <2>. QED
    BY <2>1
<1>2. /\ Nested(frames) /\ Ordered(frames, inputs, began)
      /\ Once(frames, inputs, began, visited, root) /\ Entered(visited, root)
      /\ gathered # "failed" => Seen(frames, inputs, began, visited, root)
      /\ Shaped(frames, inputs, began, root)
  BY DEF WalkInv
<1>3. CASE NoList \/ AllTaken
  <2>1. /\ UNCHANGED <<fs, items, frames, inputs, began, root, visited>>
        /\ gathered = "going"
    BY <1>3 DEF NoList, AllTaken, Idle, walkVars, foundVars
  <2>. QED
    BY <1>1, <1>2, <2>1, Carried
<1>4. ASSUME gathered = "going", items # <<>>,
             UNCHANGED <<fs, frames, began, root, visited, gathered>>, items' = Tail(items),
             NEW new \in Input, Len(new.path) = 1, inputs' = Append(inputs, new)
      PROVE  WalkInv'
  <2>1. /\ Shaped(frames', inputs', began', root')
        /\ Ordered(frames', inputs', began')
        /\ Once(frames', inputs', began', visited', root')
        /\ Seen(frames', inputs', began', visited', root')
    BY <1>2, <1>4, ArgumentTaken
  <2>. QED
    BY <1>1, <1>2, <1>4, <2>1, Carried
<1>5. items # <<>> => <<items[1].entry>> \in Seq(Place) /\ Len(<<items[1].entry>>) = 1
  <2>. SUFFICES ASSUME items # <<>>
       PROVE  <<items[1].entry>> \in Seq(Place) /\ Len(<<items[1].entry>>) = 1
    OBVIOUS
  <2>1. items[1].entry \in Place
    BY <1>1 DEF Item
  <2>. QED
    BY <2>1
<1>6. CASE TakeUrl
  <2>1. items # <<>> /\ items[1].kind \in {"url", "malformed"}
    BY <1>6 DEF TakeUrl
  <2>. DEFINE new == Found(items[1].kind, <<items[1].entry>>)
  <2>2. new \in Input /\ Len(new.path) = 1
    BY <1>5, <2>1 DEF Found, Input
  <2>3. /\ gathered = "going" /\ items' = Tail(items) /\ inputs' = Append(inputs, new)
        /\ UNCHANGED <<fs, frames, began, root, visited, gathered>>
    BY <1>6 DEF TakeUrl, Idle, walkVars
  <2>. QED
    BY <1>4, <2>1, <2>2, <2>3
<1>7. CASE TakePath
  <2>. DEFINE new == Found("file", <<items[1].entry>>)
  <2>1. /\ items # <<>> /\ gathered = "going" /\ items' = Tail(items)
        /\ inputs' = Append(inputs, new)
        /\ UNCHANGED <<fs, frames, began, root, visited, gathered>>
    BY <1>7 DEF TakePath, Idle, walkVars
  <2>2. new \in Input /\ Len(new.path) = 1
    BY <1>5, <2>1 DEF Found, Input
  <2>. QED
    BY <1>4, <2>1, <2>2
<1>8. CASE WalkDir
  <2>. DEFINE e == items[1].entry
              top == Canonical(e)
              new == [path |-> <<e>>, left |-> Listing(top)]
  <2>1. /\ frames = <<>> /\ gathered = "going" /\ items # <<>> /\ IsDir(e)
        /\ root' = top /\ visited' = {top} /\ began' = Len(inputs)
        /\ items' = Tail(items) /\ fs' = fs /\ inputs' = inputs
    BY <1>8 DEF WalkDir, Idle, foundVars
  <2>2. \/ frames' = Append(frames, new) /\ gathered' = gathered
        \/ frames' = frames /\ gathered' = "failed"
    BY <1>8 DEF WalkDir, Open
  <2>3. e \in Place
    BY <1>1, <2>1 DEF Item
  <2>4. Append(frames, new) = <<new>>
    BY <2>1
  <2>5. Nested(<<>>)
    BY DEF Nested
  <2>. HIDE DEF e
  <2>6. /\ Shaped(<<new>>, inputs, Len(inputs), top) /\ Shaped(<<>>, inputs, Len(inputs), top)
        /\ Nested(<<new>>)
        /\ Ordered(<<new>>, inputs, Len(inputs)) /\ Ordered(<<>>, inputs, Len(inputs))
        /\ Once(<<new>>, inputs, Len(inputs), {top}, top)
        /\ Once(<<>>, inputs, Len(inputs), {top}, top)
        /\ Entered({top}, top)
        /\ Seen(<<new>>, inputs, Len(inputs), {top}, top)
    BY <2>1, <2>3, WalkBegins
  <2>. HIDE DEF new, top
  <2>7. CASE frames' = Append(frames, new) /\ gathered' = gathered
    BY <1>1, <2>1, <2>4, <2>6, <2>7, Carried
  <2>8. CASE frames' = frames /\ gathered' = "failed"
    BY <1>1, <2>1, <2>5, <2>6, <2>8, Carried
  <2>. QED
    BY <2>2, <2>7, <2>8
<1>. QED
  BY <1>3, <1>6, <1>7, <1>8

(* In a walk, each entry of a directory that was entered is refused,       *)
(* entered or taken as it should be, and a directory is left when there is *)
(* nothing more to see in it (walk_into()).                                *)
LEMMA LookingWalkInv ==
  ASSUME WalkInv, SkipLink \/ Enter \/ TakeFile \/ Leave
  PROVE  WalkInv'
<1>1. /\ FileSystem(fs) /\ items \in Seq(Item)
      /\ Nested(frames) /\ Ordered(frames, inputs, began)
      /\ Once(frames, inputs, began, visited, root) /\ Entered(visited, root)
      /\ gathered # "failed" => Seen(frames, inputs, began, visited, root)
      /\ Shaped(frames, inputs, began, root)
  BY DEF WalkInv
<1>2. /\ frames \in Seq(Frame) /\ inputs \in Seq(Input) /\ began \in 0 .. Len(inputs)
      /\ root \in Place /\ (frames # <<>> => root # Nowhere)
  BY <1>1 DEF Shaped
<1>3. ASSUME Looking
      PROVE  /\ Here \in Entry /\ Here # Nowhere /\ gathered = "going" /\ root \in Entry
             /\ fs[Here].parent \in visited
             /\ Within(fs[Here].parent, root) /\ Within(Here, root)
             /\ Canonical(Here) \in Place
             /\ fs[Here].kind # "link" => Canonical(Here) = Here
             /\ Passed \in Seq(Frame)
  <2>1. /\ Here \in Entry /\ Passed \in Seq(Frame)
        /\ Len(frames) \in DOMAIN frames /\ Here \in Range(frames[Len(frames)].left)
    BY <1>3, LookingAt
  <2>2. gathered = "going" /\ root \in Entry /\ Nowhere \notin Entry
    BY <1>1, <1>2, <1>3 DEF Looking, Place, FileSystem, Entry
  <2>3. fs[Here].parent \in visited
    BY <1>1, <2>1 DEF Once
  <2>4. Within(fs[Here].parent, root)
    BY <1>1, <2>3 DEF Entered
  <2>5. Within(Here, root)
    BY <1>1, <2>1, <2>2, <2>4, WithinIs DEF Place
  <2>6. /\ Canonical(Here) \in Place
        /\ fs[Here].kind # "link" => Canonical(Here) = Here
    BY <1>1, <2>1, CanonicalIs DEF Place
  <2>. QED
    BY <2>1, <2>2, <2>3, <2>4, <2>5, <2>6
<1>4. CASE SkipLink
  <2>1. /\ Looking /\ Escapes(Here) /\ frames' = Passed
        /\ UNCHANGED <<fs, items, root, visited, began, inputs, gathered>>
    BY <1>4 DEF SkipLink
  <2>2. Here \notin TreeFiles(root) /\ fs[Here].kind # "dir"
    BY <2>1 DEF Escapes, TreeFiles
  <2>3. Settled(Here, inputs, began, visited, root)
    BY <2>2 DEF Settled
  <2>4. Shaped(Passed, inputs, began, root)
    BY <1>2, <1>3, <2>1 DEF Shaped, Looking
  <2>5. Seen(Passed, inputs, began, visited, root)
    BY <1>1, <1>3, <2>1, <2>3, PassedOn, SeenOn
  <2>. QED
    BY <1>1, <2>1, <2>4, <2>5, PassedOn, Carried
<1>5. CASE Enter
  <2>. DEFINE dir == Canonical(Here)
              v == visited \cup {dir}
              new == [path |-> Path, left |-> Listing(dir)]
  <2>1. /\ Looking /\ ~Escapes(Here) /\ IsDir(Here) /\ visited' = v
        /\ UNCHANGED <<fs, items, root, began, inputs>>
        /\ \/ dir \in visited /\ frames' = Passed /\ gathered' = gathered
           \/ dir \notin visited /\ frames' = Append(Passed, new) /\ gathered' = gathered
           \/ frames' = frames /\ gathered' = "failed"
    BY <1>5 DEF Enter, foundVars
  <2>2. dir \in Entry /\ fs[dir].kind = "dir" /\ Within(dir, root)
    <3>1. dir # Nowhere /\ fs[dir].kind = "dir"
      BY <2>1 DEF IsDir
    <3>2. dir \in Entry
      BY <1>3, <2>1, <3>1 DEF Place
    <3>3. Within(dir, root)
      BY <1>3, <2>1 DEF Escapes
    <3>. QED
      BY <3>1, <3>2, <3>3
  <2>3. Entered(v, root)
    BY <1>1, <2>2 DEF Entered
  <2>4. Settled(Here, inputs, began, v, root)
    <3>1. Here \notin TreeFiles(root)
      BY <2>1 DEF TreeFiles
    <3>2. fs[Here].kind = "dir" => Here \in v
      BY <1>3, <2>1
    <3>. QED
      BY <3>1, <3>2 DEF Settled
  <2>5. \A i \in Since(inputs, began) : i \in Since(inputs, began) /\ inputs[i] = inputs[i]
    OBVIOUS
  <2>. HIDE DEF dir, v, new
  <2>6. visited \subseteq v
    BY DEF v
  <2>7. CASE dir \in visited /\ frames' = Passed /\ gathered' = gathered
    <3>1. v = visited
      BY <2>7 DEF v
    <3>2. Shaped(Passed, inputs, began, root)
      BY <1>2, <1>3, <2>1 DEF Shaped, Looking
    <3>3. Seen(Passed, inputs, began, v, root)
      <4>1. Seen(frames, inputs, began, visited, root)
        BY <1>1, <1>3, <2>1
      <4>. QED
        BY <2>1, <2>4, <2>5, <3>1, <4>1, PassedOn, SeenOn
    <3>. QED
      BY <1>1, <2>1, <2>3, <2>7, <3>1, <3>2, <3>3, PassedOn, Carried
  <2>8. CASE dir \notin visited /\ frames' = Append(Passed, new) /\ gathered' = gathered
    <3>. DEFINE f == Append(Passed, new)
    <3>1. /\ f \in Seq(Frame)
          /\ Nested(f)
          /\ Ordered(f, inputs, began)
          /\ Once(f, inputs, began, v, root)
          /\ \A k \in DOMAIN frames : \A x \in Range(frames[k].left) :
               x = Here \/ (k \in DOMAIN f /\ x \in Range(f[k].left))
          /\ \A x \in Children(dir) : \E k \in DOMAIN f : x \in Range(f[k].left)
      BY <2>1, <2>2, <2>8, PushedOn DEF v, new
    <3>2. Shaped(f, inputs, began, root)
      <4>. HIDE DEF f
      <4>. QED
        BY <1>2, <1>3, <2>1, <3>1 DEF Shaped, Looking
    <3>3. \A d \in v \ visited : \A x \in Children(d) : \E k \in DOMAIN f : x \in Range(f[k].left)
      BY <3>1 DEF v
    <3>. HIDE DEF f
    <3>4. Seen(f, inputs, began, v, root)
      <4>1. Seen(frames, inputs, began, visited, root)
        BY <1>1, <1>3, <2>1
      <4>. QED
        BY <2>4, <2>5, <2>6, <3>1, <3>3, <4>1, SeenOn
    <3>5. frames' = f
      BY <2>8 DEF f
    <3>. QED
      BY <1>1, <2>1, <2>3, <3>1, <3>2, <3>4, <3>5, Carried
  <2>9. CASE frames' = frames /\ gathered' = "failed"
    <3>1. Once(frames, inputs, began, v, root)
      BY <1>1, <2>6 DEF Once
    <3>. QED
      BY <1>1, <2>1, <2>3, <2>9, <3>1, Carried
  <2>. QED
    BY <2>1, <2>7, <2>8, <2>9
<1>6. CASE TakeFile
  <2>. DEFINE ins == Append(inputs, Found("file", Path))
  <2>1. /\ Looking /\ ~Escapes(Here) /\ ~IsDir(Here) /\ frames' = Passed
        /\ inputs' = IF fs[Here].listed THEN ins ELSE inputs
        /\ UNCHANGED <<fs, items, root, visited, began, gathered>>
    BY <1>6 DEF TakeFile
  <2>2. fs[Here].kind # "dir"
    BY <1>3, <2>1 DEF IsDir
  <2>3. Here \in TreeFiles(root) <=> fs[Here].listed
    BY <1>3, <2>1 DEF TreeFiles, Escapes
  <2>4. Seen(frames, inputs, began, visited, root)
    BY <1>1, <1>3, <2>1
  <2>. HIDE DEF ins
  <2>5. CASE ~fs[Here].listed
    <3>1. Settled(Here, inputs, began, visited, root)
      BY <2>2, <2>3, <2>5 DEF Settled
    <3>2. Shaped(Passed, inputs, began, root)
      BY <1>2, <1>3, <2>1 DEF Shaped, Looking
    <3>3. Seen(Passed, inputs, began, visited, root)
      BY <2>1, <2>4, <3>1, PassedOn, SeenOn
    <3>. QED
      BY <1>1, <2>1, <2>5, <3>2, <3>3, PassedOn, Carried
  <2>6. CASE fs[Here].listed
    <3>1. /\ ins \in Seq(Input)
          /\ Len(ins) = Len(inputs) + 1
          /\ Ordered(Passed, ins, began)
          /\ Once(Passed, ins, began, visited, root)
          /\ \A i \in Since(inputs, began) : i \in Since(ins, began) /\ ins[i] = inputs[i]
          /\ \E i \in Since(ins, began) : Last(ins[i].path) = Here
      BY <2>1, <2>3, <2>6, TakenOn DEF ins
    <3>2. Settled(Here, ins, began, visited, root)
      BY <2>2, <3>1 DEF Settled
    <3>3. Shaped(Passed, ins, began, root)
      <4>1. began \in 0 .. Len(ins)
        BY <1>2, <3>1
      <4>. QED
        BY <1>2, <1>3, <2>1, <3>1, <4>1 DEF Shaped, Looking
    <3>4. Seen(Passed, ins, began, visited, root)
      BY <2>1, <2>4, <3>1, <3>2, PassedOn, SeenOn
    <3>5. inputs' = ins
      BY <2>1, <2>6
    <3>. QED
      BY <1>1, <2>1, <3>1, <3>3, <3>4, <3>5, PassedOn, Carried
  <2>. QED
    BY <2>5, <2>6
<1>7. CASE Leave
  <2>. DEFINE n == Len(frames)
              f == Front(frames)
  <2>1. /\ frames # <<>> /\ frames[n].left = <<>> /\ frames' = f /\ gathered = "going"
        /\ UNCHANGED <<fs, items, root, visited, began, inputs, gathered>>
    BY <1>7 DEF Leave, Top, Last, foundVars
  <2>2. /\ n \in Nat \ {0} /\ DOMAIN frames = 1 .. n
        /\ f \in Seq(Frame) /\ DOMAIN f = 1 .. n - 1
        /\ \A k \in 1 .. n - 1 : f[k] = frames[k]
    BY <1>2, <2>1 DEF Front
  <2>. HIDE DEF n, f
  <2>3. \A k \in DOMAIN f : k \in DOMAIN frames /\ f[k] = frames[k]
    BY <2>2
  <2>4. ASSUME NEW k \in DOMAIN frames, NEW x \in Range(frames[k].left)
        PROVE  k \in DOMAIN f /\ x \in Range(f[k].left)
    <3>1. k # n
      BY <2>1, <2>4 DEF Range
    <3>2. k \in 1 .. n - 1
      BY <2>2, <2>4, <3>1
    <3>. QED
      BY <2>2, <2>4, <3>2
  <2>5. Nested(f)
    <3>1. \A k \in DOMAIN f : Len(f[k].path) = k /\ Sorted(f[k].left)
      BY <1>1, <2>3 DEF Nested
    <3>2. ASSUME NEW k \in DOMAIN f, NEW l \in DOMAIN f, k < l
          PROVE  /\ \A i \in 1 .. k : f[l].path[i] = f[k].path[i]
                 /\ \A x \in Range(f[k].left) : InOrder(f[l].path[k + 1], x)
                 /\ Range(f[k].left) \cap Range(f[l].left) = {}
      <4>1. /\ \A i \in 1 .. k : frames[l].path[i] = frames[k].path[i]
            /\ \A x \in Range(frames[k].left) : InOrder(frames[l].path[k + 1], x)
            /\ Range(frames[k].left) \cap Range(frames[l].left) = {}
        BY <1>1, <2>3, <3>2 DEF Nested
      <4>. QED
        BY <2>3, <4>1
    <3>. QED
      BY <3>1, <3>2 DEF Nested
  <2>6. Ordered(f, inputs, began)
    BY <1>1, <2>3 DEF Ordered
  <2>7. Once(f, inputs, began, visited, root)
    BY <1>1, <2>3 DEF Once
  <2>8. Shaped(f, inputs, began, root)
    BY <1>2, <2>1, <2>2 DEF Shaped
  <2>9. Seen(f, inputs, began, visited, root)
    BY <1>1, <2>1, <2>4 DEF Seen
  <2>. QED
    BY <1>1, <2>1, <2>5, <2>6, <2>7, <2>8, <2>9, Carried
<1>. QED
  BY <1>4, <1>5, <1>6, <1>7

(* Gathering keeps it, and nothing else of the program touches it.         *)
LEMMA StepWalkInv == WalkInv /\ [Next]_vars => WalkInv'
<1>. SUFFICES ASSUME WalkInv, [Next]_vars PROVE WalkInv'
  OBVIOUS
<1>1. CASE GatherStep
  BY <1>1, IdleWalkInv, LookingWalkInv DEF GatherStep, Gather
<1>2. CASE UNCHANGED gatherVars
  <2>1. UNCHANGED <<fs, items, frames, inputs, began, root, visited, gathered>>
    BY <1>2 DEF gatherVars, walkVars, foundVars
  <2>2. /\ items \in Seq(Item)
        /\ Nested(frames) /\ Ordered(frames, inputs, began)
        /\ Once(frames, inputs, began, visited, root) /\ Entered(visited, root)
        /\ gathered # "failed" => Seen(frames, inputs, began, visited, root)
        /\ Shaped(frames, inputs, began, root)
    BY DEF WalkInv
  <2>. QED
    BY <2>1, <2>2, Carried
<1>3. CASE \/ SettlePolicy \/ Gathered \/ PrepareOutDir \/ Compile \/ Emit \/ WriteReport
           \/ Bind \/ ServerDone \/ ServeStep \/ UNCHANGED vars
  BY <1>2, <1>3 DEF SettlePolicy, Gathered, PrepareOutDir, Compile, Emit, WriteReport, Bind,
                    ServerDone, ServeStep, vars
<1>. QED
  BY <1>1, <1>3 DEF Next, Working

(* When there is nothing more to see, every directory of the tree has been *)
(* entered: one that has not been lies in one that has not been either,    *)
(* and there is no end to that.                                            *)
LEMMA AllIsSeen ==
  ASSUME WalkInv, frames = <<>>, gathered # "failed", root # Nowhere
  PROVE  TreeFiles(root) \subseteq {Last(inputs[i].path) : i \in Since(inputs, began)}
<1>. DEFINE Unseen == {d \in Entry : fs[d].kind = "dir" /\ Within(d, root) /\ d \notin visited}
<1>1. /\ FileSystem(fs) /\ root \in Entry /\ root \in visited
      /\ Seen(frames, inputs, began, visited, root)
  BY DEF WalkInv, Shaped, Place, Entered
<1>2. \A d \in visited : \A e \in Children(d) : Settled(e, inputs, began, visited, root)
  BY <1>1 DEF Seen
<1>3. ASSUME NEW e \in Entry, Within(fs[e].parent, root)
      PROVE  fs[e].parent \in Entry /\ fs[fs[e].parent].kind = "dir"
  <2>1. fs[e].parent \in Place /\ (fs[e].parent # Nowhere => fs[fs[e].parent].kind = "dir")
    BY <1>1 DEF FileSystem, Place, Entry
  <2>2. fs[e].parent # Nowhere
    BY <1>1, <1>3, <2>1, WithinIs
  <2>. QED
    BY <2>1, <2>2 DEF Place
<1>4. Unseen = {}
  <2>. SUFFICES ASSUME Unseen # {} PROVE FALSE
    OBVIOUS
  <2>1. Unseen \in SUBSET DOMAIN fs
    BY DEF Entry
  <2>2. PICK e \in Unseen : fs[e].parent \notin Unseen
    BY <1>1, <2>1 DEF FileSystem
  <2>3. e \in Entry /\ e # root /\ Within(e, root) /\ fs[e].kind = "dir" /\ e \notin visited
    BY <1>1, <2>2
  <2>4. Within(fs[e].parent, root)
    BY <1>1, <2>3, WithinIs DEF Place
  <2>5. fs[e].parent \in visited
    BY <1>3, <2>2, <2>3, <2>4
  <2>6. Settled(e, inputs, began, visited, root)
    BY <1>2, <2>3, <2>5 DEF Children
  <2>. QED
    BY <2>3, <2>6 DEF Settled
<1>5. ASSUME NEW e \in TreeFiles(root)
      PROVE  \E i \in Since(inputs, began) : Last(inputs[i].path) = e
  <2>1. e \in Entry /\ Within(fs[e].parent, root)
    BY DEF TreeFiles
  <2>2. fs[e].parent \in visited
    BY <1>3, <1>4, <2>1
  <2>3. Settled(e, inputs, began, visited, root)
    BY <1>2, <2>1, <2>2 DEF Children
  <2>. QED
    BY <2>3 DEF Settled
<1>. QED
  BY <1>5

(* Whatever the tree and its links: a walk takes the listed files of its   *)
(* tree, each once, in the order of their paths, none from outside it, and *)
(* all of them unless a directory cannot be read (gather and walk_into,    *)
(* input.rs).                                                              *)
THEOREM WalkIsExact == Spec => []WalkExact
<1>1. WalkInv => WalkExact
  <2>. SUFFICES ASSUME WalkInv PROVE WalkExact
    OBVIOUS
  <2>1. Ordered(frames, inputs, began) /\ Once(frames, inputs, began, visited, root)
    BY DEF WalkInv
  <2>2. FromTree = Since(inputs, began) /\ \A i : Leaf(i) = Last(inputs[i].path)
    BY DEF FromTree, Since, Leaf
  <2>3. InPathOrder /\ Confined
    BY <2>1, <2>2 DEF InPathOrder, Confined, Ordered, Once
  <2>4. Complete
    BY <2>2, AllIsSeen DEF Complete
  <2>. QED
    BY <2>3, <2>4 DEF WalkExact
<1>. QED
  BY InitWalkInv, StepWalkInv, <1>1, PTL DEF Spec
=============================================================================
