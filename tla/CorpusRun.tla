------------------------------ MODULE CorpusRun ------------------------------
(***************************************************************************)
(* xtask correctness (main.rs, correctness.rs, served.rs and               *)
(* src/fixture): every set is processed in every fetching mode, a sample   *)
(* at a time.  A fetching run is served by a fixture whose handlers are    *)
(* threads, and what a sample requested is the difference of the fixture's *)
(* counter, which a handler its client gave up on may still raise.         *)
(***************************************************************************)
EXTENDS Scoring

CONSTANTS
  Samples,      \* set -> its ground-truth entries, in path order
  Outcomes,     \* entry -> what the engine may make of it
  MaxRequests   \* how many requests a sample makes at most, its page included

(* The samples of a set are those of the ground truth that name it, lists  *)
(* are finite, and output is a flag.                                       *)
ASSUME CorpusAssumption ==
  \A set \in DOMAIN Samples :
    /\ Samples[set] \in Seq(ToSet(Samples[set]))
    /\ \A entry \in ToSet(Samples[set]) :
         /\ entry.set = set
         /\ entry.output \in BOOLEAN
         /\ entry.rules \in Seq(ToSet(entry.rules))
         /\ entry.fetch.rules \in Seq(ToSet(entry.fetch.rules))

VARIABLES
  task,         \* [strict, sets, modes, disk, policy, unreadable]: how it was started
  runs,         \* the runs left, [set, fetching]; the first is under way
  queue,        \* the samples of the run that are left
  current,      \* "idle", "at work", or "between runs"
  fixture,      \* [hits, strays]: requests counted, and abandoned but not read
  client,       \* the engine's request: "none", "waiting" or "counted"
  sample,       \* [before, sent, got]: of the sample at work
  measured,     \* the samples of the run, measured
  got,          \* the answers each of them had
  quit,         \* a request of the run was given up
  outside,      \* references that were requested from a real host
  mismatches,   \* samples that were not as the ground truth has them
  failures,     \* what the runs add up to
  ended         \* "going", "ok", "violations" or "error"

fixtureVars == <<fixture, client, quit, outside>>
tallyVars == <<measured, got, mismatches>>
corpusVars ==
  <<task, runs, queue, current, fixtureVars, sample, tallyVars, failures, ended>>

NewSample == [before |-> 0, sent |-> 0, got |-> 0]

(* Each set in each mode, sets outermost.                                  *)
Plan(t) ==
  [k \in 1 .. Len(t.sets) * Len(t.modes) |->
     [set      |-> t.sets[((k - 1) \div Len(t.modes)) + 1],
      fetching |-> t.modes[((k - 1) % Len(t.modes)) + 1]]]

CorpusInit ==
  /\ runs = Plan(task)
  /\ queue = <<>>
  /\ current = "between runs"
  /\ fixture = [hits |-> 0, strays |-> 0]
  /\ client = "none"
  /\ quit = FALSE
  /\ outside = {}
  /\ sample = NewSample
  /\ measured = <<>>
  /\ got = <<>>
  /\ mismatches = 0
  /\ failures = 0
  /\ ended = "going"

Fetching == runs[1].fetching
Entry == queue[1]

(* Every run first compares the ground truth with the directories, then    *)
(* compiles its policy, and starts an origin of its own.                   *)
AgreesWithDisk == task.disk
EngineBuilds == task.policy

StartRun ==
  /\ current = "between runs"
  /\ ended = "going"
  /\ runs # <<>>
  /\ IF AgreesWithDisk /\ EngineBuilds
     THEN /\ queue' = Samples[runs[1].set]
          /\ current' = "idle"
          /\ fixture' = [hits |-> 0, strays |-> 0]
          /\ quit' = FALSE
          /\ measured' = <<>>
          /\ got' = <<>>
          /\ UNCHANGED ended
     ELSE ended' = "error" /\ UNCHANGED <<queue, current, fixture, quit, measured, got>>
  /\ UNCHANGED <<task, runs, client, outside, sample, mismatches, failures>>

(* What cannot be read cannot be published, and ends the task; without     *)
(* fetching the engine meets it.                                           *)
StartSample ==
  /\ current = "idle"
  /\ ended = "going"
  /\ queue # <<>>
  /\ IF Fetching /\ Entry.name \in task.unreadable
     THEN ended' = "error" /\ UNCHANGED <<current, sample>>
     ELSE /\ current' = "at work"
          /\ sample' = [NewSample EXCEPT !.before = fixture.hits]
          /\ UNCHANGED ended
  /\ UNCHANGED <<task, runs, queue, fixtureVars, tallyVars, failures>>

-----------------------------------------------------------------------------
Sending == current = "at work" /\ Fetching /\ client = "none"

Unscored == <<task, runs, queue, current, tallyVars, failures, ended>>

FetchPage ==
  /\ Sending
  /\ sample.sent = 0
  /\ sample' = [sample EXCEPT !.sent = 1]
  /\ client' = "waiting"
  /\ UNCHANGED <<fixture, quit, outside, Unscored>>

(* Once the page has come, a reference of it: relative ones and anchored   *)
(* ones are the fixture's, a public name that was not is somebody's.  The  *)
(* URL policy and the guard stop the rest.                                 *)
FetchReference ==
  /\ Sending
  /\ sample.got > 0
  /\ sample.sent < MaxRequests
  /\ sample' = [sample EXCEPT !.sent = @ + 1]
  /\ \E ref \in Entry.refs :
       IF ref.authority = "own" \/ Anchored(ref)
       THEN client' = "waiting" /\ UNCHANGED outside
       ELSE /\ ref.authority = "public name"
            /\ ref.before = ":" => ref.scheme \in {"http", "https"}
            /\ outside' = outside \cup {ref}
            /\ UNCHANGED client
  /\ UNCHANGED <<fixture, quit, Unscored>>

(* A handler counts a request as soon as it has read it, before it answers.*)
Count ==
  /\ client = "waiting"
  /\ client' = "counted"
  /\ fixture' = [fixture EXCEPT !.hits = @ + 1]
  /\ UNCHANGED <<quit, outside, sample, Unscored>>

(* A bug in which it counts what it has answered.                          *)
ReplyUncounted ==
  /\ client = "counted" \/ client = "waiting"
  /\ fixture' = IF client = "waiting" THEN [fixture EXCEPT !.strays = @ + 1] ELSE fixture
  /\ client' = "none"
  /\ sample' = [sample EXCEPT !.got = @ + 1]
  /\ UNCHANGED <<quit, outside, Unscored>>

Reply ==
  /\ client = "counted"
  /\ client' = "none"
  /\ sample' = [sample EXCEPT !.got = @ + 1]
  /\ UNCHANGED <<fixture, quit, outside, Unscored>>

(* The engine's fetch runs into its time; the handler does not know.       *)
GiveUp ==
  /\ client # "none"
  /\ client' = "none"
  /\ quit' = TRUE
  /\ fixture' = IF client = "waiting" THEN [fixture EXCEPT !.strays = @ + 1] ELSE fixture
  /\ UNCHANGED <<outside, sample, Unscored>>

(* A stray is read late, or never: its handler waits half a second.        *)
StrayRead ==
  /\ fixture.strays > 0
  /\ \E counted \in 0 .. 1 :
       fixture' = [hits |-> fixture.hits + counted, strays |-> fixture.strays - 1]
  /\ UNCHANGED <<client, quit, outside, sample, Unscored>>

-----------------------------------------------------------------------------
Failed(status) == [status |-> status, rules |-> {}, output |-> NoOutput, slow |-> FALSE]

Results ==
  IF Entry.name \in task.unreadable THEN {Failed("io_error")}
  ELSE IF Fetching /\ sample.got = 0 THEN {Failed("fetch_error")}
  ELSE Outcomes[Entry.name]

(* As the ground truth reads: a malicious sample ends as stated, with no   *)
(* marker in its output and by the rules stated; a benign one loses        *)
(* nothing, fires nothing it may not, and is in time.  Its status and its  *)
(* required rules are not looked at.                                       *)
AsStated(entry, fetching, done) ==
  LET want == Expectation(entry, fetching)
  IN  IF entry.set = "malicious"
      THEN /\ done.status \in want.status
           /\ entry.output <=> done.output # NoOutput
           /\ \A k \in want.forbidden : ~Carries(done, k)
           /\ ToSet(want.rules) \subseteq done.rules
      ELSE /\ done.rules \subseteq want.justified \ entry.forbidden_rules
           /\ \A k \in entry.preserved : Carries(done, k)
           /\ ~(entry.hurried /\ done.slow)

EndSample ==
  /\ current = "at work"
  /\ client = "none"
  /\ Fetching => sample.sent > 0
  /\ \E done \in Results :
       /\ measured' = Append(measured,
            Measure(Entry, done, Fetching, fixture.hits - sample.before))
       /\ mismatches' = mismatches + (IF AsStated(Entry, Fetching, done) THEN 0 ELSE 1)
  /\ got' = Append(got, sample.got)
  /\ current' = "idle"
  /\ queue' = Tail(queue)
  /\ UNCHANGED <<task, runs, fixtureVars, sample, failures, ended>>

RunFailures == HowMany(measured, LAMBDA m : IsFailure(Verdict(m)))

(* The tables are saved and printed; strictness is for the end.            *)
EndRun ==
  /\ current = "idle"
  /\ ended = "going"
  /\ queue = <<>>
  /\ failures' = failures + RunFailures
  /\ runs' = Tail(runs)
  /\ current' = "between runs"
  /\ UNCHANGED <<task, queue, fixtureVars, sample, tallyVars, ended>>

EndTask ==
  /\ current = "between runs"
  /\ ended = "going"
  /\ runs = <<>>
  /\ ended' = IF task.strict /\ failures > 0 THEN "violations" ELSE "ok"
  /\ UNCHANGED <<task, runs, queue, current, fixtureVars, sample, tallyVars, failures>>

Scored ==
  \/ StartRun \/ StartSample \/ EndSample \/ EndRun \/ EndTask
  \/ ended = "going" /\ (FetchPage \/ FetchReference \/ Count \/ Reply \/ GiveUp \/ StrayRead)

-----------------------------------------------------------------------------
Finished == current = "idle" /\ queue = <<>> /\ runs # <<>>

TablesAgree ==
  Finished =>
    LET n == Len(measured)
        s == Summary(runs[1].set, measured, Fetching)
        c == Confusion(measured)
    IN  /\ runs[1].set = "malicious" =>
             /\ s.detection + s.false_negative = n
             /\ s.leaks <= s.false_negative
             /\ RunFailures = s.false_negative
                  + HowMany(measured, LAMBDA m : Neutralised(m) /\ ~RulesNamed(m))
        /\ runs[1].set = "benign" => RunFailures = s.false_positive
        /\ MapThenSumSet(LAMBDA k : s.total[k], DOMAIN s.total) = n
        /\ MapThenSumSet(LAMBDA k : s.held[k], DOMAIN s.held)
             = n - s.false_negative - s.false_positive
        /\ \A rule \in DOMAIN c :
             /\ c[rule].true_positive + c[rule].false_negative = c[rule].expected
             /\ c[rule].false_positive > 0 => runs[1].set = "benign"

(* What a sample got was counted for it, and nothing else was unless a     *)
(* request was given up.                                                   *)
RequestsCounted ==
  \A i \in DOMAIN measured :
    /\ measured[i].requests >= got[i]
    /\ ~quit => measured[i].requests = got[i]

(* A task ends well under --strict exactly when every sample of every run  *)
(* was as stated, its tables add up, a sample is credited with the requests*)
(* it made, and no public reference of a page is asked of a real host but  *)
(* one that follows a comma, as the second of a srcset may.                *)
TruthTold ==
  /\ ended = "ok" => ~task.strict \/ mismatches = 0
  /\ ended = "violations" => task.strict /\ mismatches > 0
  /\ TablesAgree
  /\ RequestsCounted
  /\ \A ref \in outside : ref.before \notin Openers \cup {":"}
=============================================================================
