-------------------------------- MODULE Batch --------------------------------
(***************************************************************************)
(* One scan: process_batch (engine/mod.rs) and the front-end that gathers  *)
(* its inputs and writes what it emits (main.rs).  The main thread sends   *)
(* every job, closes the job channel, collects one result per input,       *)
(* joins the workers and only then emits, in input order.  The workers     *)
(* share the receiving end of the job channel behind a mutex, which a      *)
(* worker holds while it waits for a job.                                  *)
(***************************************************************************)
EXTENDS Report

CONSTANTS
  Workers,     \* the threads process_batch spawns
  NoOne,       \* nobody holds the mutex
  Total,       \* how many inputs were gathered
  Skipped,     \* how many symlinks the walker refused
  Outcomes     \* what the pipeline can make of an input

ASSUME BatchAssumption ==
  /\ Workers # {}
  /\ NoOne \notin Workers
  /\ IsFiniteSet(Workers)
  /\ Total \in Nat
  /\ Skipped \in Nat
  /\ Outcomes \subseteq Outcome

Indexes == 0..(Total - 1)
NoJob == Total
NoExit == 256                          \* no u8: the process still runs
Missing == Failed("InternalError")     \* also what a panic leaves behind

VARIABLES
  main,       \* where process_batch, or the front-end after it, stands
  sent,       \* jobs put into the channel
  jobs,       \* the job channel
  closed,     \* the sending end of the job channel is gone
  lock,       \* who holds the mutex around the receiving end
  worker,     \* Workers -> where the worker's loop stands
  job,        \* Workers -> the index it is working on
  results,    \* the result channel
  received,   \* results taken from it
  slots,      \* outcomes, by index
  inputs,     \* the reports appended so far
  run,        \* the summary
  hits,       \* the counters the workers' caches keep
  hitsRead,   \* what the report says of them
  failures,   \* write_failures
  exit,       \* the exit code, once there is one
  made        \* history: what the pipeline made of each input

vars == <<main, sent, jobs, closed, lock, worker, job, results, received, slots,
          inputs, run, hits, hitsRead, failures, exit, made>>

reportVars == <<inputs, run, hitsRead, failures, exit>>
mainVars == <<main, sent, closed, received, slots, reportVars>>
workerVars == <<lock, worker, job, hits, made>>

Empty == [status |-> "none"]           \* a slot without an outcome
Slot == Outcome \cup {Empty}

TypeOK ==
  /\ main \in {"send", "collect", "join", "emit", "symlinks", "report", "done"}
  /\ sent \in 0..Total
  /\ jobs \in Seq(Indexes)
  /\ closed \in BOOLEAN
  /\ lock \in Workers \cup {NoOne}
  /\ worker \in [Workers -> {"lock", "recv", "work", "exited"}]
  /\ job \in [Workers -> Indexes \cup {NoJob}]
  /\ results \in Seq(Indexes \X Outcome)
  /\ received \in 0..Total
  /\ slots \in [Indexes -> Slot]
  /\ inputs \in Seq(Outcome)
  /\ run \in RunSummary
  /\ hits \in Nat
  /\ hitsRead \in Nat
  /\ failures \in Nat
  /\ exit \in {NoExit, 0, 1, 2}
  /\ made \in [Indexes -> Slot]

Init ==
  /\ main = "send"
  /\ sent = 0
  /\ jobs = <<>>
  /\ closed = FALSE
  /\ lock = NoOne
  /\ worker = [w \in Workers |-> "lock"]
  /\ job = [w \in Workers |-> NoJob]
  /\ results = <<>>
  /\ received = 0
  /\ slots = [i \in Indexes |-> Empty]
  /\ inputs = <<>>
  /\ run = EmptyRun
  /\ hits = 0
  /\ hitsRead = 0
  /\ failures = 0
  /\ exit = NoExit
  /\ made = [i \in Indexes |-> Empty]

-----------------------------------------------------------------------------
(* The workers.  Waiting for a job is done with the mutex held, so at most *)
(* one worker waits in recv and the others wait for the mutex.             *)
Lock(w) ==
  /\ worker[w] = "lock"
  /\ lock = NoOne
  /\ lock' = w
  /\ worker' = [worker EXCEPT ![w] = "recv"]
  /\ UNCHANGED <<mainVars, jobs, results, job, hits, made>>

Receive(w) ==
  /\ worker[w] = "recv"
  /\ jobs # <<>>
  /\ jobs' = Tail(jobs)
  /\ job' = [job EXCEPT ![w] = Head(jobs)]
  /\ lock' = NoOne
  /\ worker' = [worker EXCEPT ![w] = "work"]
  /\ UNCHANGED <<mainVars, results, hits, made>>

(* The channel is closed and drained: no more work.                        *)
Leave(w) ==
  /\ worker[w] = "recv"
  /\ jobs = <<>>
  /\ closed
  /\ lock' = NoOne
  /\ worker' = [worker EXCEPT ![w] = "exited"]
  /\ UNCHANGED <<mainVars, jobs, results, job, hits, made>>

(* process_indexed() and the send that follows it.                         *)
Deliver(w, o) ==
  /\ worker[w] = "work"
  /\ made' = [made EXCEPT ![job[w]] = o]
  /\ results' = Append(results, <<job[w], o>>)
  /\ job' = [job EXCEPT ![w] = NoJob]
  /\ worker' = [worker EXCEPT ![w] = "lock"]
  /\ hits' \in {hits, hits + 1}
  /\ UNCHANGED <<mainVars, lock>>

Process(w) == (\E o \in Outcomes : Deliver(w, o)) /\ UNCHANGED jobs

(* A bug in which a panicked job is reported and queued again.             *)
PanicRetried(w) ==
  /\ Deliver(w, Missing)
  /\ jobs' = Append(jobs, job[w])

(* The pipeline panics; catch_unwind turns the panic into an outcome.      *)
Panic(w) == Deliver(w, Missing) /\ UNCHANGED jobs

Work(w) == Lock(w) \/ Receive(w) \/ Leave(w) \/ Process(w) \/ Panic(w)

-----------------------------------------------------------------------------
(* The main thread.                                                        *)
SendJob ==
  /\ main = "send"
  /\ sent < Total
  /\ jobs' = Append(jobs, sent)
  /\ sent' = sent + 1
  /\ UNCHANGED <<workerVars, main, closed, results, received, slots, reportVars>>

Collecting(n) == IF n = Total THEN "join" ELSE "collect"

(* A bug in which the sending end outlives the loop that sends.            *)
NeverCloseJobs ==
  /\ main = "send"
  /\ sent = Total
  /\ main' = Collecting(0)
  /\ UNCHANGED <<workerVars, sent, jobs, closed, results, received, slots, reportVars>>

CloseJobs ==
  /\ main = "send"
  /\ sent = Total
  /\ closed' = TRUE
  /\ main' = Collecting(0)
  /\ UNCHANGED <<workerVars, sent, jobs, results, received, slots, reportVars>>

(* A bug in which results are filed in the order they arrive.              *)
CollectInArrivalOrder ==
  /\ main = "collect"
  /\ results # <<>>
  /\ slots' = [slots EXCEPT ![received] = Head(results)[2]]
  /\ results' = Tail(results)
  /\ received' = received + 1
  /\ main' = Collecting(received + 1)
  /\ UNCHANGED <<workerVars, sent, jobs, closed, reportVars>>

Collect ==
  /\ main = "collect"
  /\ results # <<>>
  /\ slots' = [slots EXCEPT ![Head(results)[1]] = Head(results)[2]]
  /\ results' = Tail(results)
  /\ received' = received + 1
  /\ main' = Collecting(received + 1)
  /\ UNCHANGED <<workerVars, sent, jobs, closed, reportVars>>

Join ==
  /\ main = "join"
  /\ \A w \in Workers : worker[w] = "exited"
  /\ main' = "emit"
  /\ UNCHANGED <<workerVars, sent, jobs, closed, results, received, slots, reportVars>>

Append1(o) == inputs' = Append(inputs, o) /\ run' = Push(run, o)

(* emit() writes the outputs of one outcome, each of which may fail, and   *)
(* its report joins the run's.  A missing outcome is reported unemitted.   *)
Emit ==
  /\ main = "emit"
  /\ Len(inputs) < Total
  /\ LET o == slots[Len(inputs)] IN
       IF o = Empty
       THEN Append1(Missing) /\ UNCHANGED failures
       ELSE /\ Append1(o)
            /\ \E n \in 0..o.files : failures' = failures + n
  /\ UNCHANGED <<workerVars, main, sent, jobs, closed, results, received, slots,
                 hitsRead, exit>>

ReadCounters ==
  /\ main = "emit"
  /\ Len(inputs) = Total
  /\ hitsRead' = hits
  /\ main' = "symlinks"
  /\ UNCHANGED <<workerVars, sent, jobs, closed, results, received, slots,
                 inputs, run, failures, exit>>

PushSymlink ==
  /\ main = "symlinks"
  /\ Len(inputs) < Total + Skipped
  /\ Append1(Failed("SkippedSymlink"))
  /\ UNCHANGED <<workerVars, main, sent, jobs, closed, results, received, slots,
                 hitsRead, failures, exit>>

(* A bug in which a lost output does not change the exit code.             *)
ExitOf(written) == IF written THEN ExitCode(run) ELSE 2

ExitWith(written) == IF written /\ failures = 0 THEN ExitCode(run) ELSE 2

(* report.json is written, or cannot be; either way the process ends.      *)
WriteReport ==
  /\ main = "symlinks"
  /\ Len(inputs) = Total + Skipped
  /\ \E written \in BOOLEAN : exit' = ExitWith(written)
  /\ main' = "done"
  /\ UNCHANGED <<workerVars, sent, jobs, closed, results, received, slots,
                 inputs, run, hitsRead, failures>>

MainStep ==
  \/ SendJob \/ CloseJobs \/ Collect \/ Join
  \/ Emit \/ ReadCounters \/ PushSymlink \/ WriteReport

Ended == main = "done" /\ UNCHANGED vars

Next == MainStep \/ (\E w \in Workers : Work(w)) \/ Ended

Spec == Init /\ [][Next]_vars

(* Every thread keeps running, and a worker that waits for the mutex gets  *)
(* it once nobody holds it and no other worker wants it.                   *)
FairSpec == Spec /\ WF_vars(MainStep) /\ \A w \in Workers : WF_vars(Work(w))

-----------------------------------------------------------------------------
Places(i) ==
  [queued    |-> {n \in DOMAIN jobs : jobs[n] = i},
   worked    |-> {w \in Workers : job[w] = i},
   delivered |-> {n \in DOMAIN results : results[n][1] = i}]

(* A job is in exactly one place: still to be sent, queued, with one       *)
(* worker, among the results, or filed.  No input is lost, none is         *)
(* processed twice, whichever worker takes it and however it ends.         *)
OnePlace ==
  /\ TypeOK
  /\ \A i \in Indexes :
       Cardinality(Places(i).queued) + Cardinality(Places(i).worked)
         + Cardinality(Places(i).delivered) + Is(slots[i] # Empty) + Is(i >= sent) = 1

(* The report lists every input at its own position, with what the         *)
(* pipeline made of it, although the results arrive in any order.          *)
InOrder ==
  \A n \in DOMAIN inputs :
    inputs[n] = IF n <= Total THEN made[n - 1] ELSE Failed("SkippedSymlink")

(* The summary is a function of the list of reports, and of nothing the    *)
(* scheduling could change.                                                *)
SummaryAgrees == run = SummaryOf(inputs)

(* The counters are read when nothing can change them any more.            *)
CountersComplete == main \in {"symlinks", "done"} => hitsRead = hits

(* The report tells what the pipelines did: each input's outcome at its    *)
(* own position, a summary that adds them up, and counters read when every *)
(* worker was done, whatever the schedule and whoever panicked.            *)
ReportExact == InOrder /\ SummaryAgrees /\ CountersComplete

(* An output that could not be written shows in the exit code, and 1 and 0 *)
(* tell a run that refused something from one that did not.                *)
ExitTells ==
  main = "done" =>
    /\ failures > 0 => exit = 2
    /\ exit # 2 => (exit = 1 <=> Tally(inputs, RefusedStatus) > 0)

(* The scan ends, for any number of workers and any inputs.                *)
ScanEnds == <>(main = "done")
=============================================================================
