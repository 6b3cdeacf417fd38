------------------------------- MODULE Report -------------------------------
(***************************************************************************)
(* The run report and its summary (report.rs).  Only the thread that       *)
(* assembles the report calls Push; the summary is derived, counter by     *)
(* counter, as each per-input report is appended.                          *)
(***************************************************************************)
EXTENDS Naturals, Sequences, FiniteSets, FiniteSetsExt

InputStatus ==
  {"Sanitised", "Clean", "Refused", "BudgetExceeded", "FetchError", "IoError",
   "UnsupportedScheme", "MalformedUrl", "InternalError", "SsrfBlocked",
   "SkippedSymlink"}

Bucket(status) ==
  CASE status \in {"Sanitised", "Clean"} -> "ok"
    [] status \in {"Refused", "BudgetExceeded", "SsrfBlocked"} -> "refused"
    [] OTHER -> "errored"

(* A per-input report: its status and how many of its sub-resources ended  *)
(* in each status.  files counts the outputs that come with it.            *)
Outcome == [status : InputStatus, subs : [InputStatus -> Nat], files : Nat]

NoSubs == [s \in InputStatus |-> 0]

Failed(status) == [status |-> status, subs |-> NoSubs, files |-> 0]

RunSummary ==
  [total : Nat, ok : Nat, refused : Nat, errored : Nat,
   fetched : Nat, subsRefused : Nat, ssrf : Nat]

EmptyRun ==
  [total |-> 0, ok |-> 0, refused |-> 0, errored |-> 0,
   fetched |-> 0, subsRefused |-> 0, ssrf |-> 0]

Is(p) == IF p THEN 1 ELSE 0

Push(run, o) ==
  [total       |-> run.total + 1,
   ok          |-> run.ok + Is(Bucket(o.status) = "ok"),
   refused     |-> run.refused + Is(Bucket(o.status) = "refused"),
   errored     |-> run.errored + Is(Bucket(o.status) = "errored"),
   fetched     |-> run.fetched + o.subs["Sanitised"] + o.subs["Clean"],
   subsRefused |-> run.subsRefused + o.subs["Refused"] + o.subs["BudgetExceeded"]
                     + o.subs["SsrfBlocked"],
   ssrf        |-> run.ssrf + Is(o.status = "SsrfBlocked") + o.subs["SsrfBlocked"]]

ExitCode(run) == IF run.refused > 0 THEN 1 ELSE 0

-----------------------------------------------------------------------------
(* What the summary of a list of per-input reports should be, stated over  *)
(* the whole list at once.                                                 *)
Tally(inputs, S) ==
  Cardinality({i \in DOMAIN inputs : inputs[i].status \in S})

SubTally(inputs, S) ==
  MapThenSumSet(LAMBDA is : inputs[is[1]].subs[is[2]], (DOMAIN inputs) \X S)

OkStatus == {"Sanitised", "Clean"}
RefusedStatus == {"Refused", "BudgetExceeded", "SsrfBlocked"}

SummaryOf(inputs) ==
  [total       |-> Len(inputs),
   ok          |-> Tally(inputs, OkStatus),
   refused     |-> Tally(inputs, RefusedStatus),
   errored     |-> Tally(inputs, InputStatus \ (OkStatus \cup RefusedStatus)),
   fetched     |-> SubTally(inputs, OkStatus),
   subsRefused |-> SubTally(inputs, RefusedStatus),
   ssrf        |-> Tally(inputs, {"SsrfBlocked"}) + SubTally(inputs, {"SsrfBlocked"})]
=============================================================================
