------------------------------ MODULE Measuring ------------------------------
(***************************************************************************)
(* xtask latency, phases, memory and plots (main.rs, perf.rs, table.rs,    *)
(* plots.rs): every set is measured under a policy in a fetching mode, a   *)
(* file at a time, and a table is saved per set and policy.  The tables    *)
(* stay, and whatever is there when plots is run is drawn.  Of a row, the  *)
(* size and the time stand for its columns.  The clock is external.        *)
(***************************************************************************)
EXTENDS CorpusRun

CONSTANTS
  Files,      \* set -> its inputs in path order, [name, bytes, readable]
  Policies,   \* policy -> [slug, fetching, builds]: its file's stem, what it says
  Standard,   \* fetching -> the policy the ground truth names for it
  NoPolicy,   \* no policy was named
  Readings    \* what a clock may say

(* The files of a set have names of their own; the policies the ground     *)
(* truth names are two, each for the mode it is named for.                 *)
ASSUME MeasuringAssumption ==
  /\ \A set \in DOMAIN Files :
       /\ Files[set] \in Seq(ToSet(Files[set]))
       /\ \A k \in DOMAIN Files[set] : Files[set][k].bytes \in Nat
       /\ IsInjective([k \in DOMAIN Files[set] |-> Files[set][k].name])
  /\ NoPolicy \notin DOMAIN Policies
  /\ \A fetching \in BOOLEAN :
       /\ Standard[fetching] \in DOMAIN Policies
       /\ Policies[Standard[fetching]].fetching = fetching
  /\ Policies[Standard[FALSE]].slug # Policies[Standard[TRUE]].slug

(* How a measurement may be started.                                       *)
SurveyForm ==
  [kind : {"latency", "phases", "memory"}, sets : Seq(DOMAIN Files), modes : Seq(BOOLEAN),
   policy : DOMAIN Policies \cup {NoPolicy}, repeats : Nat]

VARIABLES
  survey,     \* [kind, sets, modes, policy, repeats]: how it was started
  left,       \* the runs that are left, the first of them under way
  underway,   \* it has been started
  inputs,     \* what is left to measure of it
  taken,      \* the rows of it, [name, bytes, us]
  results,    \* <<set, slug, kind>> -> [rows, fetching, policy, loads, fresh]
  surveyed,   \* "going", "ok", "error" or "killed"
  drawn       \* [told, charts]: whether plots ended well, and what it lists

surveyVars == <<survey, left, underway, inputs, taken, results, surveyed, drawn>>

(* A policy that was named is measured in its own mode, and only in it.    *)
SurveyAll(s) == Plan(s)
SurveyPlan(s) ==
  Plan([s EXCEPT !.modes = IF s.policy = NoPolicy THEN @ ELSE <<Policies[s.policy].fetching>>])

PolicyOf(run) == IF survey.policy = NoPolicy THEN Standard[run.fetching] ELSE survey.policy

Key(run) == <<run.set, Policies[PolicyOf(run)].slug, survey.kind>>

SurveyInit ==
  /\ left = SurveyPlan(survey)
  /\ underway = FALSE
  /\ inputs = <<>>
  /\ taken = <<>>
  /\ surveyed = "going"
  /\ drawn = [told |-> "not yet", charts |-> {}]

-----------------------------------------------------------------------------
(* A stable order: the k-th smallest is where the k-th index says.         *)
Order(keys) ==
  [k \in DOMAIN keys |->
     CHOOSE i \in DOMAIN keys :
       Cardinality({j \in DOMAIN keys :
                      \/ keys[j] < keys[i]
                      \/ keys[j] = keys[i] /\ j < i}) = k - 1]

Median(readings) ==
  IF readings = <<>> THEN 0 ELSE readings[Order(readings)[(Len(readings) \div 2) + 1]]

BySize(measures) ==
  LET order == Order([k \in DOMAIN measures |-> measures[k].bytes])
  IN  [k \in DOMAIN measures |-> measures[order[k]]]

(* Latency and phases read a file themselves, before and between measuring.*)
(* Memory has a child read it, which fails only over a fixture, and over a *)
(* policy that does not build; what the pipeline gives up on has no size.  *)
Unmeasurable(f) ==
  /\ ~f.readable
  /\ survey.kind # "memory" \/ left[1].fetching

Builds == Policies[PolicyOf(left[1])].builds

RowsOf(f) ==
  IF survey.kind = "memory"
  THEN {[name |-> f.name, bytes |-> b, us |-> 0] : b \in IF f.readable THEN {0, f.bytes} ELSE {0}}
  ELSE {[name |-> f.name, bytes |-> f.bytes, us |-> Median(readings)] :
          readings \in [1 .. survey.repeats -> Readings]}

StartRows ==
  /\ surveyed = "going"
  /\ left # <<>>
  /\ ~underway
  /\ IF Builds \/ survey.kind = "memory"
     THEN /\ underway' = TRUE
          /\ inputs' = Files[left[1].set]
          /\ taken' = <<>>
          /\ UNCHANGED surveyed
     ELSE surveyed' = "error" /\ UNCHANGED <<underway, inputs, taken>>
  /\ UNCHANGED <<survey, left, results, drawn>>

Measuring == surveyed = "going" /\ underway

TakeRow ==
  /\ Measuring
  /\ inputs # <<>>
  /\ IF Unmeasurable(inputs[1]) \/ ~Builds
     THEN surveyed' = "error" /\ UNCHANGED <<inputs, taken>>
     ELSE /\ taken' \in {Append(taken, row) : row \in RowsOf(inputs[1])}
          /\ inputs' = Tail(inputs)
          /\ UNCHANGED surveyed
  /\ UNCHANGED <<survey, left, underway, results, drawn>>

(* table::save(): the table that was there is gone once the file is made.  *)
Saved(measures, loads) ==
  [key \in DOMAIN results \cup {Key(left[1])} |->
     IF key = Key(left[1])
     THEN [rows |-> measures, fetching |-> left[1].fetching, policy |-> PolicyOf(left[1]),
           loads |-> loads, fresh |-> TRUE]
     ELSE results[key]]

Saving == Measuring /\ inputs = <<>>

SaveRows ==
  /\ Saving
  /\ results' = Saved(BySize(taken), TRUE)
  /\ left' = Tail(left)
  /\ underway' = FALSE
  /\ UNCHANGED <<survey, inputs, taken, surveyed, drawn>>

(* It is cut off between two rows, or within one.                          *)
CutOff ==
  \E n \in 0 .. Len(taken), loads \in BOOLEAN :
    /\ n = Len(taken) => loads
    /\ results' = Saved(SubSeq(BySize(taken), 1, n), loads)

(* It cannot be made, or not in full.                                      *)
SaveFails ==
  /\ Saving
  /\ surveyed' = "error"
  /\ UNCHANGED results \/ CutOff
  /\ UNCHANGED <<survey, left, underway, inputs, taken, drawn>>

(* It takes minutes, and may be stopped at any time, also while it saves.  *)
Interrupted ==
  /\ surveyed = "going"
  /\ surveyed' = "killed"
  /\ UNCHANGED results \/ (Saving /\ CutOff)
  /\ UNCHANGED <<survey, left, underway, inputs, taken, drawn>>

EndSurvey ==
  /\ surveyed = "going"
  /\ left = <<>>
  /\ surveyed' = "ok"
  /\ UNCHANGED <<survey, left, underway, inputs, taken, results, drawn>>

Surveyed == StartRows \/ TakeRow \/ SaveRows \/ SaveFails \/ Interrupted \/ EndSurvey

-----------------------------------------------------------------------------
(* Which mode a chart says its rows were measured in, by the directory: a  *)
(* policy's own, if it is none of the standard ones.                       *)
Conditions(slug) ==
  IF slug = Policies[Standard[FALSE]].slug THEN {FALSE}
  ELSE IF slug = Policies[Standard[TRUE]].slug THEN {TRUE}
  ELSE {Policies[p].fetching : p \in {q \in DOMAIN Policies : Policies[q].slug = slug}}

Loads(key) == key \in DOMAIN results /\ results[key].loads

(* The points a table has for a chart of its own, and for one of two: both *)
(* axes of a latency are logarithmic, as are those of compared phases.     *)
Points(key) ==
  {row \in ToSet(results[key].rows) : row.bytes > 0 /\ (key[3] = "latency" => row.us > 0)}
PairPoints(key) == {row \in Points(key) : key[3] = "phases" => row.us > 0}

Drawable == {key \in DOMAIN results : Loads(key) /\ Points(key) # {}}
Pairable == {key \in Drawable : PairPoints(key) # {}}

Chart(keys) == [key \in keys |-> Points(key)]

OwnCharts == {Chart({key}) : key \in Drawable}

(* Two policies over one set.                                              *)
Pairs ==
  {{p[1], p[2]} : p \in {q \in Pairable \X Pairable :
                          q[1][1] = q[2][1] /\ q[1][3] = q[2][3] /\ q[1][2] # q[2][2]}}

PairCharts == {[key \in pair |-> PairPoints(key)] : pair \in Pairs}

(* The sets side by side, without fetching, each as far as it can be read, *)
(* if both have a directory, which may be there without a table.           *)
SideBySide ==
  LET slug == Policies[Standard[FALSE]].slug
      read == {key \in {"benign", "malicious"} \X {slug} \X {"latency"} : Loads(key)}
      chart == Chart(read)
      there == {key[1] : key \in {k \in DOMAIN results : k[2] = slug}}
  IN  IF read = {} THEN {{}}
      ELSE IF there = {"benign", "malicious"} THEN {{chart}}
      ELSE {{}, {chart}}

(* plots::all(): a chart that cannot be made ends it, and nothing is told. *)
Draw ==
  /\ drawn.told = "not yet"
  /\ \/ drawn' = [told |-> "error", charts |-> {}]
     \/ \E side \in SideBySide :
          drawn' = [told |-> "ok", charts |-> OwnCharts \cup PairCharts \cup side]
  /\ UNCHANGED <<survey, left, underway, inputs, taken, results, surveyed>>

-----------------------------------------------------------------------------
Complete(key, table) ==
  LET names == [k \in DOMAIN table.rows |-> table.rows[k].name]
      files == Files[key[1]]
  IN  /\ table.loads
      /\ IsInjective(names) /\ ToSet(names) = {files[k].name : k \in DOMAIN files}
      /\ \A j, k \in DOMAIN table.rows : j < k => table.rows[j].bytes <= table.rows[k].bytes

(* A policy that is none of the standard ones, in a file named like one.   *)
Namesake(policy) ==
  \E fetching \in BOOLEAN :
    /\ policy \notin {Standard[FALSE], Standard[TRUE]}
    /\ Policies[policy].slug = Policies[Standard[fetching]].slug

CaptionHolds(key, table) == Namesake(table.policy) \/ table.fetching \in Conditions(key[2])

(* However a measurement ended, no table lacks a row but the one that was  *)
(* being written when the task failed or was killed; one that ended well   *)
(* has written all of its tables; and a chart says of each table in which  *)
(* mode it was measured, except of a policy that is a namesake of a        *)
(* standard one.                                                           *)
ResultsTold ==
  /\ \A key \in DOMAIN results :
       ~Complete(key, results[key]) =>
         surveyed \in {"error", "killed"} /\ underway /\ inputs = <<>> /\ key = Key(left[1])
  /\ surveyed = "ok" =>
       \A i \in DOMAIN SurveyPlan(survey) :
         LET key == Key(SurveyPlan(survey)[i])
         IN  key \in DOMAIN results /\ results[key].fresh
  /\ \A chart \in drawn.charts : \A key \in DOMAIN chart : CaptionHolds(key, results[key])
=============================================================================
