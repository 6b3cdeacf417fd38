------------------------------ MODULE Evaluation ------------------------------
(***************************************************************************)
(* The evaluation tasks from their arguments to their exit code (xtask,    *)
(* main.rs): correctness is CorpusRun, scenarios are Scenarios, latency,   *)
(* phases and memory are Measuring, after which plots may be run, and a    *)
(* coverage run hands over to another program.  An error and a task whose  *)
(* expectations were not met end in 1.                                     *)
(***************************************************************************)
EXTENDS Measuring, Scenarios

CONSTANTS
  Tasks,      \* ways to start a correctness task
  Surveys,    \* ways to start a measurement
  Earlier,    \* the tables an earlier one may have left
  Worlds,     \* surroundings a scenarios task may find
  Commands    \* the commands that are given

(* Tasks are of known sets; what an earlier measurement left is whole, and *)
(* of policies that have tables of their own.                              *)
ASSUME EvaluationAssumption ==
  /\ \A t \in Tasks : t.sets \in Seq(DOMAIN Samples) /\ t.modes \in Seq(BOOLEAN)
  /\ Surveys \subseteq SurveyForm
  /\ \A r \in Earlier : \A key \in DOMAIN r :
       Complete(key, r[key]) /\ CaptionHolds(key, r[key])

VARIABLES
  chosen,     \* the command
  tool,       \* coverage: "not run", or how the program it ran ended
  named,      \* the report coverage names: "none", "stale" or "fresh"
  report,     \* the report that is on disk
  code        \* the exit code: "none", "0" or "1"

mainVars == <<chosen, tool, named, report, code>>
vars == <<mainVars, corpusVars, surveyVars, scenarioVars>>

Init ==
  /\ chosen \in Commands
  /\ task \in Tasks
  /\ world \in Worlds
  /\ chosen # "correctness" => task = CHOOSE t \in Tasks : TRUE
  /\ survey \in Surveys
  /\ results \in Earlier
  /\ chosen # "measure" => /\ survey = CHOOSE s \in Surveys : TRUE
                           /\ results = CHOOSE r \in Earlier : TRUE
  /\ chosen # "scenarios" => world = CHOOSE w \in Worlds : TRUE
  /\ report \in IF chosen = "coverage" THEN {"none", "stale"} ELSE {"none"}
  /\ tool = "not run"
  /\ named = "none"
  /\ code = "none"
  /\ CorpusInit
  /\ SurveyInit
  /\ ScenarioInit

CorrectnessStep ==
  /\ chosen = "correctness"
  /\ Scored
  /\ UNCHANGED <<mainVars, surveyVars, scenarioVars>>

ScenarioStep ==
  /\ chosen = "scenarios"
  /\ Harness \/ Surroundings
  /\ UNCHANGED <<mainVars, corpusVars, surveyVars>>

MeasuringStep ==
  /\ chosen = "measure"
  /\ Surveyed
  /\ UNCHANGED <<mainVars, corpusVars, scenarioVars>>

(* What was measured is drawn by a task of its own.                        *)
PlotsStarts ==
  /\ chosen = "measure"
  /\ code # "none"
  /\ chosen' = "plots"
  /\ code' = "none"
  /\ UNCHANGED <<tool, named, report, corpusVars, surveyVars, scenarioVars>>

PlotsStep ==
  /\ chosen = "plots"
  /\ Draw
  /\ UNCHANGED <<mainVars, corpusVars, scenarioVars>>

-----------------------------------------------------------------------------
(* coverage::run(): tarpaulin, in a container or not, may not start, may   *)
(* end badly, and may have written its report even so.                     *)
RunTool ==
  /\ chosen = "coverage"
  /\ tool = "not run"
  /\ tool' \in {"missing", "ended badly", "ended well"}
  /\ report' \in CASE tool' = "missing"     -> {report}
                   [] tool' = "ended badly" -> {report, "fresh"}
                   [] tool' = "ended well"  -> {"fresh"}
  /\ UNCHANGED <<chosen, named, code, corpusVars, surveyVars, scenarioVars>>

(* A run that ended badly names a report only if it was written since.     *)
NameReport ==
  /\ chosen = "coverage"
  /\ tool # "not run"
  /\ code = "none"
  /\ named' = IF tool = "ended well" \/ report = "fresh" THEN report ELSE "none"
  /\ code' = IF tool = "ended well" THEN "0" ELSE "1"
  /\ UNCHANGED <<chosen, tool, report, corpusVars, surveyVars, scenarioVars>>

EndsWell ==
  CASE chosen = "correctness" -> ended = "ok"
    [] chosen = "scenarios"   -> exit = "0"
    [] chosen = "measure"     -> surveyed = "ok"
    [] chosen = "plots"       -> drawn.told = "ok"

(* dispatch() returns and main() exits, unless it was killed.              *)
Leave ==
  /\ code = "none"
  /\ CASE chosen = "correctness" -> ended # "going"
       [] chosen = "scenarios"   -> exit # "none"
       [] chosen = "measure"     -> surveyed # "going"
       [] chosen = "plots"       -> drawn.told # "not yet"
       [] chosen = "coverage"    -> FALSE
  /\ code' = IF EndsWell THEN "0" ELSE "1"
  /\ UNCHANGED <<chosen, tool, named, report, corpusVars, surveyVars, scenarioVars>>

Next ==
  \/ CorrectnessStep \/ ScenarioStep \/ MeasuringStep \/ PlotsStarts \/ PlotsStep
  \/ RunTool \/ NameReport \/ Leave

Spec == Init /\ [][Next]_vars
=============================================================================
