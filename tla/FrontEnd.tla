------------------------------- MODULE FrontEnd -------------------------------
(***************************************************************************)
(* The program from its arguments to its exit code (main.rs): the policy   *)
(* is settled, then a scan gathers its inputs (InputWalk), prepares its    *)
(* output directory, compiles the policy's lists, processes and writes, or *)
(* a server compiles and listens (Serve).  What the engine does to one     *)
(* input is Pipeline, and to many Batch.                                   *)
(***************************************************************************)
EXTENDS InputWalk, Serve, PolicyFile

CONSTANTS
  Starts      \* [command, fs, items]: how it may be started, and where

ConfigError == 2
NoExit == 256              \* no u8: the process still runs

(* An entry has a name that no other entry of its directory has, and a     *)
(* number of files that come out of it; no directory is inside itself.     *)
FileSystem(f) ==
  /\ IsFiniteSet(DOMAIN f) /\ Nowhere \notin DOMAIN f
  /\ \A e \in DOMAIN f :
       /\ f[e].name \in Nat /\ f[e].yields \in Nat
       /\ {f[e].parent, f[e].target} \subseteq DOMAIN f \cup {Nowhere}
       /\ f[e].parent # Nowhere => f[f[e].parent].kind = "dir"
       /\ \A d \in DOMAIN f \ {e} : f[d].parent = f[e].parent => f[d].name # f[e].name
  /\ \A inside \in SUBSET DOMAIN f :
       inside # {} => \E e \in inside : f[e].parent \notin inside

ASSUME StartsAssumption ==
  \A s \in Starts :
    /\ FileSystem(s.fs)
    /\ s.items \in Seq([kind : {"path", "url", "malformed", "unreadable list"},
                         entry : DOMAIN s.fs \cup {Nowhere}])

VARIABLES
  command,    \* [serve, file, flag, outOk, listsOk, bindOk]: how it was started
  stage,      \* where dispatch() or run() stands
  policy,     \* the effective policy
  emitted,    \* how many outcomes were emitted
  outDir,     \* the output directory was made or probed
  written,    \* the paths written so far, in order
  failed,     \* write_failures is not zero
  exit        \* the exit code, or NoExit

runVars == <<command, stage, policy, emitted, outDir, written, failed, exit>>
vars == <<gatherVars, serveVars, runVars>>

Init ==
  /\ \E s \in Starts : command = s.command /\ fs = s.fs /\ items = s.items
  /\ stage = "policy"
  /\ policy = Builtin
  /\ emitted = 0
  /\ outDir = FALSE
  /\ written = <<>>
  /\ failed = FALSE
  /\ exit = NoExit
  /\ guarded = TRUE
  /\ GatherInit
  /\ ServeInit

Exit(code) == exit' = code /\ stage' = "over"

-----------------------------------------------------------------------------
(* dispatch().                                                             *)
SettlePolicy ==
  /\ stage = "policy"
  /\ IF LoadError(command.file) # "none"
     THEN Exit(ConfigError) /\ UNCHANGED <<policy, guarded>>
     ELSE /\ policy' = Override(Load(command.file), command.flag)
          /\ guarded' = AppliesToServer(policy'.ssrf.guard_input_urls)
          /\ stage' = IF command.serve THEN "compile" ELSE "gather"
          /\ UNCHANGED exit
  /\ UNCHANGED <<command, emitted, outDir, written, failed, gatherVars>>
  /\ UNCHANGED <<server, asked, at, job, answer>>

GatherStep ==
  /\ stage = "gather"
  /\ Gather
  /\ UNCHANGED <<runVars, serveVars>>

(* Gathering that failed, or found neither an input nor a refused link,    *)
(* ends the run.                                                           *)
Gathered ==
  /\ stage = "gather"
  /\ gathered # "going"
  /\ IF gathered = "failed" \/ (inputs = <<>> /\ skipped = <<>>)
     THEN Exit(ConfigError)
     ELSE stage' = "prepare" /\ UNCHANGED exit
  /\ UNCHANGED <<command, policy, emitted, outDir, written, failed, gatherVars, serveVars>>

(* The output directory is made, and a probe written to it and removed,    *)
(* before anything is processed, and before the lists are looked at.       *)
PrepareOutDir ==
  /\ stage = "prepare"
  /\ IF command.outOk
     THEN outDir' = TRUE /\ stage' = "compile" /\ UNCHANGED exit
     ELSE outDir' \in BOOLEAN /\ Exit(ConfigError)
  /\ UNCHANGED <<command, policy, emitted, written, failed, gatherVars, serveVars>>

(* The client, its guard and the engine: every list of the policy is       *)
(* compiled, and one that is malformed is a configuration error.           *)
Compile ==
  /\ stage = "compile"
  /\ IF ~command.listsOk THEN Exit(ConfigError)
     ELSE stage' = (IF command.serve THEN "bind" ELSE "process") /\ UNCHANGED exit
  /\ UNCHANGED <<command, policy, emitted, outDir, written, failed, gatherVars, serveVars>>

-----------------------------------------------------------------------------
(* The last component of a path, if it has one.                            *)
FileName(path) == IF Last(path) \in Entry THEN fs[Last(path)].name ELSE 0

(* A bug in which the stem of an output is the name of its source alone.   *)
OutputNameBare(index, path) == [index |-> 0, name |-> FileName(path)]

(* OutputName::derive(): the position in the batch and the last component. *)
OutputName(index, path) == [index |-> index, name |-> FileName(path)]

(* The paths in the output directory: copies, the assets in a directory of *)
(* the same stem, and report.json.                                         *)
CopyOf(stem) == <<stem.index, stem.name>>
AssetOf(stem, slot) == <<stem.index, stem.name, slot>>
ReportPath == <<>>

Yield(path) == IF Last(path) \in Entry THEN fs[Last(path)].yields ELSE 0

(* The sanitised copy, if there is one, then each asset beside it.         *)
Outputs(index, path) ==
  LET stem == OutputName(index, path)
      copies == IF Yield(path) = 0 THEN <<>> ELSE <<CopyOf(stem)>>
      assets == [slot \in 1 .. Yield(path) - 1 |-> AssetOf(stem, slot)]
  IN  copies \o assets

(* The closure process_batch calls, in input order.                        *)
Emit ==
  /\ stage = "process"
  /\ emitted < Len(inputs)
  /\ LET path == inputs[emitted + 1].path IN
     /\ written' = written \o Outputs(emitted, path)
     /\ failed' \in IF Yield(path) = 0 THEN {failed} ELSE {failed, TRUE}
  /\ emitted' = emitted + 1
  /\ UNCHANGED <<command, stage, policy, outDir, exit, gatherVars, serveVars>>

(* The report, refused links last; it is written before failures count.    *)
WriteReport ==
  /\ stage = "process"
  /\ emitted = Len(inputs)
  /\ written' = Append(written, ReportPath)
  /\ \/ Exit(ConfigError)
     \/ \E refused \in BOOLEAN :
          Exit(IF failed THEN ConfigError ELSE IF refused THEN 1 ELSE 0)
  /\ UNCHANGED <<command, policy, emitted, outDir, failed, gatherVars, serveVars>>

-----------------------------------------------------------------------------
Bind ==
  /\ stage = "bind"
  /\ IF command.bindOk
     THEN Listen /\ stage' = "serve" /\ UNCHANGED exit
     ELSE Exit(ConfigError) /\ UNCHANGED serveVars
  /\ UNCHANGED <<command, policy, emitted, outDir, written, failed, gatherVars>>

ServeStep ==
  /\ stage = "serve"
  /\ Serving
  /\ UNCHANGED <<runVars, gatherVars>>

ServerDone ==
  /\ stage = "serve"
  /\ server = "stopped"
  /\ Exit(0)
  /\ UNCHANGED <<command, policy, emitted, outDir, written, failed, gatherVars, serveVars>>

Working ==
  \/ SettlePolicy \/ GatherStep \/ Gathered \/ PrepareOutDir \/ Compile
  \/ Emit \/ WriteReport \/ Bind \/ ServerDone

Next == Working \/ ServeStep

Spec == Init /\ [][Next]_vars

(* One thread does one thing after another, and the runtime serves.  No    *)
(* caller has to send, take its answer or hang up.                         *)
FairSpec ==
  /\ Spec
  /\ WF_vars(Working)
  /\ \A c \in Callers :
       /\ WF_vars(stage = "serve" /\ AnswerAtOnce(c) /\ UNCHANGED <<runVars, gatherVars>>)
       /\ WF_vars(stage = "serve" /\ Submit(c) /\ UNCHANGED <<runVars, gatherVars>>)
       /\ WF_vars(stage = "serve" /\ ThreadEnds(c) /\ UNCHANGED <<runVars, gatherVars>>)
       /\ WF_vars(stage = "serve" /\ Respond(c) /\ UNCHANGED <<runVars, gatherVars>>)
  /\ WF_vars(stage = "serve" /\ Stop /\ UNCHANGED <<runVars, gatherVars>>)

-----------------------------------------------------------------------------
FromTree == {i \in DOMAIN inputs : i > began /\ Len(inputs[i].path) > 1}

Leaf(i) == Last(inputs[i].path)

(* A walk takes what is in its tree, once each and in the order of the     *)
(* paths, whatever links lead out of the tree, round in it or nowhere; it  *)
(* enters every directory of the tree, by whatever name, once.             *)
InPathOrder ==
  \A i, j \in FromTree :
    i < j => PathBefore(inputs[i].path, inputs[j].path) /\ Leaf(i) # Leaf(j)

Confined == \A i \in FromTree : Leaf(i) \in TreeFiles(root)

Complete ==
  frames = <<>> /\ gathered # "failed" /\ root # Nowhere =>
    TreeFiles(root) \subseteq {Leaf(i) : i \in FromTree}

WalkExact == InPathOrder /\ Confined /\ Complete

(* Nothing is processed or written under a configuration that is in error, *)
(* an input list that cannot be read or a tree that cannot be walked; the  *)
(* exit code says so.  A key nobody knows is such an error.  All that may  *)
(* be left behind is an output directory, and that not by a policy or an   *)
(* input in error, nor by a server.  What a file and the flag leave alone  *)
(* is as cautious as the defaults.                                         *)
Unloadable ==
  \/ ~command.file.readable \/ ~command.file.parses
  \/ \E key \in DOMAIN command.file.keys : ~Known(key)

Unsound ==
  \/ Unloadable
  \/ ~command.listsOk
  \/ ~command.serve /\ (gathered = "failed" \/ ~command.outOk)

ConfigFirst ==
  /\ Unsound => emitted = 0 /\ written = <<>> /\ server = "down" /\ exit \in {NoExit, ConfigError}
  /\ Unloadable \/ gathered = "failed" \/ command.serve => ~outDir
  /\ written # <<>> => outDir
  /\ (\A k \in DOMAIN command.file.keys \ Bounding :
        command.file.keys[k] \notin {"allow", "never"}) => Acts(policy)
  /\ Bounding \cap DOMAIN command.file.keys = {} => Fits(policy)

(* No two outputs of a run share a path, whatever the inputs are called    *)
(* and however many assets come with them; none is the report's.           *)
OutputsApart == IsInjective(written)

(* A caller is answered about its own request: 200 exactly when the report *)
(* is not an error, which is then named; bytes come with no error; a URL   *)
(* is refused by the guard only where the policy has it on for callers.    *)
AnswersAgree ==
  \A c \in Callers : at[c] \in {"answering", "answered"} =>
    LET a == answer[c] IN
    /\ a.content => a.code = 200
    /\ a.report # "none" =>
         /\ a.report \in Statuses[InputKind(asked[c])]
         /\ a.code = 200 <=> a.error = "none"
         /\ Bucket(a.report) = "errored" => a.error = a.report
         /\ Bucket(a.report) = "ok" => a.content
    /\ a.report = "SsrfBlocked" => policy.ssrf.guard_input_urls # "never"

(* A scan ends, whatever the tree; a request that arrived whole is         *)
(* answered, or its caller hangs up, also after the signal; a server told  *)
(* to stop does, unless a caller holds it up for ever by a body it does    *)
(* not send or an answer it does not take.                                 *)
EverythingEnds ==
  /\ ~command.serve ~> exit # NoExit
  /\ \A c \in Callers : at[c] = "asking" ~> at[c] \in {"answering", "gone"}
  /\ (\A c \in Callers : []<>(at[c] \notin UpToCaller)) => (server = "draining" ~> exit = 0)
=============================================================================
