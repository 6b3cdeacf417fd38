-------------------------- MODULE EvaluationProofs ---------------------------
(***************************************************************************)
(* Theorems about the evaluation tasks, for every world, every origin,     *)
(* every answer of the sanitiser and every order of modes.                 *)
(***************************************************************************)
EXTENDS Evaluation, SumProofs

ModeNames == {Modes[m] : m \in DOMAIN Modes}
NamesOf(suite) == IF suite = "origin" THEN Published ELSE <<Sentinel>>
Steps ==
  {"ensure", "await origin", "list", "start", "boot", "ask", "asking", "asleep", "judge", "stop",
   "save", "over"}

Places == [suite : {"origin", "local"}, mode : DOMAIN Modes, next : Nat \ {0}]
Children == [state : {"none", "booting", "serving", "dead"}, mode : ModeNames \cup {"none"}]
Traps == [open : BOOLEAN, backlog : Nat, accepted : Nat, polled : BOOLEAN]
Givers == ModeNames \cup {"none", "free", "other"}
ScenarioRows(suite) ==
  [suite : {suite}, mode : ModeNames, name : ToSet(NamesOf(suite)), by : Givers,
   reached : BOOLEAN, passed : BOOLEAN]
AllRows == ScenarioRows("origin") \cup ScenarioRows("local")

ScenarioType ==
  /\ step \in Steps
  /\ place \in Places
  /\ child \in Children
  /\ port \in {"free", "child", "other"}
  /\ intruder \in BOOLEAN
  /\ by \in Givers
  /\ trap \in Traps
  /\ reached \in BOOLEAN
  /\ rows \in Seq(AllRows)
  /\ exit \in {"none", "0", "1"}

-----------------------------------------------------------------------------
(* The child that is there was started for the mode under way, and it has  *)
(* the port only while it serves; another program has it when it was       *)
(* attached to or took it.                                                 *)
OwnServer ==
  /\ child.state # "none" => child.mode = Mode
  /\ port = "child" => child.state = "serving"
  /\ port = "other" => intruder \/ world.attach

(* Who gave the answer that waits to be judged.                            *)
AnswerOwned ==
  step \in {"asleep", "judge"} =>
    \/ by = Mode
    \/ by = "free" /\ answer.transport
    \/ by = "other" /\ (intruder \/ world.attach)

(* Whoever reached the sentinel is in its backlog or was counted, and was  *)
(* counted by the time the harness wakes.                                  *)
TrapHolds ==
  /\ trap.open => step \in {"asking", "asleep", "judge"} /\ place.suite = "local"
  /\ reached => trap.open /\ trap.backlog + trap.accepted > 0
  /\ step = "asking" => ~trap.polled
  /\ step = "judge" /\ place.suite = "local" => trap.polled
  /\ trap.polled /\ reached => trap.accepted > 0

(* Only scenarios there are get asked.                                     *)
Asked ==
  /\ step \in {"ask", "asking", "asleep", "judge"} => place.next <= Len(Names)
  /\ step \in {"start", "boot"} => place.next = 1
  /\ step \in {"ensure", "await origin", "list"} =>
       place = [suite |-> "origin", mode |-> 1, next |-> 1]

(* The scenario at n of a suite in the mode at m was asked about before.   *)
Behind(suite, m, n) ==
  \/ suite = "origin" /\ place.suite = "local"
  \/ suite = place.suite /\ m < place.mode
  \/ suite = place.suite /\ m = place.mode /\ (step \in {"stop", "save"} \/ n < place.next)

RowsBehind ==
  step # "over" =>
    \A i \in DOMAIN rows : \E m \in DOMAIN Modes, n \in DOMAIN NamesOf(rows[i].suite) :
      /\ rows[i].mode = Modes[m]
      /\ rows[i].name = NamesOf(rows[i].suite)[n]
      /\ Behind(rows[i].suite, m, n)

Keys == [i \in DOMAIN rows |-> <<rows[i].suite, rows[i].mode, rows[i].name>>]

(* As many rows as there were scenarios to ask about until here.           *)
BeforeSuite == IF place.suite = "local" THEN Len(Modes) * Len(Published) ELSE 0
BeforeMode == BeforeSuite + (place.mode - 1) * Len(Names)
Expected == BeforeMode + (IF step \in {"stop", "save"} THEN Len(Names) ELSE place.next - 1)

RowsCounted ==
  /\ step # "over" => Len(rows) = Expected
  /\ IsInjective(Keys)

RowsTrue ==
  \A i \in DOMAIN rows : rows[i].passed =>
    /\ ~rows[i].reached
    /\ \/ rows[i].by = rows[i].mode
       \/ rows[i].by = "other" /\ (intruder \/ world.attach)

Ended ==
  /\ (exit = "none") <=> (step # "over")
  /\ step \in {"save", "over"} => child = NoChild /\ ~trap.open
  /\ step = "save" => place.suite = "local" /\ place.mode = Len(Modes)
  /\ exit = "0" =>
       /\ \A i \in DOMAIN rows : rows[i].passed
       /\ Len(rows) = Len(Modes) * (Len(Published) + 1)

ScenarioInv ==
  /\ ScenarioType /\ OwnServer /\ AnswerOwned /\ TrapHolds /\ Asked /\ RowsBehind
  /\ RowsCounted /\ RowsTrue /\ Ended

-----------------------------------------------------------------------------
(* What the constants are to the proofs.                                   *)
LEMMA ListFacts ==
  /\ Len(Modes) \in Nat \ {0} /\ DOMAIN Modes = 1 .. Len(Modes)
  /\ \A suite : /\ Len(NamesOf(suite)) \in Nat
                /\ DOMAIN NamesOf(suite) = 1 .. Len(NamesOf(suite))
                /\ IsInjective(NamesOf(suite))
  /\ Len(NamesOf("origin")) = Len(Published) /\ Len(NamesOf("local")) = 1
<1>1. Len(Modes) \in Nat /\ DOMAIN Modes = 1 .. Len(Modes) /\ Len(Modes) # 0
  BY ScenariosAssumption
<1>2. Len(Published) \in Nat /\ DOMAIN Published = 1 .. Len(Published) /\ IsInjective(Published)
  BY ScenariosAssumption
<1>3. Len(<<Sentinel>>) = 1 /\ DOMAIN <<Sentinel>> = 1 .. 1 /\ IsInjective(<<Sentinel>>)
  BY DEF IsInjective
<1>. QED
  BY <1>1, <1>2, <1>3 DEF NamesOf

(* The names a suite asks about are those of the place it stands at.       *)
LEMMA PlaceFacts ==
  ASSUME place \in Places
  PROVE  /\ place.suite \in {"origin", "local"} /\ place.mode \in DOMAIN Modes
         /\ place.next \in Nat \ {0} /\ place.mode \in Nat \ {0}
         /\ Names = NamesOf(place.suite) /\ Mode \in ModeNames
<1>1. place.suite \in {"origin", "local"} /\ place.mode \in DOMAIN Modes /\ place.next \in Nat \ {0}
  BY DEF Places
<1>. QED
  BY <1>1, ListFacts DEF Names, NamesOf, Mode, ModeNames

(* Nothing has been asked or started yet.                                  *)
LEMMA InitScenarioInv == ScenarioInit => ScenarioInv
<1>. SUFFICES ASSUME ScenarioInit PROVE ScenarioInv
  OBVIOUS
<1>1. place = [suite |-> "origin", mode |-> 1, next |-> 1] /\ place \in Places
  BY ListFacts DEF ScenarioInit, Places
<1>2. child \in Children /\ trap \in Traps /\ rows \in Seq(AllRows) /\ Len(rows) = 0
  BY DEF ScenarioInit, Children, Traps, NoChild, NoTrap
<1>3. ScenarioType
  BY <1>1, <1>2 DEF ScenarioInit, ScenarioType, Steps, Givers
<1>4. OwnServer /\ AnswerOwned /\ TrapHolds /\ Asked
  BY <1>1 DEF ScenarioInit, OwnServer, AnswerOwned, TrapHolds, Asked, NoChild, NoTrap
<1>5. Len(Names) \in Nat
  BY <1>1, PlaceFacts, ListFacts
<1>6. DOMAIN rows = {}
  BY <1>2
<1>7. RowsBehind /\ RowsCounted /\ RowsTrue
  <2>1. IsInjective(Keys)
    BY <1>6 DEF IsInjective, Keys
  <2>2. Expected = 0
    BY <1>1, <1>5 DEF ScenarioInit, Expected, BeforeMode, BeforeSuite
  <2>. QED
    BY <1>2, <1>6, <2>1, <2>2 DEF RowsBehind, RowsCounted, RowsTrue
<1>8. Ended
  BY DEF ScenarioInit, Ended
<1>. QED
  BY <1>3, <1>4, <1>7, <1>8 DEF ScenarioInv

(* A step that writes no row and moves to no other scenario keeps what is  *)
(* known of the rows; the harness stops where nothing was left to ask.     *)
LEMMA SameRows ==
  ASSUME ScenarioInv, UNCHANGED <<rows, place, world>>, intruder => intruder', step # "over",
         \/ step' \in {step, "over"}
         \/ step = "stop" /\ step' = "save"
         \/ {step, step'} \cap {"stop", "save"} = {}
         \/ step' = "stop" /\ place.next = 1 /\ Len(Names) = 0
  PROVE  RowsBehind' /\ RowsCounted' /\ RowsTrue'
<1>1. place \in Places
  BY DEF ScenarioInv, ScenarioType
<1>2. RowsTrue'
  BY DEF ScenarioInv, RowsTrue
<1>3. IsInjective(Keys)'
  BY DEF ScenarioInv, RowsCounted, Keys
<1>4. CASE step' = "over"
  BY <1>2, <1>3, <1>4 DEF RowsBehind, RowsCounted
<1>5. CASE step' # "over"
  <2>1. \A suite, m, n : n \in Nat /\ Behind(suite, m, n) => Behind(suite, m, n)'
    BY <1>5, <1>1, PlaceFacts DEF Behind
  <2>2. RowsBehind'
    BY <1>5, <2>1, ListFacts DEF ScenarioInv, RowsBehind
  <2>3. Expected' = Expected
    <3>1. BeforeMode' = BeforeMode /\ Len(Names)' = Len(Names)
      BY DEF BeforeMode, BeforeSuite, Names
    <3>2. CASE step' = "stop" /\ place.next = 1 /\ Len(Names) = 0
      BY <1>1, <3>1, <3>2, PlaceFacts DEF Expected
    <3>3. CASE step \in {"stop", "save"} <=> step' \in {"stop", "save"}
      BY <3>1, <3>3 DEF Expected
    <3>. QED
      BY <1>5, <3>2, <3>3
  <2>. QED
    BY <1>2, <1>3, <2>2, <2>3 DEF ScenarioInv, RowsCounted
<1>. QED
  BY <1>4, <1>5

(* What a step that leaves the place, the rows and the exit alone has to   *)
(* show.                                                                   *)
LEMMA ByParts ==
  ASSUME ScenarioInv, UNCHANGED <<rows, place, world, exit>>, intruder => intruder',
         step # "over", step' # "over",
         step' = "save" => step = "save" /\ UNCHANGED <<child, trap>>,
         \/ step' = step
         \/ {step, step'} \cap {"stop", "save"} = {}
         \/ step' = "stop" /\ place.next = 1 /\ Len(Names) = 0,
         ScenarioType', OwnServer', AnswerOwned', TrapHolds', Asked'
  PROVE  ScenarioInv'
<1>1. RowsBehind' /\ RowsCounted' /\ RowsTrue'
  BY SameRows
<1>2. Ended'
  BY DEF ScenarioInv, Ended
<1>. QED
  BY <1>1, <1>2 DEF ScenarioInv

(* An error drops what the task had, and saves nothing.                    *)
LEMMA QuitScenarioInv ==
  ASSUME ScenarioInv, QuitFrom(step),
         step \in {"ensure", "await origin", "list", "start", "boot", "ask", "save"}
  PROVE  ScenarioInv'
<1>. USE DEF QuitFrom, Quit, Dropped, originVars
<1>1. ScenarioType'
  BY DEF ScenarioInv, ScenarioType, Steps, Children, Traps, NoChild, NoTrap
<1>2. OwnServer' /\ AnswerOwned' /\ TrapHolds' /\ Asked'
  <2>1. OwnServer'
    BY DEF ScenarioInv, ScenarioType, OwnServer, NoChild
  <2>2. ~reached'
    BY DEF ScenarioInv, TrapHolds
  <2>. QED
    BY <2>1, <2>2 DEF AnswerOwned, TrapHolds, Asked, NoTrap
<1>3. RowsBehind' /\ RowsCounted' /\ RowsTrue'
  BY SameRows
<1>4. Ended'
  BY DEF Ended, NoTrap
<1>. QED
  BY <1>1, <1>2, <1>3, <1>4 DEF ScenarioInv

(* The harness goes on to its next step without a scenario of its own.     *)
LEMMA GoScenarioInv ==
  ASSUME ScenarioInv, NEW to, Go(to), step # "over",
         \/ step = "ensure" /\ to \in {"await origin", "list"}
         \/ step = "await origin" /\ to = "list"
         \/ step = "list" /\ to = "start"
         \/ step \in {"start", "boot"} /\ to = IF Len(Names) = 0 THEN "stop" ELSE "ask"
         \/ step = "asleep" /\ trap.polled /\ to = "judge"
  PROVE  ScenarioInv'
<1>. USE DEF Go, originVars, serverVars, askVars
<1>1. ScenarioType'
  BY DEF ScenarioInv, ScenarioType, Steps
<1>2. OwnServer'
  BY DEF ScenarioInv, OwnServer, Mode
<1>3. AnswerOwned'
  BY DEF ScenarioInv, AnswerOwned, Mode
<1>4. TrapHolds'
  BY DEF ScenarioInv, TrapHolds
<1>5. place \in Places
  BY DEF ScenarioInv, ScenarioType
<1>6. Len(Names) \in Nat
  BY <1>5, PlaceFacts, ListFacts
<1>7. Names' = Names /\ place' = place /\ step' = to
  BY DEF Names
<1>8. Asked'
  <2>. HIDE DEF Go
  <2>1. CASE step \in {"ensure", "await origin", "list"}
    <3>1. place = [suite |-> "origin", mode |-> 1, next |-> 1]
      BY <2>1 DEF ScenarioInv, Asked
    <3>2. place.next = 1
      BY <3>1
    <3>3. step' \in {"await origin", "list", "start"}
      BY <1>7, <2>1
    <3>. QED
      BY <1>7, <3>1, <3>2, <3>3 DEF Asked
  <2>2. CASE step \in {"start", "boot"}
    <3>1. place.next = 1
      BY <2>2 DEF ScenarioInv, Asked
    <3>2. to = IF Len(Names) = 0 THEN "stop" ELSE "ask"
      BY <2>2
    <3>3. (step' = "ask" /\ 1 <= Len(Names)) \/ step' = "stop"
      BY <1>6, <1>7, <3>2
    <3>. QED
      BY <1>7, <3>1, <3>3 DEF Asked
  <2>3. CASE step = "asleep"
    BY <1>7, <2>3 DEF ScenarioInv, Asked
  <2>. QED
    BY <2>1, <2>2, <2>3
<1>. QED
  BY <1>1, <1>2, <1>3, <1>4, <1>8, ByParts DEF ScenarioInv, Asked

LEMMA StartScenarioInv ==
  ASSUME ScenarioInv, step = "start", port = "free", child' = [state |-> "booting", mode |-> Mode],
         step' = "boot", UNCHANGED <<originVars, place, port, intruder, askVars, rows, exit>>
  PROVE  ScenarioInv'
<1>. USE DEF originVars, askVars
<1>1. ScenarioType' /\ OwnServer'
  BY PlaceFacts DEF ScenarioInv, ScenarioType, Steps, Children, OwnServer, Mode
<1>2. AnswerOwned' /\ TrapHolds' /\ Asked'
  BY DEF ScenarioInv, AnswerOwned, TrapHolds, Asked
<1>. QED
  BY <1>1, <1>2, ByParts

(* What happens around the harness disturbs no answer it has.              *)
LEMMA ServerScenarioInv ==
  ASSUME ScenarioInv, ChildBinds \/ ChildDies \/ OtherBinds
  PROVE  ScenarioInv'
<1>. USE DEF ChildBinds, ChildDies, OtherBinds, Happens, originVars, askVars
<1>1. step # "over"
  BY DEF ScenarioInv, Ended, NoChild
<1>2. child' \in Children
  BY DEF ScenarioInv, ScenarioType, Children
<1>3. ScenarioType'
  BY <1>2 DEF ScenarioInv, ScenarioType
<1>4. OwnServer'
  BY <1>2 DEF ScenarioInv, ScenarioType, OwnServer, Children, Mode
<1>5. AnswerOwned'
  BY DEF ScenarioInv, ScenarioType, AnswerOwned, Mode
<1>6. TrapHolds'
  BY DEF ScenarioInv, TrapHolds
<1>7. Asked'
  BY DEF ScenarioInv, Asked, Names
<1>8. step' = step /\ (step = "save" => UNCHANGED <<child, trap>>)
  BY DEF ScenarioInv, Ended, NoChild
<1>. QED
  BY <1>1, <1>3, <1>4, <1>5, <1>6, <1>7, <1>8, ByParts

LEMMA PostScenarioInv ==
  ASSUME ScenarioInv, step = "ask", step' = "asking", reached' = FALSE,
         trap' = IF place.suite = "local" THEN [NoTrap EXCEPT !.open = TRUE] ELSE NoTrap,
         UNCHANGED <<originVars, place, serverVars, answer, by, rows, exit>>
  PROVE  ScenarioInv'
<1>. USE DEF originVars, serverVars
<1>1. trap' \in Traps /\ ~trap'.polled /\ (trap'.open => place.suite = "local")
  BY DEF Traps, NoTrap
<1>2. ScenarioType'
  BY <1>1 DEF ScenarioInv, ScenarioType, Steps
<1>3. OwnServer' /\ AnswerOwned' /\ TrapHolds' /\ Asked'
  BY <1>1 DEF ScenarioInv, OwnServer, AnswerOwned, TrapHolds, Asked, Mode, Names
<1>. QED
  BY <1>2, <1>3, ByParts

LEMMA ConnectScenarioInv ==
  ASSUME ScenarioInv, Connect
  PROVE  ScenarioInv'
<1>. USE DEF Connect, originVars, serverVars
<1>1. step \in {"asking", "asleep", "judge"} /\ trap \in Traps
  BY DEF ScenarioInv, ScenarioType, TrapHolds
<1>2. trap' = [trap EXCEPT !.backlog = 1] /\ trap' \in Traps
  BY <1>1 DEF Traps
<1>3. /\ trap'.open /\ trap'.backlog = 1 /\ trap'.accepted = trap.accepted
      /\ trap'.polled = trap.polled
  BY <1>1, <1>2 DEF Traps
<1>4. ScenarioType'
  BY <1>1, <1>2 DEF ScenarioInv, ScenarioType
<1>5. TrapHolds'
  <2>1. ~reached
    BY <1>1 DEF ScenarioInv, TrapHolds, Traps
  <2>2. reached' => step = "asking"
    BY <2>1
  <2>3. trap'.backlog + trap'.accepted > 0
    BY <1>3
  <2>. QED
    BY <1>1, <1>3, <2>2, <2>3 DEF ScenarioInv, TrapHolds
<1>6. OwnServer' /\ AnswerOwned' /\ Asked'
  BY DEF ScenarioInv, OwnServer, AnswerOwned, Asked, Mode, Names
<1>. QED
  BY <1>1, <1>4, <1>5, <1>6, ByParts

LEMMA PollScenarioInv ==
  ASSUME ScenarioInv, Poll
  PROVE  ScenarioInv'
<1>1. step \in {"asking", "asleep", "judge"} /\ trap \in Traps
  BY DEF Poll, ScenarioInv, ScenarioType, TrapHolds
<1>. DEFINE polled == trap.polled \/ step = "asleep"
            accepted == trap.accepted + trap.backlog
<1>2. trap' = [open |-> trap.open, backlog |-> 0, accepted |-> accepted, polled |-> polled]
  BY <1>1 DEF Poll, Traps
<1>3. trap' \in Traps
  <2>1. polled \in BOOLEAN
    OBVIOUS
  <2>2. trap.open \in BOOLEAN /\ accepted \in Nat
    BY <1>1 DEF Traps
  <2>. HIDE DEF polled, accepted
  <2>. QED
    BY <1>2, <2>1, <2>2 DEF Traps
<1>4. /\ trap'.open = trap.open /\ trap'.backlog = 0
      /\ trap'.accepted = trap.accepted + trap.backlog
      /\ trap'.polled <=> trap.polled \/ step = "asleep"
  BY <1>2
<1>. USE DEF Poll, originVars, serverVars
<1>5. ScenarioType'
  BY <1>1, <1>3 DEF ScenarioInv, ScenarioType
<1>6. TrapHolds'
  BY <1>1, <1>4 DEF ScenarioInv, TrapHolds, Traps
<1>7. OwnServer' /\ AnswerOwned' /\ Asked'
  BY DEF ScenarioInv, OwnServer, AnswerOwned, Asked, Mode, Names
<1>. QED
  BY <1>1, <1>5, <1>6, <1>7, ByParts

LEMMA AnsweredScenarioInv ==
  ASSUME ScenarioInv, Answered
  PROVE  ScenarioInv'
<1>. USE DEF Answered, originVars, serverVars
<1>1. place \in Places
  BY DEF ScenarioInv, ScenarioType
<1>2. port = "free" => by' = "free" /\ answer'.transport
  BY DEF NoAnswer
<1>3. port = "child" => by' = Mode /\ by' \in Givers
  BY <1>1, PlaceFacts DEF ScenarioInv, OwnServer, Givers
<1>4. port = "other" => by' = "other" /\ (intruder \/ world.attach)
  BY DEF ScenarioInv, OwnServer
<1>5. ScenarioType'
  BY <1>2, <1>3, <1>4 DEF ScenarioInv, ScenarioType, Steps, Givers
<1>6. AnswerOwned'
  BY <1>2, <1>3, <1>4 DEF ScenarioInv, ScenarioType, AnswerOwned, Mode
<1>7. OwnServer' /\ TrapHolds' /\ Asked'
  BY <1>1, PlaceFacts DEF ScenarioInv, OwnServer, TrapHolds, Asked, Mode, Names
<1>. QED
  BY <1>5, <1>6, <1>7, ByParts

-----------------------------------------------------------------------------
(* A row that passed was answered, and the sentinel had accepted nobody.   *)
LEMMA PassedRow ==
  ASSUME NEW mode, NEW name, NEW a, NEW n, Judge(mode, name, a, n) = {}
  PROVE  ~a.transport /\ ~(n > 0)
BY DEF Judge

(* The row that is judged is of a scenario nobody was asked about in this  *)
(* mode, and it is right about who answered it.                            *)
LEMMA RowFacts ==
  ASSUME ScenarioInv, step = "judge"
  PROVE  /\ Row \in AllRows
         /\ Row.passed =>
              /\ ~Row.reached
              /\ Row.by = Row.mode \/ (Row.by = "other" /\ (intruder \/ world.attach))
         /\ place.next \in DOMAIN Names
<1>1. place \in Places /\ by \in Givers /\ reached \in BOOLEAN /\ trap \in Traps
  BY DEF ScenarioInv, ScenarioType
<1>2. place.next \in DOMAIN Names /\ Names = NamesOf(place.suite)
  BY <1>1, PlaceFacts, ListFacts DEF ScenarioInv, Asked
<1>3. Name \in ToSet(NamesOf(place.suite))
  BY <1>2 DEF Name, ToSet
<1>. DEFINE passed == Judge(Mode, Name, answer, trap.accepted) = {}
<1>4. Row = [suite |-> place.suite, mode |-> Mode, name |-> Name, by |-> by,
             reached |-> reached, passed |-> passed]
  BY DEF Row
<1>5. passed \in BOOLEAN
  OBVIOUS
<1>6. passed => ~reached /\ (by = Mode \/ (by = "other" /\ (intruder \/ world.attach)))
  <2>. SUFFICES ASSUME passed
       PROVE  ~reached /\ (by = Mode \/ (by = "other" /\ (intruder \/ world.attach)))
    OBVIOUS
  <2>1. ~answer.transport /\ ~(trap.accepted > 0)
    BY PassedRow
  <2>2. ~reached
    BY <1>1, <2>1, PlaceFacts DEF ScenarioInv, TrapHolds
  <2>. QED
    BY <2>1, <2>2 DEF ScenarioInv, AnswerOwned
<1>. HIDE DEF passed
<1>7. Row \in ScenarioRows(place.suite)
  BY <1>1, <1>3, <1>4, <1>5, PlaceFacts DEF ScenarioRows
<1>. QED
  BY <1>1, <1>2, <1>4, <1>6, <1>7, PlaceFacts DEF AllRows

(* A row more: it is the one that was expected, and it is not there yet.   *)
LEMMA JudgeScenarioInv ==
  ASSUME ScenarioInv, JudgeRow
  PROVE  ScenarioInv'
<1>. DEFINE n == Len(rows)
            row == Row
<1>1. /\ step = "judge" /\ rows' = Append(rows, row) /\ trap' = NoTrap /\ reached' = FALSE
      /\ by' = "free" /\ UNCHANGED <<world, child, port, intruder, exit>>
  BY DEF JudgeRow, originVars, serverVars
<1>2. place \in Places /\ rows \in Seq(AllRows) /\ exit = "none"
  BY <1>1 DEF ScenarioInv, ScenarioType, Ended
<1>3. \/ /\ place.next < Len(Names) /\ step' = "ask"
         /\ place' = [place EXCEPT !.next = place.next + 1]
      \/ ~(place.next < Len(Names)) /\ step' = "stop" /\ place' = place
  BY DEF JudgeRow
<1>4. /\ place.next \in DOMAIN Names /\ Names = NamesOf(place.suite)
      /\ DOMAIN Names = 1 .. Len(Names) /\ Len(Names) \in Nat
  BY <1>1, <1>2, RowFacts, PlaceFacts, ListFacts
<1>5. /\ place'.suite = place.suite /\ place'.mode = place.mode /\ place' \in Places
      /\ \/ place.next < Len(Names) /\ step' = "ask" /\ place'.next = place.next + 1
         \/ place.next = Len(Names) /\ step' = "stop" /\ place'.next = place.next
  BY <1>2, <1>3, <1>4 DEF Places
<1>6. Names' = Names /\ Mode' = Mode
  BY <1>5 DEF Names, Mode
<1>7. /\ row \in AllRows
      /\ row.passed =>
           /\ ~row.reached
           /\ row.by = row.mode \/ (row.by = "other" /\ (intruder \/ world.attach))
  BY <1>1, RowFacts
<1>8. /\ row.suite = place.suite /\ row.mode = Modes[place.mode]
      /\ row.name = NamesOf(place.suite)[place.next]
  BY <1>4 DEF Row, Mode, Name
<1>. HIDE DEF row
<1>9. /\ rows' \in Seq(AllRows) /\ Len(rows') = n + 1 /\ n \in Nat
      /\ DOMAIN rows = 1 .. n /\ DOMAIN rows' = 1 .. n + 1
      /\ \A i \in 1 .. n : rows'[i] = rows[i]
      /\ rows'[n + 1] = row
  BY <1>1, <1>2, <1>7
<1>10. ScenarioType'
  BY <1>1, <1>5, <1>9 DEF ScenarioInv, ScenarioType, Steps, Givers, Traps, NoTrap
<1>11. OwnServer' /\ AnswerOwned'
  BY <1>1, <1>5, <1>6 DEF ScenarioInv, OwnServer, AnswerOwned
<1>12. TrapHolds'
  BY <1>1, <1>5 DEF TrapHolds, NoTrap
<1>13. Asked'
  <2>1. (step' = "ask" /\ place'.next <= Len(Names)) \/ step' = "stop"
    BY <1>2, <1>4, <1>5, PlaceFacts
  <2>. QED
    BY <1>6, <2>1 DEF Asked
<1>. DEFINE After(suite, a, b) ==
              \/ suite = "origin" /\ place'.suite = "local"
              \/ suite = place'.suite /\ a < place'.mode
              \/ suite = place'.suite /\ a = place'.mode /\ (step' = "stop" \/ b < place'.next)
<1>14. \A suite, a, b : b \in Nat /\ Behind(suite, a, b) => After(suite, a, b)
  BY <1>1, <1>2, <1>5, PlaceFacts DEF Behind
<1>15. After(place.suite, place.mode, place.next) /\ ~Behind(place.suite, place.mode, place.next)
  <2>1. place.mode \in Nat /\ place.next \in Nat
    BY <1>2, PlaceFacts
  <2>2. After(place.suite, place.mode, place.next)
    BY <1>5, <2>1
  <2>3. ~Behind(place.suite, place.mode, place.next)
    BY <1>1, <2>1 DEF Behind
  <2>. QED
    BY <2>2, <2>3
<1>16. RowsBehind'
  <2>. DEFINE Past(r) == \E a \in DOMAIN Modes, b \in DOMAIN NamesOf(r.suite) :
                           r.mode = Modes[a] /\ r.name = NamesOf(r.suite)[b] /\ After(r.suite, a, b)
  <2>1. Past(row)
    BY <1>2, <1>4, <1>8, <1>15, PlaceFacts
  <2>2. ASSUME NEW i \in 1 .. n PROVE Past(rows[i])
    <3>1. PICK a \in DOMAIN Modes, b \in DOMAIN NamesOf(rows[i].suite) :
            /\ rows[i].mode = Modes[a] /\ rows[i].name = NamesOf(rows[i].suite)[b]
            /\ Behind(rows[i].suite, a, b)
      BY <1>1, <1>9, <2>2 DEF ScenarioInv, RowsBehind
    <3>2. b \in Nat
      BY <3>1, ListFacts
    <3>3. After(rows[i].suite, a, b)
      BY <1>14, <3>1, <3>2
    <3>. HIDE DEF After
    <3>. QED
      BY <3>1, <3>3
  <2>3. ASSUME NEW i \in 1 .. n + 1 PROVE Past(rows'[i])
    <3>. HIDE DEF Past
    <3>. QED
      BY <1>9, <2>1, <2>2
  <2>. QED
    BY <1>9, <2>3 DEF RowsBehind, Behind
<1>17. Len(rows)' = Expected'
  <2>1. Len(rows) = Expected
    BY <1>1 DEF ScenarioInv, RowsCounted
  <2>2. BeforeMode' = BeforeMode
    BY <1>5, <1>6 DEF BeforeMode, BeforeSuite
  <2>3. Expected = BeforeMode + (place.next - 1)
    BY <1>1 DEF Expected
  <2>4. Expected' = BeforeMode + place.next
    BY <1>2, <1>4, <1>5, <1>6, <2>2, PlaceFacts DEF Expected
  <2>5. BeforeMode \in Int
    BY <1>2, <1>4, PlaceFacts, ListFacts DEF BeforeMode, BeforeSuite
  <2>. HIDE DEF n
  <2>. QED
    BY <1>2, <1>9, <2>1, <2>3, <2>4, <2>5, PlaceFacts
<1>18. IsInjective(Keys)'
  <2>1. ASSUME NEW i \in 1 .. n
        PROVE  ~(rows[i].suite = row.suite /\ rows[i].mode = row.mode /\ rows[i].name = row.name)
    <3>. SUFFICES ASSUME rows[i].suite = row.suite, rows[i].mode = row.mode, rows[i].name = row.name
                  PROVE  FALSE
      OBVIOUS
    <3>1. PICK a \in DOMAIN Modes, b \in DOMAIN NamesOf(rows[i].suite) :
            /\ rows[i].mode = Modes[a] /\ rows[i].name = NamesOf(rows[i].suite)[b]
            /\ Behind(rows[i].suite, a, b)
      BY <1>1, <1>9, <2>1 DEF ScenarioInv, RowsBehind
    <3>2. a = place.mode
      BY <1>2, <1>8, <3>1, PlaceFacts, ScenariosAssumption DEF IsInjective
    <3>3. b = place.next
      BY <1>4, <1>8, <3>1, ListFacts DEF IsInjective
    <3>. QED
      BY <1>8, <1>15, <3>1, <3>2, <3>3
  <2>2. IsInjective(Keys)
    BY DEF ScenarioInv, RowsCounted
  <2>3. ASSUME NEW i \in 1 .. n + 1, NEW j \in 1 .. n + 1,
               rows'[i].suite = rows'[j].suite, rows'[i].mode = rows'[j].mode,
               rows'[i].name = rows'[j].name
        PROVE  i = j
    <3>1. CASE i \in 1 .. n /\ j \in 1 .. n
      BY <1>9, <2>2, <2>3, <3>1 DEF IsInjective, Keys
    <3>. QED
      BY <1>9, <2>1, <2>3, <3>1
  <2>. QED
    BY <1>9, <2>3 DEF IsInjective, Keys
<1>19. RowsTrue'
  BY <1>1, <1>7, <1>9 DEF ScenarioInv, RowsTrue
<1>20. Ended'
  BY <1>1, <1>2, <1>5 DEF Ended
<1>. QED
  BY <1>10, <1>11, <1>12, <1>13, <1>16, <1>17, <1>18, <1>19, <1>20 DEF ScenarioInv, RowsCounted

(* What the counts of the rows come to when a mode or a suite is over.     *)
LEMMA Products ==
  /\ \A m \in Nat, l \in Nat : m # 0 => (m - 1) * l + l = m * l
  /\ \A m \in Nat, l \in Nat : m * (l + 1) = m * l + m
  /\ \A l \in Nat : (1 - 1) * l = 0
OBVIOUS

LEMMA NextModeInv ==
  ASSUME ScenarioInv, step = "stop", place.mode < Len(Modes),
         place' = [place EXCEPT !.mode = place.mode + 1, !.next = 1], step' = "start",
         Dropped, UNCHANGED <<exit, originVars, intruder, askVars, rows>>
  PROVE  ScenarioInv'
<1>. DEFINE coming == place.mode + 1
<1>1. place \in Places /\ rows \in Seq(AllRows)
  BY DEF ScenarioInv, ScenarioType
<1>2. /\ place'.suite = place.suite /\ place'.mode = coming /\ place'.next = 1
      /\ place' \in Places
  <2>1. coming \in DOMAIN Modes
    BY <1>1, PlaceFacts, ListFacts
  <2>2. place' = [suite |-> place.suite, mode |-> coming, next |-> 1]
    BY <1>1 DEF Places
  <2>3. place'.suite = place.suite /\ place'.mode = coming /\ place'.next = 1
    BY <2>2
  <2>4. place.suite \in {"origin", "local"} /\ 1 \in Nat \ {0}
    BY <1>1, PlaceFacts
  <2>5. place' \in Places
    BY <2>1, <2>2, <2>4 DEF Places
  <2>. QED
    BY <2>3, <2>5
<1>3. Names' = Names /\ BeforeSuite' = BeforeSuite
  BY <1>2 DEF Names, BeforeSuite
<1>4. ScenarioType'
  BY <1>2 DEF ScenarioInv, ScenarioType, Steps, Children, NoChild, Dropped, originVars, askVars
<1>5. OwnServer' /\ AnswerOwned' /\ TrapHolds' /\ Asked'
  <2>1. OwnServer'
    BY DEF ScenarioInv, ScenarioType, OwnServer, NoChild, Dropped, originVars, askVars
  <2>2. ~trap.open /\ ~reached
    BY DEF ScenarioInv, TrapHolds
  <2>. QED
    BY <1>2, <2>1, <2>2 DEF AnswerOwned, TrapHolds, Asked, originVars, askVars
<1>6. RowsBehind'
  <2>. DEFINE After(suite, a) ==
                \/ suite = "origin" /\ place'.suite = "local"
                \/ suite = place'.suite /\ a < place'.mode
  <2>1. \A suite, b : \A a \in Nat : Behind(suite, a, b) => After(suite, a)
    BY <1>1, <1>2, PlaceFacts DEF Behind
  <2>. HIDE DEF After
  <2>2. \A i \in DOMAIN rows : \E m \in DOMAIN Modes, n \in DOMAIN NamesOf(rows[i].suite) :
          /\ rows[i].mode = Modes[m] /\ rows[i].name = NamesOf(rows[i].suite)[n]
          /\ After(rows[i].suite, m)
    BY <2>1, ListFacts DEF ScenarioInv, RowsBehind
  <2>. QED
    BY <2>2 DEF RowsBehind, Behind, After
<1>7. RowsCounted' /\ RowsTrue'
  <2>1. Len(rows) = BeforeSuite + (place.mode - 1) * Len(Names) + Len(Names)
    BY DEF ScenarioInv, RowsCounted, Expected, BeforeMode
  <2>2. Expected' = BeforeSuite + (coming - 1) * Len(Names) + 0
    <3>1. BeforeMode' = BeforeSuite + (coming - 1) * Len(Names)
      BY <1>2, <1>3 DEF BeforeMode
    <3>2. (IF step \in {"stop", "save"} THEN Len(Names) ELSE place.next - 1)' = 0
      BY <1>2
    <3>. QED
      BY <3>1, <3>2 DEF Expected
  <2>3. BeforeSuite \in Nat /\ Len(Names) \in Nat /\ place.mode \in Nat \ {0}
    BY <1>1, PlaceFacts, ListFacts DEF BeforeSuite
  <2>4. (place.mode - 1) * Len(Names) + Len(Names) = place.mode * Len(Names)
    BY <2>3, Products
  <2>5. coming - 1 = place.mode
    BY <2>3
  <2>6. place.mode * Len(Names) \in Nat /\ (place.mode - 1) * Len(Names) \in Nat
    BY <2>3
  <2>7. Len(rows) = Expected'
    <3>. HIDE DEF coming
    <3>. QED
      BY <2>1, <2>2, <2>3, <2>4, <2>5, <2>6
  <2>. QED
    BY <2>7 DEF ScenarioInv, RowsCounted, RowsTrue, Keys, originVars
<1>8. Ended'
  BY DEF ScenarioInv, Ended
<1>. QED
  BY <1>4, <1>5, <1>6, <1>7, <1>8 DEF ScenarioInv

LEMMA NextSuiteInv ==
  ASSUME ScenarioInv, step = "stop", ~(place.mode < Len(Modes)), place.suite = "origin",
         place' = [suite |-> "local", mode |-> 1, next |-> 1], step' = "start",
         Dropped, UNCHANGED <<exit, originVars, intruder, askVars, rows>>
  PROVE  ScenarioInv'
<1>. USE DEF Dropped, originVars, askVars
<1>1. place \in Places /\ rows \in Seq(AllRows)
  BY DEF ScenarioInv, ScenarioType
<1>2. place'.suite = "local" /\ place'.mode = 1 /\ place'.next = 1 /\ place' \in Places
  BY ListFacts DEF Places
<1>3. ScenarioType'
  BY <1>2 DEF ScenarioInv, ScenarioType, Steps, Children, NoChild
<1>4. OwnServer' /\ AnswerOwned' /\ TrapHolds' /\ Asked'
  <2>1. OwnServer'
    BY DEF ScenarioInv, ScenarioType, OwnServer, NoChild
  <2>2. ~trap.open /\ ~reached
    BY DEF ScenarioInv, TrapHolds
  <2>. QED
    BY <1>2, <2>1, <2>2 DEF AnswerOwned, TrapHolds, Asked
<1>5. RowsBehind'
  <2>1. \A suite, a, b : Behind(suite, a, b) => suite = "origin"
    BY DEF Behind
  <2>. QED
    BY <1>2, <2>1 DEF ScenarioInv, RowsBehind, Behind
<1>6. RowsCounted' /\ RowsTrue'
  <2>1. place.mode = Len(Modes) /\ Len(Modes) \in Nat \ {0} /\ Len(Published) \in Nat
    BY <1>1, PlaceFacts, ListFacts
  <2>2. Len(rows) = (Len(Modes) - 1) * Len(Published) + Len(Published)
    BY <2>1 DEF ScenarioInv, RowsCounted, Expected, BeforeMode, BeforeSuite, Names
  <2>3. Expected' = Len(Modes) * Len(Published) + (1 - 1) * Len(<<Sentinel>>) + (1 - 1)
    BY <1>2 DEF Expected, BeforeMode, BeforeSuite, Names
  <2>4. Len(rows) = Len(Modes) * Len(Published)
    BY <2>1, <2>2, Products
  <2>5. Len(Modes) * Len(Published) \in Nat /\ Len(<<Sentinel>>) = 1
    BY <2>1
  <2>6. Expected' = Len(Modes) * Len(Published)
    BY <2>3, <2>5
  <2>. QED
    BY <2>4, <2>6 DEF ScenarioInv, RowsCounted, RowsTrue, Keys
<1>7. Ended'
  BY DEF ScenarioInv, Ended
<1>. QED
  BY <1>3, <1>4, <1>5, <1>6, <1>7 DEF ScenarioInv

LEMMA LastStopInv ==
  ASSUME ScenarioInv, step = "stop", ~(place.mode < Len(Modes)), place.suite # "origin",
         step' = "save", Dropped,
         UNCHANGED <<place, originVars, intruder, askVars, rows, exit>>
  PROVE  ScenarioInv'
<1>. USE DEF Dropped, originVars, askVars
<1>1. place \in Places /\ rows \in Seq(AllRows)
  BY DEF ScenarioInv, ScenarioType
<1>3. ScenarioType'
  BY DEF ScenarioInv, ScenarioType, Steps, Children, NoChild
<1>4. ~trap.open /\ ~reached
  BY DEF ScenarioInv, TrapHolds
<1>5. OwnServer' /\ AnswerOwned' /\ TrapHolds' /\ Asked'
  <2>1. OwnServer'
    BY DEF ScenarioInv, ScenarioType, OwnServer, NoChild
  <2>. QED
    BY <1>4, <2>1 DEF AnswerOwned, TrapHolds, Asked
<1>6. RowsBehind' /\ RowsCounted' /\ RowsTrue'
  BY SameRows
<1>7. place.mode = Len(Modes) /\ place.suite = "local"
  BY <1>1, PlaceFacts, ListFacts
<1>8. Ended'
  BY <1>4, <1>7 DEF ScenarioInv, Ended
<1>. QED
  BY <1>3, <1>5, <1>6, <1>8 DEF ScenarioInv

(* By then there is a row for every scenario in every mode.                *)
LEMMA SaveScenariosInv ==
  ASSUME ScenarioInv, step = "save", step' = "over",
         exit' = IF \A i \in DOMAIN rows : rows[i].passed THEN "0" ELSE "1",
         UNCHANGED <<originVars, place, serverVars, askVars, rows>>
  PROVE  ScenarioInv'
<1>. USE DEF originVars, serverVars, askVars
<1>1. place \in Places /\ place.mode = Len(Modes) /\ place.suite = "local"
  BY DEF ScenarioInv, ScenarioType, Ended
<1>2. exit' \in {"0", "1"}
  OBVIOUS
<1>3. ScenarioType'
  BY <1>2 DEF ScenarioInv, ScenarioType, Steps
<1>4. child = NoChild /\ ~trap.open /\ ~reached
  BY DEF ScenarioInv, TrapHolds, Ended
<1>5. OwnServer' /\ AnswerOwned' /\ TrapHolds' /\ Asked'
  <2>1. OwnServer'
    BY <1>4 DEF ScenarioInv, OwnServer, NoChild
  <2>. QED
    BY <1>4, <2>1 DEF AnswerOwned, TrapHolds, Asked
<1>6. RowsBehind' /\ RowsCounted' /\ RowsTrue'
  BY SameRows
<1>7. Len(rows) = Len(Modes) * (Len(Published) + 1)
  <2>1. Len(Modes) \in Nat \ {0} /\ Len(Published) \in Nat
    BY <1>1, PlaceFacts, ListFacts
  <2>2. Len(Names) = 1
    BY <1>1, <2>1, ListFacts DEF Names, NamesOf
  <2>3. Len(rows) = Len(Modes) * Len(Published) + (Len(Modes) - 1) * 1 + 1
    BY <1>1, <2>2 DEF ScenarioInv, RowsCounted, Expected, BeforeMode, BeforeSuite
  <2>. QED
    BY <2>1, <2>3, Products
<1>8. Ended'
  BY <1>2, <1>4, <1>7 DEF Ended
<1>. QED
  BY <1>3, <1>5, <1>6, <1>8 DEF ScenarioInv

(* The end of a mode starts the next one, the next suite, or the saving.   *)
LEMMA StopScenarioInv ==
  ASSUME ScenarioInv, Stop
  PROVE  ScenarioInv'
<1>. DEFINE same == UNCHANGED <<originVars, intruder, askVars, rows>>
<1>1. step = "stop" /\ Dropped /\ same
  BY DEF Stop
<1>2. CASE place.mode < Len(Modes)
  <2>1. /\ place' = [place EXCEPT !.mode = place.mode + 1, !.next = 1] /\ step' = "start"
        /\ UNCHANGED exit
    BY <1>2 DEF Stop
  <2>. QED
    BY <1>1, <1>2, <2>1, NextModeInv
<1>3. CASE ~(place.mode < Len(Modes)) /\ place.suite = "origin"
  <2>1. place' = [suite |-> "local", mode |-> 1, next |-> 1] /\ step' = "start" /\ UNCHANGED exit
    BY <1>3 DEF Stop
  <2>. QED
    BY <1>1, <1>3, <2>1, NextSuiteInv
<1>4. CASE ~(place.mode < Len(Modes)) /\ place.suite # "origin"
  <2>1. step' = "save" /\ UNCHANGED <<place, exit>>
    BY <1>4 DEF Stop
  <2>. QED
    BY <1>1, <1>4, <2>1, LastStopInv
<1>. QED
  BY <1>2, <1>3, <1>4

(* The origin begins to answer.                                            *)
LEMMA OriginScenarioInv ==
  ASSUME ScenarioInv, OriginComesUp
  PROVE  ScenarioInv'
<1>. USE DEF OriginComesUp, serverVars, askVars
<1>1. ScenarioType' /\ OwnServer' /\ AnswerOwned' /\ TrapHolds' /\ Asked'
  BY DEF ScenarioInv, ScenarioType, OwnServer, AnswerOwned, TrapHolds, Asked, Mode, Names
<1>. QED
  BY <1>1, ByParts

(* Every step of the harness, by the kind of step it is.                   *)
LEMMA HarnessScenarioInv ==
  ASSUME ScenarioInv, Harness
  PROVE  ScenarioInv'
<1>1. CASE Ensure
  BY <1>1, GoScenarioInv, QuitScenarioInv DEF Ensure, QuitFrom
<1>2. CASE OriginAwaited
  BY <1>2, GoScenarioInv, QuitScenarioInv DEF OriginAwaited, QuitFrom
<1>3. CASE LoadScenarios
  BY <1>3, GoScenarioInv, QuitScenarioInv DEF LoadScenarios, QuitFrom
<1>4. CASE Start
  BY <1>4, GoScenarioInv, QuitScenarioInv, StartScenarioInv DEF Start, QuitFrom, GoAsk
<1>5. CASE Booted
  BY <1>5, GoScenarioInv, QuitScenarioInv DEF Booted, QuitFrom, GoAsk
<1>6. CASE Post
  BY <1>6, PostScenarioInv, QuitScenarioInv DEF Post, QuitFrom
<1>7. CASE WakeUp
  BY <1>7, GoScenarioInv DEF WakeUp
<1>8. CASE JudgeRow
  BY <1>8, JudgeScenarioInv
<1>9. CASE Stop
  BY <1>9, StopScenarioInv
<1>10. CASE SaveScenarios
  BY <1>10, SaveScenariosInv, QuitScenarioInv DEF SaveScenarios, QuitFrom
<1>. QED
  BY <1>1, <1>2, <1>3, <1>4, <1>5, <1>6, <1>7, <1>8, <1>9, <1>10 DEF Harness

(* The other tasks leave the scenarios alone.                              *)
LEMMA SameScenarioInv ==
  ASSUME ScenarioInv, UNCHANGED scenarioVars
  PROVE  ScenarioInv'
<1>. USE DEF scenarioVars, originVars, serverVars, askVars
<1>1. ScenarioType' /\ OwnServer' /\ AnswerOwned' /\ TrapHolds' /\ Asked'
  <2>1. ScenarioType' /\ OwnServer'
    BY DEF ScenarioInv, ScenarioType, OwnServer, Mode
  <2>2. AnswerOwned' /\ TrapHolds'
    BY DEF ScenarioInv, AnswerOwned, TrapHolds, Mode
  <2>3. Asked'
    BY DEF ScenarioInv, Asked, Names
  <2>. QED
    BY <2>1, <2>2, <2>3
<1>2. RowsBehind' /\ RowsCounted' /\ RowsTrue'
  BY DEF ScenarioInv, RowsBehind, Behind, RowsCounted, Keys, Expected, BeforeMode, BeforeSuite,
         Names, RowsTrue
<1>3. Ended'
  BY DEF ScenarioInv, Ended
<1>. QED
  BY <1>1, <1>2, <1>3 DEF ScenarioInv

LEMMA NextScenarioInv ==
  ASSUME ScenarioInv, [Next]_vars
  PROVE  ScenarioInv'
<1>1. CASE ScenarioStep
  <2>1. Harness \/ Surroundings
    BY <1>1 DEF ScenarioStep
  <2>. QED
    BY <2>1, HarnessScenarioInv, OriginScenarioInv, ServerScenarioInv, ConnectScenarioInv,
       AnsweredScenarioInv, PollScenarioInv DEF Surroundings
<1>2. CASE UNCHANGED scenarioVars
  BY <1>2, SameScenarioInv
<1>3. ~ScenarioStep => UNCHANGED scenarioVars
  BY DEF Next, vars, CorrectnessStep, MeasuringStep, PlotsStarts, PlotsStep, RunTool, NameReport, Leave
<1>. QED
  BY <1>1, <1>2, <1>3

(* scenarios/mod.rs: a row that passed is the answer of the server that    *)
(* was started for its mode, or of one the task did not start, where it    *)
(* was told to attach or another took the port, and of a page that reached *)
(* nobody; the task ends well only when every scenario passed once in      *)
(* every mode, and leaves no server behind.                                *)
THEOREM ScenariosAreTold == Spec => []ScenariosTold
<1>1. Init => ScenarioInv
  BY InitScenarioInv DEF Init
<1>2. ScenarioInv /\ [Next]_vars => ScenarioInv'
  BY NextScenarioInv
<1>3. ScenarioInv => ScenariosTold
  BY DEF ScenarioInv, ScenariosTold, RowsTrue, RowsCounted, Keys, Ended
<1>. QED
  BY <1>1, <1>2, <1>3, PTL DEF Spec

-----------------------------------------------------------------------------
(* An index over the pairs of two lists is one of each (main.rs plans the  *)
(* runs in two nested loops).                                              *)
LEMMA PairOfIndex ==
  ASSUME NEW n \in Nat, NEW m \in Nat, NEW k \in 1 .. n * m
  PROVE  /\ ((k - 1) \div m) + 1 \in 1 .. n
         /\ ((k - 1) % m) + 1 \in 1 .. m
<1>1. m > 0 /\ n * m \in Nat
  <2>1. n * 0 = 0 /\ n * m \in Nat
    OBVIOUS
  <2>2. m # 0
    BY <2>1
  <2>. QED
    BY <2>1, <2>2
<1>. DEFINE q == (k - 1) \div m
            r == (k - 1) % m
<1>2. q \in Nat /\ r \in 0 .. m - 1 /\ k - 1 = m * q + r
  BY <1>1
<1>. HIDE DEF q, r
<1>3. q < n
  <2>. SUFFICES ASSUME q >= n PROVE FALSE
    BY <1>2
  <2>1. PICK d \in Nat : q = n + d
    <3>1. q - n \in Nat /\ q = n + (q - n)
      BY <1>2
    <3>. QED
      BY <3>1
  <2>2. m * q = n * m + m * d
    BY <2>1
  <2>3. m * d \in Nat
    BY <2>1
  <2>4. m * q \in Nat /\ m * q >= n * m
    BY <1>1, <2>2, <2>3
  <2>. QED
    BY <1>1, <1>2, <2>4
<1>4. q + 1 \in 1 .. n /\ r + 1 \in 1 .. m
  BY <1>2, <1>3
<1>. QED
  BY <1>4 DEF q, r

(* The plan has a run of each mode for each set that was asked for.        *)
LEMMA PlanIs ==
  ASSUME NEW S, NEW M, NEW t, t.sets \in Seq(S), t.modes \in Seq(M)
  PROVE  Plan(t) \in Seq([set : S, fetching : M])
<1>. DEFINE n == Len(t.sets)
            m == Len(t.modes)
            entry(k) == [set      |-> t.sets[((k - 1) \div m) + 1],
                         fetching |-> t.modes[((k - 1) % m) + 1]]
<1>1. n \in Nat /\ m \in Nat /\ \A i \in 1 .. n : t.sets[i] \in S
  OBVIOUS
<1>2. \A i \in 1 .. m : t.modes[i] \in M
  OBVIOUS
<1>3. Plan(t) = [k \in 1 .. n * m |-> entry(k)]
  BY DEF Plan
<1>. HIDE DEF n, m
<1>4. n * m \in Nat
  BY <1>1
<1>5. ASSUME NEW k \in 1 .. n * m PROVE entry(k) \in [set : S, fetching : M]
  BY <1>1, <1>2, PairOfIndex
<1>. HIDE DEF entry
<1>. DEFINE l == n * m
<1>6. Plan(t) = [k \in 1 .. l |-> entry(k)] /\ l \in Nat /\ \A k \in 1 .. l : entry(k) \in [set : S, fetching : M]
  BY <1>3, <1>4, <1>5
<1>. HIDE DEF l
<1>. QED
  BY <1>6

(* The k-th smallest is where the k-th index says, each index says one and *)
(* each is said, as ties are settled by place (rows are sorted by size).   *)
LEMMA OrderIs ==
  ASSUME NEW n \in Nat, NEW keys \in [1 .. n -> Nat]
  PROVE  /\ Order(keys) \in [1 .. n -> 1 .. n]
         /\ \A j, k \in 1 .. n : Order(keys)[j] = Order(keys)[k] => j = k
         /\ \A i \in 1 .. n : \E k \in 1 .. n : Order(keys)[k] = i
         /\ \A j, k \in 1 .. n : j < k => keys[Order(keys)[j]] <= keys[Order(keys)[k]]
<1>. DEFINE I == 1 .. n
            InFront(j, i) == keys[j] < keys[i] \/ (keys[j] = keys[i] /\ j < i)
            Before(i) == {j \in I : InFront(j, i)}
            rank == [i \in I |-> Cardinality(Before(i))]
            order == Order(keys)
<1>1. IsFiniteSet(I) /\ Cardinality(I) = n
  BY FS_Interval
<1>2. order = [k \in I |-> CHOOSE i \in I : Cardinality(Before(i)) = k - 1]
  <2>1. DOMAIN keys = I
    OBVIOUS
  <2>2. Order(keys) = [k \in DOMAIN keys |->
                         CHOOSE i \in DOMAIN keys :
                           Cardinality({j \in DOMAIN keys :
                                          \/ keys[j] < keys[i]
                                          \/ keys[j] = keys[i] /\ j < i}) = k - 1]
    BY DEF Order
  <2>. HIDE DEF I
  <2>. QED
    BY <2>1, <2>2, Zenon
<1>3. /\ \A i \in I : ~InFront(i, i)
      /\ \A i, j, k \in I : InFront(i, j) /\ InFront(j, k) => InFront(i, k)
      /\ \A i, j \in I : i # j => InFront(i, j) \/ InFront(j, i)
      /\ \A i, j \in I : InFront(i, j) => keys[i] <= keys[j]
  <2>1. \A i \in I : keys[i] \in Nat /\ i \in Nat
    OBVIOUS
  <2>. QED
    BY <2>1
<1>. HIDE DEF InFront, order, I
<1>4. ASSUME NEW i \in I PROVE rank[i] \in 0 .. n - 1 /\ rank[i] = Cardinality(Before(i))
  <2>1. Before(i) \in SUBSET I /\ i \notin Before(i)
    BY <1>3
  <2>2. /\ IsFiniteSet(Before(i)) /\ Cardinality(Before(i)) <= n /\ Cardinality(Before(i)) # n
    BY <1>1, <2>1, FS_Subset
  <2>3. Cardinality(Before(i)) \in Nat
    BY <2>2, FS_CardinalityType
  <2>4. rank[i] = Cardinality(Before(i))
    OBVIOUS
  <2>. HIDE DEF Before, rank
  <2>. QED
    BY <2>2, <2>3, <2>4
<1>5. ASSUME NEW i \in I, NEW j \in I, InFront(i, j) PROVE rank[i] < rank[j]
  <2>1. Before(i) \in SUBSET Before(j)
    BY <1>3, <1>5
  <2>2. i \in Before(j) /\ i \notin Before(i)
    BY <1>3, <1>5
  <2>3. IsFiniteSet(Before(j))
    BY <1>1, FS_Subset
  <2>. HIDE DEF Before, rank
  <2>4. /\ Cardinality(Before(i)) <= Cardinality(Before(j))
        /\ Cardinality(Before(i)) # Cardinality(Before(j))
    BY <2>1, <2>2, <2>3, FS_Subset
  <2>5. /\ rank[i] \in 0 .. n - 1 /\ rank[i] = Cardinality(Before(i))
        /\ rank[j] \in 0 .. n - 1 /\ rank[j] = Cardinality(Before(j))
    BY <1>4
  <2>. QED
    BY <2>4, <2>5
<1>6. rank \in [I -> 0 .. n - 1]
  BY <1>4
<1>. HIDE DEF Before, rank
<1>7. ASSUME NEW i \in I, NEW j \in I, rank[i] = rank[j] PROVE i = j
  <2>1. rank[i] \in 0 .. n - 1 /\ rank[j] \in 0 .. n - 1
    BY <1>6
  <2>. QED
    BY <1>3, <1>5, <1>7, <2>1
<1>8. rank \in Injection(I, 0 .. n - 1)
  BY <1>6, <1>7 DEF Injection, IsInjective
<1>9. IsFiniteSet(0 .. n - 1) /\ Cardinality(0 .. n - 1) = n
  <2>1. n - 1 \in Int /\ (0 > n - 1 => n = 0) /\ (n - 1) - 0 + 1 = n
    OBVIOUS
  <2>. DEFINE last == n - 1
  <2>2. IsFiniteSet(0 .. last) /\ Cardinality(0 .. last) = IF 0 > last THEN 0 ELSE last - 0 + 1
    <3>. HIDE DEF last
    <3>1. last \in Int
      BY <2>1 DEF last
    <3>. QED
      BY <3>1, FS_Interval
  <2>. QED
    BY <2>1, <2>2
<1>10. rank \in Surjection(I, 0 .. n - 1)
  BY <1>1, <1>8, <1>9, FS_Injection
<1>11. ASSUME NEW k \in I PROVE order[k] \in I /\ rank[order[k]] = k - 1
  <2>1. k - 1 \in 0 .. n - 1
    BY DEF I
  <2>2. PICK i \in I : rank[i] = k - 1
    BY <1>10, <2>1 DEF Surjection
  <2>3. Cardinality(Before(i)) = k - 1
    BY <1>4, <2>2
  <2>4. order[k] = CHOOSE j \in I : Cardinality(Before(j)) = k - 1
    BY <1>2
  <2>5. order[k] \in I /\ Cardinality(Before(order[k])) = k - 1
    BY <2>3, <2>4
  <2>. QED
    BY <1>4, <2>5
<1>12. order \in [I -> I]
  BY <1>2, <1>11
<1>13. \A j, k \in I : order[j] = order[k] => j = k
  <2>1. \A k \in I : k \in Nat
    BY DEF I
  <2>. QED
    BY <1>11, <2>1
<1>14. ASSUME NEW i \in I PROVE \E k \in I : order[k] = i
  <2>1. rank[i] \in 0 .. n - 1
    BY <1>6
  <2>2. rank[i] + 1 \in I /\ (rank[i] + 1) - 1 = rank[i]
    BY <2>1 DEF I
  <2>. QED
    BY <1>7, <1>11, <2>2
<1>15. ASSUME NEW j \in I, NEW k \in I, j < k PROVE keys[order[j]] <= keys[order[k]]
  <2>1. /\ order[j] \in I /\ order[k] \in I /\ rank[order[j]] = j - 1 /\ rank[order[k]] = k - 1
    BY <1>11
  <2>2. order[j] # order[k] /\ ~(rank[order[k]] < rank[order[j]])
    BY <1>15, <2>1 DEF I
  <2>3. InFront(order[j], order[k])
    BY <1>3, <1>5, <2>1, <2>2
  <2>. QED
    BY <1>3, <2>1, <2>3
<1>. QED
  BY <1>12, <1>13, <1>14, <1>15 DEF I, order

-----------------------------------------------------------------------------
(* The runs a measurement may plan: under a policy that was named they are *)
(* all in the mode that policy is for.                                     *)
RunsOf(s) ==
  [set : DOMAIN Files,
   fetching : IF s.policy = NoPolicy THEN BOOLEAN ELSE {Policies[s.policy].fetching}]

KeyOf(s, run) ==
  <<run.set, Policies[IF s.policy = NoPolicy THEN Standard[run.fetching] ELSE s.policy].slug, s.kind>>

Planned == SurveyPlan(survey)
Done == Len(Planned) - Len(left)

Timings == {0} \cup {Median(readings) : readings \in UNION {[1 .. n -> Readings] : n \in Nat}}
RowsTaken(set) ==
  [name : {Files[set][k].name : k \in DOMAIN Files[set]}, bytes : Nat, us : Timings]

SurveyType ==
  /\ survey \in Surveys
  /\ left \in Seq(RunsOf(survey)) /\ Len(left) <= Len(Planned)
  /\ surveyed \in {"going", "ok", "error", "killed"}
  /\ underway \in BOOLEAN

(* What is left is the end of the plan, and what is not left was saved.    *)
PlanKept ==
  /\ \A j \in 1 .. Len(left) : left[j] = Planned[Done + j]
  /\ \A i \in 1 .. Done : LET key == KeyOf(survey, Planned[i])
                      IN  key \in DOMAIN results /\ results[key].fresh
  /\ surveyed = "ok" => left = <<>>

(* The rows of the run under way are of the files that are not left.       *)
RowsKept ==
  underway =>
    /\ left # <<>>
    /\ LET files == Files[left[1].set]
       IN  /\ taken \in Seq(RowsTaken(left[1].set))
           /\ inputs \in Seq(ToSet(files))
           /\ Len(taken) + Len(inputs) = Len(files)
           /\ \A i \in 1 .. Len(taken) : taken[i].name = files[i].name
           /\ \A i \in 1 .. Len(inputs) : inputs[i] = files[Len(taken) + i]

TablesWhole ==
  \A key \in DOMAIN results :
    ~Complete(key, results[key]) =>
      /\ surveyed \in {"error", "killed"} /\ underway /\ inputs = <<>>
      /\ key = KeyOf(survey, left[1])

Captions == \A key \in DOMAIN results : CaptionHolds(key, results[key])
ChartsKnown == \A chart \in drawn.charts : DOMAIN chart \subseteq DOMAIN results

SurveyInv ==
  SurveyType /\ PlanKept /\ RowsKept /\ TablesWhole /\ Captions /\ ChartsKnown

LEMMA PlannedIs ==
  ASSUME survey \in Surveys
  PROVE  Planned \in Seq(RunsOf(survey))
<1>. DEFINE modes == IF survey.policy = NoPolicy THEN survey.modes
                     ELSE <<Policies[survey.policy].fetching>>
            M == IF survey.policy = NoPolicy THEN BOOLEAN ELSE {Policies[survey.policy].fetching}
            t == [survey EXCEPT !.modes = modes]
<1>1. survey \in SurveyForm
  BY EvaluationAssumption
<1>2. t.sets \in Seq(DOMAIN Files) /\ t.modes = modes
  BY <1>1 DEF SurveyForm
<1>3. modes \in Seq(M)
  <2>1. CASE survey.policy = NoPolicy
    BY <1>1, <2>1 DEF SurveyForm
  <2>2. CASE survey.policy # NoPolicy
    BY <2>2
  <2>. QED
    BY <2>1, <2>2
<1>4. Planned = Plan(t)
  BY DEF Planned, SurveyPlan
<1>. HIDE DEF modes, M, t
<1>5. Plan(t) \in Seq([set : DOMAIN Files, fetching : M])
  BY <1>2, <1>3, PlanIs
<1>. QED
  BY <1>4, <1>5 DEF RunsOf, M

(* A table's caption is the mode of the policy its rows were measured      *)
(* under, and that is the mode they were measured in.                      *)
LEMMA CaptionOfRun ==
  ASSUME survey \in Surveys, NEW run \in RunsOf(survey), NEW table,
         table.fetching = run.fetching, table.policy = PolicyOf(run)
  PROVE  CaptionHolds(Key(run), table)
<1>1. Key(run)[2] = Policies[PolicyOf(run)].slug
  BY DEF Key
<1>2. survey.policy \in DOMAIN Policies \cup {NoPolicy}
  BY EvaluationAssumption DEF SurveyForm
<1>. DEFINE policy == PolicyOf(run)
<1>3. policy \in DOMAIN Policies /\ run.fetching = Policies[policy].fetching
  BY <1>2, MeasuringAssumption DEF RunsOf, PolicyOf
<1>. HIDE DEF policy
<1>4. ASSUME NEW b \in BOOLEAN, policy = Standard[b]
      PROVE  run.fetching \in Conditions(Policies[policy].slug)
  <2>1. Conditions(Policies[policy].slug) = {b}
    BY <1>4, MeasuringAssumption DEF Conditions
  <2>2. run.fetching = b
    BY <1>3, <1>4, MeasuringAssumption
  <2>. QED
    BY <2>1, <2>2
<1>5. CASE policy \notin {Standard[FALSE], Standard[TRUE]} /\ ~Namesake(policy)
  <2>1. /\ Policies[policy].slug # Policies[Standard[FALSE]].slug
        /\ Policies[policy].slug # Policies[Standard[TRUE]].slug
    BY <1>5 DEF Namesake
  <2>2. run.fetching \in Conditions(Policies[policy].slug)
    BY <1>3, <2>1 DEF Conditions
  <2>. QED
    BY <1>1, <2>2 DEF CaptionHolds, policy
<1>. QED
  BY <1>1, <1>4, <1>5 DEF CaptionHolds, policy

(* Rows of every file once, sorted by size, are a whole table.             *)
LEMMA SortedIsComplete ==
  ASSUME NEW key, key[1] \in DOMAIN Files, NEW rs \in Seq(RowsTaken(key[1])),
         Len(rs) = Len(Files[key[1]]),
         \A i \in 1 .. Len(rs) : rs[i].name = Files[key[1]][i].name,
         NEW table, table.rows = BySize(rs), table.loads
  PROVE  Complete(key, table)
<1>. DEFINE n == Len(rs)
            files == Files[key[1]]
            keys == [k \in DOMAIN rs |-> rs[k].bytes]
            order == Order(keys)
            sorted == BySize(rs)
<1>1. /\ n \in Nat /\ DOMAIN rs = 1 .. n
      /\ \A i \in 1 .. n : rs[i].bytes \in Nat
  <2>1. n \in Nat /\ DOMAIN rs = 1 .. n /\ \A i \in 1 .. n : rs[i] \in RowsTaken(key[1])
    OBVIOUS
  <2>2. \A row \in RowsTaken(key[1]) : row.bytes \in Nat
    BY DEF RowsTaken
  <2>. QED
    BY <2>1, <2>2
<1>2. DOMAIN files = 1 .. n
  BY MeasuringAssumption
<1>3. \A i, j \in 1 .. n : files[i].name = files[j].name => i = j
  <2>1. IsInjective([k \in DOMAIN files |-> files[k].name])
    BY MeasuringAssumption
  <2>. QED
    BY <1>2, <2>1 DEF IsInjective
<1>4. keys \in [1 .. n -> Nat] /\ \A i \in 1 .. n : keys[i] = rs[i].bytes
  BY <1>1
<1>5. sorted = [k \in 1 .. n |-> rs[order[k]]]
  BY <1>1 DEF BySize
<1>. HIDE DEF n, files, keys, order, sorted
<1>6. /\ order \in [1 .. n -> 1 .. n]
      /\ \A j, k \in 1 .. n : order[j] = order[k] => j = k
      /\ \A i \in 1 .. n : \E k \in 1 .. n : order[k] = i
      /\ \A j, k \in 1 .. n : j < k => keys[order[j]] <= keys[order[k]]
  BY <1>1, <1>4, OrderIs DEF order
<1>. DEFINE names == [k \in DOMAIN table.rows |-> table.rows[k].name]
<1>7. table.rows = sorted /\ DOMAIN sorted = 1 .. n /\ names = [k \in 1 .. n |-> sorted[k].name]
  BY <1>5 DEF sorted
<1>8. \A k \in 1 .. n : sorted[k].name = files[order[k]].name /\ sorted[k].bytes = keys[order[k]]
  BY <1>4, <1>5, <1>6 DEF n, files
<1>9. IsInjective(names)
  <2>1. ASSUME NEW j \in 1 .. n, NEW k \in 1 .. n, names[j] = names[k] PROVE j = k
    <3>1. files[order[j]].name = files[order[k]].name
      BY <1>7, <1>8, <2>1
    <3>2. order[j] \in 1 .. n /\ order[k] \in 1 .. n
      BY <1>6
    <3>3. order[j] = order[k]
      BY <1>3, <3>1, <3>2, Zenon
    <3>. QED
      BY <1>6, <3>3, Zenon
  <2>2. DOMAIN names = 1 .. n
    BY <1>7
  <2>. HIDE DEF names
  <2>. QED
    BY <2>1, <2>2 DEF IsInjective
<1>10. ToSet(names) = {files[k].name : k \in DOMAIN files}
  <2>1. ToSet(names) = {sorted[k].name : k \in 1 .. n}
    <3>1. names = [k \in 1 .. n |-> sorted[k].name]
      BY <1>7
    <3>. HIDE DEF names
    <3>. QED
      BY <3>1 DEF ToSet
  <2>2. ASSUME NEW k \in 1 .. n PROVE \E i \in 1 .. n : sorted[k].name = files[i].name
    BY <1>6, <1>8
  <2>3. ASSUME NEW i \in 1 .. n PROVE \E k \in 1 .. n : sorted[k].name = files[i].name
    <3>1. PICK k \in 1 .. n : order[k] = i
      BY <1>6, Zenon
    <3>2. sorted[k].name = files[order[k]].name
      BY <1>8, Zenon
    <3>. QED
      BY <3>1, <3>2, Zenon
  <2>4. {files[k].name : k \in DOMAIN files} = {files[k].name : k \in 1 .. n}
    BY <1>2, Zenon
  <2>5. {sorted[k].name : k \in 1 .. n} = {files[k].name : k \in 1 .. n}
    <3>1. ASSUME NEW x \in {sorted[k].name : k \in 1 .. n} PROVE x \in {files[k].name : k \in 1 .. n}
      BY <2>2
    <3>2. ASSUME NEW x \in {files[k].name : k \in 1 .. n} PROVE x \in {sorted[k].name : k \in 1 .. n}
      BY <2>3
    <3>. QED
      BY <3>1, <3>2
  <2>. QED
    BY <2>1, <2>4, <2>5, Zenon
<1>11. \A j, k \in DOMAIN table.rows : j < k => table.rows[j].bytes <= table.rows[k].bytes
  <2>1. ASSUME NEW j \in 1 .. n, NEW k \in 1 .. n, j < k PROVE sorted[j].bytes <= sorted[k].bytes
    BY <1>6, <1>8, <2>1
  <2>. QED
    BY <1>7, <2>1
<1>. QED
  BY <1>9, <1>10, <1>11 DEF Complete, files

(* The table a run belongs to.                                             *)
LEMMA KeyIs == \A run : Key(run) = KeyOf(survey, run)
BY DEF Key, KeyOf, PolicyOf

(* Nothing is measured yet; what is there is what an earlier task left.    *)
LEMMA InitSurveyInv == Init => SurveyInv
<1>. SUFFICES ASSUME Init PROVE SurveyInv
  OBVIOUS
<1>1. survey \in Surveys /\ results \in Earlier /\ SurveyInit
  BY DEF Init
<1>2. left = Planned /\ Planned \in Seq(RunsOf(survey)) /\ Len(Planned) \in Nat
  <2>1. left = Planned
    BY <1>1 DEF SurveyInit, Planned
  <2>2. Planned \in Seq(RunsOf(survey))
    BY <1>1, PlannedIs
  <2>. QED
    BY <2>1, <2>2
<1>3. SurveyType
  <2>1. surveyed = "going" /\ underway = FALSE
    BY <1>1 DEF SurveyInit
  <2>2. left \in Seq(RunsOf(survey)) /\ Len(left) <= Len(Planned)
    BY <1>2
  <2>. QED
    BY <1>1, <2>1, <2>2 DEF SurveyType
<1>4. PlanKept
  <2>1. Done = 0
    BY <1>2 DEF Done
  <2>2. surveyed # "ok"
    BY <1>1 DEF SurveyInit
  <2>. QED
    BY <1>2, <2>1, <2>2 DEF PlanKept
<1>5. RowsKept /\ TablesWhole /\ Captions /\ ChartsKnown
  BY <1>1, EvaluationAssumption DEF SurveyInit, RowsKept, TablesWhole, Captions, ChartsKnown
<1>. QED
  BY <1>3, <1>4, <1>5 DEF SurveyInv

(* The run under way is one of the plan.                                   *)
LEMMA FirstRun ==
  ASSUME SurveyInv, left # <<>>
  PROVE  left[1] \in RunsOf(survey) /\ left[1].set \in DOMAIN Files /\ Len(left) \in Nat \ {0}
<1>1. left \in Seq(RunsOf(survey))
  BY DEF SurveyInv, SurveyType
<1>2. left[1] \in RunsOf(survey) /\ Len(left) \in Nat \ {0}
  BY <1>1
<1>3. \A run \in RunsOf(survey) : run.set \in DOMAIN Files
  BY DEF RunsOf
<1>. QED
  BY <1>2, <1>3

(* A run is taken up: all of its files are left to measure.                *)
LEMMA StartRowsInv ==
  ASSUME SurveyInv, StartRows
  PROVE  SurveyInv'
<1>1. /\ surveyed = "going" /\ left # <<>> /\ ~underway /\ UNCHANGED <<survey, left, results, drawn>>
      /\ \/ underway' = TRUE /\ inputs' = Files[left[1].set] /\ taken' = <<>> /\ surveyed' = surveyed
         \/ surveyed' = "error" /\ UNCHANGED <<underway, inputs, taken>>
  BY DEF StartRows
<1>2. SurveyType'
  BY <1>1 DEF SurveyInv, SurveyType, Planned
<1>3. PlanKept'
  BY <1>1 DEF SurveyInv, PlanKept, Done, Planned
<1>4. RowsKept'
  <2>. SUFFICES ASSUME underway' = TRUE, inputs' = Files[left[1].set], taken' = <<>> PROVE RowsKept'
    BY <1>1 DEF RowsKept
  <2>1. left[1].set \in DOMAIN Files
    BY <1>1, FirstRun
  <2>2. Files[left[1].set] \in Seq(ToSet(Files[left[1].set]))
    BY <2>1, MeasuringAssumption
  <2>. DEFINE files == Files[left[1].set]
  <2>3. taken' \in Seq(RowsTaken(left[1].set)) /\ Len(taken') = 0
    OBVIOUS
  <2>. HIDE DEF files
  <2>4. Len(files) \in Nat /\ files \in Seq(ToSet(files)) /\ inputs' = files
    BY <2>2 DEF files
  <2>. QED
    BY <1>1, <2>3, <2>4 DEF RowsKept, files
<1>5. TablesWhole' /\ Captions' /\ ChartsKnown'
  BY <1>1 DEF SurveyInv, TablesWhole, Captions, ChartsKnown
<1>. QED
  BY <1>2, <1>3, <1>4, <1>5 DEF SurveyInv

(* A row is of a file of the run, whatever the clock and the child say.    *)
LEMMA RowIsTaken ==
  ASSUME SurveyInv, NEW set \in DOMAIN Files, NEW k \in DOMAIN Files[set],
         NEW row \in RowsOf(Files[set][k])
  PROVE  row \in RowsTaken(set) /\ row.name = Files[set][k].name
<1>. DEFINE f == Files[set][k]
<1>1. f.bytes \in Nat /\ survey.repeats \in Nat
  BY MeasuringAssumption, EvaluationAssumption DEF SurveyInv, SurveyType, SurveyForm
<1>2. PICK b \in Nat, us \in Timings : row = [name |-> f.name, bytes |-> b, us |-> us]
  <2>1. CASE survey.kind = "memory"
    <3>1. PICK b \in IF f.readable THEN {0, f.bytes} ELSE {0} :
            row = [name |-> f.name, bytes |-> b, us |-> 0]
      BY <2>1 DEF RowsOf
    <3>2. b \in Nat /\ 0 \in Timings
      BY <1>1, <3>1 DEF Timings
    <3>. QED
      BY <3>1, <3>2
  <2>2. CASE survey.kind # "memory"
    <3>1. PICK readings \in [1 .. survey.repeats -> Readings] :
            row = [name |-> f.name, bytes |-> f.bytes, us |-> Median(readings)]
      BY <2>2 DEF RowsOf
    <3>2. Median(readings) \in Timings
      BY <1>1 DEF Timings
    <3>. QED
      BY <1>1, <3>1, <3>2
  <2>. QED
    BY <2>1, <2>2
<1>3. f.name \in {Files[set][j].name : j \in DOMAIN Files[set]}
  OBVIOUS
<1>. HIDE DEF f
<1>. QED
  BY <1>2, <1>3 DEF RowsTaken, f

(* A row more is one of the run, and no file has two.                      *)
LEMMA TakeRowInv ==
  ASSUME SurveyInv, TakeRow
  PROVE  SurveyInv'
<1>1. /\ surveyed = "going" /\ underway /\ inputs # <<>>
      /\ UNCHANGED <<survey, left, underway, results, drawn>>
      /\ \/ surveyed' = "error" /\ UNCHANGED <<inputs, taken>>
         \/ /\ \E row \in RowsOf(inputs[1]) : taken' = Append(taken, row)
            /\ inputs' = Tail(inputs) /\ surveyed' = surveyed
  BY DEF TakeRow, Measuring
<1>2. SurveyType'
  BY <1>1 DEF SurveyInv, SurveyType, Planned
<1>3. PlanKept'
  BY <1>1 DEF SurveyInv, PlanKept, Done, Planned
<1>4. RowsKept'
  <2>. SUFFICES ASSUME NEW row \in RowsOf(inputs[1]), taken' = Append(taken, row),
                       inputs' = Tail(inputs)
                PROVE  RowsKept'
    BY <1>1 DEF SurveyInv, RowsKept
  <2>. DEFINE set == left[1].set
              files == Files[set]
              n == Len(taken)
  <2>1. /\ left # <<>> /\ taken \in Seq(RowsTaken(set)) /\ inputs \in Seq(ToSet(files))
        /\ n + Len(inputs) = Len(files)
        /\ \A i \in 1 .. n : taken[i].name = files[i].name
        /\ \A i \in 1 .. Len(inputs) : inputs[i] = files[n + i]
    BY <1>1 DEF SurveyInv, RowsKept
  <2>2. set \in DOMAIN Files
    BY <2>1, FirstRun
  <2>3. files \in Seq(ToSet(files))
    BY <2>2, MeasuringAssumption
  <2>. HIDE DEF set, files
  <2>4. /\ n \in Nat /\ Len(inputs) \in Nat \ {0} /\ inputs[1] = files[n + 1]
        /\ n + 1 \in DOMAIN files
    BY <1>1, <2>1, <2>3
  <2>5. row \in RowsTaken(set) /\ row.name = files[n + 1].name
    BY <2>2, <2>4, RowIsTaken DEF files
  <2>6. /\ taken' \in Seq(RowsTaken(set)) /\ Len(taken') = n + 1
        /\ \A i \in 1 .. n : taken'[i] = taken[i]
        /\ taken'[n + 1] = row
    BY <2>1, <2>5
  <2>7. /\ inputs' \in Seq(ToSet(files)) /\ Len(inputs') = Len(inputs) - 1
        /\ \A i \in 1 .. Len(inputs') : inputs'[i] = inputs[i + 1]
    BY <2>1, <2>4
  <2>. HIDE DEF n
  <2>8. Len(taken') + Len(inputs') = Len(files)
    BY <2>1, <2>4, <2>6, <2>7
  <2>9. \A i \in 1 .. Len(taken') : taken'[i].name = files[i].name
    BY <2>1, <2>4, <2>5, <2>6
  <2>10. \A i \in 1 .. Len(inputs') : inputs'[i] = files[Len(taken') + i]
    <3>. SUFFICES ASSUME NEW i \in 1 .. Len(inputs') PROVE inputs'[i] = files[Len(taken') + i]
      OBVIOUS
    <3>1. i + 1 \in 1 .. Len(inputs) /\ n + (i + 1) = Len(taken') + i
      BY <2>4, <2>6, <2>7
    <3>. QED
      BY <2>1, <2>7, <3>1
  <2>. QED
    BY <1>1, <2>1, <2>6, <2>7, <2>8, <2>9, <2>10 DEF RowsKept, set, files
<1>5. TablesWhole' /\ Captions' /\ ChartsKnown'
  BY <1>1 DEF SurveyInv, TablesWhole, Captions, ChartsKnown
<1>. QED
  BY <1>2, <1>3, <1>4, <1>5 DEF SurveyInv

(* The table of the run under way is made anew, and the others stay.       *)
LEMMA SavedIs ==
  ASSUME NEW rs, NEW loads, results' = Saved(rs, loads)
  PROVE  LET key == KeyOf(survey, left[1]) IN
         /\ DOMAIN results' = DOMAIN results \cup {key}
         /\ \A other \in DOMAIN results : other # key => results'[other] = results[other]
         /\ results'[key].fresh /\ results'[key].loads = loads /\ results'[key].rows = rs
         /\ results'[key].fetching = left[1].fetching /\ results'[key].policy = PolicyOf(left[1])
<1>. DEFINE key == KeyOf(survey, left[1])
            table == [rows |-> rs, fetching |-> left[1].fetching, policy |-> PolicyOf(left[1]),
                      loads |-> loads, fresh |-> TRUE]
<1>1. results' = [k \in DOMAIN results \cup {key} |-> IF k = key THEN table ELSE results[k]]
  BY KeyIs DEF Saved
<1>2. /\ table.fresh /\ table.loads = loads /\ table.rows = rs
      /\ table.fetching = left[1].fetching /\ table.policy = PolicyOf(left[1])
  OBVIOUS
<1>. HIDE DEF key, table
<1>3. /\ DOMAIN results' = DOMAIN results \cup {key}
      /\ \A other \in DOMAIN results : other # key => results'[other] = results[other]
      /\ results'[key] = table
  BY <1>1
<1>. QED
  BY <1>2, <1>3 DEF key

(* Whatever is saved for a run, its caption is true, and no chart loses a  *)
(* table it was drawn of.                                                  *)
LEMMA SavedCaptions ==
  ASSUME SurveyInv, left # <<>>, NEW rs, NEW loads, results' = Saved(rs, loads), drawn' = drawn
  PROVE  Captions' /\ ChartsKnown'
<1>. DEFINE key == KeyOf(survey, left[1])
<1>1. /\ DOMAIN results' = DOMAIN results \cup {key}
      /\ \A other \in DOMAIN results : other # key => results'[other] = results[other]
      /\ results'[key].fetching = left[1].fetching /\ results'[key].policy = PolicyOf(left[1])
  BY SavedIs
<1>2. CaptionHolds(key, results'[key])
  BY <1>1, FirstRun, CaptionOfRun, KeyIs DEF SurveyInv, SurveyType
<1>. HIDE DEF key
<1>. QED
  BY <1>1, <1>2 DEF SurveyInv, Captions, ChartsKnown

(* A table that was saved whole has a row of every file.                   *)
LEMMA SaveRowsInv ==
  ASSUME SurveyInv, SaveRows
  PROVE  SurveyInv'
<1>. DEFINE key == KeyOf(survey, left[1])
<1>1. /\ surveyed = "going" /\ underway /\ inputs = <<>> /\ results' = Saved(BySize(taken), TRUE)
      /\ left' = Tail(left) /\ underway' = FALSE
      /\ UNCHANGED <<survey, inputs, taken, surveyed, drawn>>
  BY DEF SaveRows, Saving, Measuring
<1>2. /\ left # <<>> /\ left \in Seq(RunsOf(survey)) /\ Len(left) \in Nat \ {0}
      /\ Len(left) <= Len(Planned) /\ Len(Planned) \in Nat
  <2>1. left # <<>> /\ survey \in Surveys
    BY <1>1 DEF SurveyInv, SurveyType, RowsKept
  <2>2. Planned \in Seq(RunsOf(survey))
    BY <2>1, PlannedIs
  <2>3. Len(Planned) \in Nat
    BY <2>2
  <2>. QED
    BY <2>1, <2>3, FirstRun DEF SurveyInv, SurveyType
<1>3. /\ left' \in Seq(RunsOf(survey)) /\ Len(left') = Len(left) - 1
      /\ \A j \in 1 .. Len(left') : left'[j] = left[j + 1]
  BY <1>1, <1>2
<1>4. Planned' = Planned /\ Done' = Done + 1 /\ Done \in Nat
  <2>1. Planned' = Planned
    BY <1>1 DEF Planned
  <2>. QED
    BY <1>2, <1>3, <2>1 DEF Done
<1>5. SurveyType'
  <2>1. left' \in Seq(RunsOf(survey')) /\ Len(left') <= Len(Planned')
    BY <1>1, <1>2, <1>3, <1>4
  <2>. QED
    BY <1>1, <2>1 DEF SurveyInv, SurveyType
<1>6. /\ DOMAIN results' = DOMAIN results \cup {key}
      /\ \A other \in DOMAIN results : other # key => results'[other] = results[other]
      /\ results'[key].fresh /\ results'[key].loads /\ results'[key].rows = BySize(taken)
  BY <1>1, SavedIs
<1>7. PlanKept'
  <2>1. left[1] = Planned[Done + 1]
    BY <1>2, <1>4 DEF SurveyInv, PlanKept
  <2>2. \A j \in 1 .. Len(left') : left'[j] = Planned[Done + 1 + j]
    <3>. SUFFICES ASSUME NEW j \in 1 .. Len(left') PROVE left'[j] = Planned[Done + 1 + j]
      OBVIOUS
    <3>1. j + 1 \in 1 .. Len(left) /\ Done + (j + 1) = Done + 1 + j
      BY <1>2, <1>3, <1>4
    <3>. QED
      BY <1>3, <3>1 DEF SurveyInv, PlanKept
  <2>3. ASSUME NEW i \in 1 .. Done + 1
        PROVE  KeyOf(survey, Planned[i]) \in DOMAIN results' /\ results'[KeyOf(survey, Planned[i])].fresh
    <3>1. CASE KeyOf(survey, Planned[i]) = key
      BY <1>6, <3>1
    <3>2. CASE KeyOf(survey, Planned[i]) # key
      <4>1. i \in 1 .. Done
        BY <1>4, <2>1, <3>2
      <4>2. KeyOf(survey, Planned[i]) \in DOMAIN results /\ results[KeyOf(survey, Planned[i])].fresh
        BY <4>1 DEF SurveyInv, PlanKept
      <4>. HIDE DEF key
      <4>. QED
        BY <1>6, <3>2, <4>2
    <3>. QED
      BY <3>1, <3>2
  <2>. QED
    BY <1>1, <1>4, <2>2, <2>3 DEF PlanKept
<1>8. RowsKept'
  BY <1>1 DEF RowsKept
<1>9. Complete(key, results'[key])
  <2>. DEFINE set == left[1].set
  <2>1. key[1] = set /\ set \in DOMAIN Files
    BY <1>2, FirstRun DEF KeyOf
  <2>2. /\ taken \in Seq(RowsTaken(set)) /\ Len(taken) + Len(inputs) = Len(Files[set])
        /\ \A i \in 1 .. Len(taken) : taken[i].name = Files[set][i].name
    BY <1>1 DEF SurveyInv, RowsKept
  <2>3. Len(inputs) = 0 /\ Len(taken) \in Nat
    BY <1>1, <2>2
  <2>. HIDE DEF key, set
  <2>4. /\ key[1] \in DOMAIN Files /\ taken \in Seq(RowsTaken(key[1]))
        /\ Len(taken) = Len(Files[key[1]])
        /\ \A i \in 1 .. Len(taken) : taken[i].name = Files[key[1]][i].name
    BY <2>1, <2>2, <2>3
  <2>. DEFINE table == results'[key]
  <2>5. table.rows = BySize(taken) /\ table.loads
    BY <1>6
  <2>. HIDE DEF table
  <2>6. Complete(key, table)
    BY <2>4, <2>5, SortedIsComplete
  <2>. QED
    BY <2>6 DEF table
<1>10. TablesWhole'
  <2>1. \A other \in DOMAIN results : Complete(other, results[other])
    BY <1>1 DEF SurveyInv, TablesWhole
  <2>. HIDE DEF key
  <2>. QED
    BY <1>6, <1>9, <2>1 DEF TablesWhole
<1>11. Captions' /\ ChartsKnown'
  BY <1>1, <1>2, SavedCaptions
<1>. QED
  BY <1>5, <1>7, <1>8, <1>10, <1>11 DEF SurveyInv

(* A write that fails leaves its own table cut, and the task is over.      *)
LEMMA SaveFailsInv ==
  ASSUME SurveyInv, SaveFails \/ (Saving /\ Interrupted)
  PROVE  SurveyInv'
<1>. DEFINE key == KeyOf(survey, left[1])
<1>1. /\ surveyed = "going" /\ underway /\ inputs = <<>>
      /\ surveyed' \in {"error", "killed"}
      /\ UNCHANGED <<survey, left, underway, inputs, taken, drawn>>
      /\ results' = results \/ \E rs, loads : results' = Saved(rs, loads)
  BY DEF SaveFails, Interrupted, CutOff, Saving, Measuring
<1>2. left # <<>>
  BY <1>1 DEF SurveyInv, RowsKept
<1>3. SurveyType' /\ RowsKept'
  BY <1>1 DEF SurveyInv, SurveyType, RowsKept, Planned
<1>4. CASE results' = results
  BY <1>1, <1>3, <1>4 DEF SurveyInv, PlanKept, Done, Planned, TablesWhole, Captions, ChartsKnown
<1>5. ASSUME NEW rs, NEW loads, results' = Saved(rs, loads) PROVE SurveyInv'
  <2>1. /\ DOMAIN results' = DOMAIN results \cup {key}
        /\ \A other \in DOMAIN results : other # key => results'[other] = results[other]
        /\ results'[key].fresh
    BY <1>5, SavedIs
  <2>2. PlanKept'
    <3>1. Done' = Done /\ Planned' = Planned
      BY <1>1 DEF Done, Planned
    <3>2. ASSUME NEW i \in 1 .. Done
          PROVE  KeyOf(survey, Planned[i]) \in DOMAIN results' /\ results'[KeyOf(survey, Planned[i])].fresh
      <4>1. KeyOf(survey, Planned[i]) \in DOMAIN results /\ results[KeyOf(survey, Planned[i])].fresh
        BY <3>2 DEF SurveyInv, PlanKept
      <4>. HIDE DEF key
      <4>. QED
        BY <2>1, <4>1
    <3>. QED
      BY <1>1, <3>1, <3>2 DEF SurveyInv, PlanKept
  <2>3. TablesWhole'
    <3>1. \A other \in DOMAIN results : Complete(other, results[other])
      BY <1>1 DEF SurveyInv, TablesWhole
    <3>2. KeyOf(survey', left'[1]) = key
      BY <1>1
    <3>. HIDE DEF key
    <3>. QED
      BY <1>1, <2>1, <3>1, <3>2 DEF TablesWhole
  <2>4. Captions' /\ ChartsKnown'
    BY <1>1, <1>2, <1>5, SavedCaptions
  <2>. QED
    BY <1>3, <2>2, <2>3, <2>4 DEF SurveyInv
<1>. QED
  BY <1>1, <1>4, <1>5

(* Whatever was chosen to be drawn, it was drawn of tables that are there. *)
LEMMA DrawInv ==
  ASSUME SurveyInv, Draw
  PROVE  SurveyInv'
<1>1. /\ UNCHANGED <<survey, left, underway, inputs, taken, results, surveyed>>
      /\ \/ drawn' = [told |-> "error", charts |-> {}]
         \/ \E side \in SideBySide :
              drawn' = [told |-> "ok", charts |-> OwnCharts \cup PairCharts \cup side]
  BY DEF Draw
<1>2. \A chart \in OwnCharts \cup PairCharts : DOMAIN chart \subseteq DOMAIN results
  <2>1. \A key \in Drawable : key \in DOMAIN results
    BY DEF Drawable
  <2>2. \A key \in Pairable : key \in DOMAIN results
    BY <2>1 DEF Pairable
  <2>3. \A chart \in OwnCharts : DOMAIN chart \subseteq DOMAIN results
    <3>1. \A key : DOMAIN Chart({key}) = {key}
      BY DEF Chart
    <3>. QED
      BY <2>1, <3>1 DEF OwnCharts
  <2>4. \A pair \in Pairs : pair \subseteq DOMAIN results
    BY <2>2 DEF Pairs
  <2>5. \A chart \in PairCharts : DOMAIN chart \subseteq DOMAIN results
    BY <2>4 DEF PairCharts
  <2>. QED
    BY <2>3, <2>5
<1>3. \A side \in SideBySide : \A chart \in side : DOMAIN chart \subseteq DOMAIN results
  <2>. DEFINE slug == Policies[Standard[FALSE]].slug
              read == {key \in {"benign", "malicious"} \X {slug} \X {"latency"} : Loads(key)}
  <2>1. read \subseteq DOMAIN results
    BY DEF Loads
  <2>2. \A side \in SideBySide : \A chart \in side : chart = Chart(read)
    BY DEF SideBySide
  <2>3. DOMAIN Chart(read) = read
    BY DEF Chart
  <2>. HIDE DEF read
  <2>. QED
    BY <2>1, <2>2, <2>3
<1>4. ChartsKnown'
  <2>1. CASE drawn'.charts = {}
    BY <2>1 DEF ChartsKnown
  <2>2. ASSUME NEW side \in SideBySide, drawn'.charts = OwnCharts \cup PairCharts \cup side
        PROVE  ChartsKnown'
    BY <1>1, <1>2, <1>3, <2>2 DEF ChartsKnown
  <2>. QED
    BY <1>1, <2>1, <2>2
<1>5. SurveyType' /\ PlanKept' /\ RowsKept' /\ TablesWhole' /\ Captions'
  BY <1>1 DEF SurveyInv, SurveyType, PlanKept, Done, Planned, RowsKept, TablesWhole, Captions
<1>. QED
  BY <1>4, <1>5 DEF SurveyInv

(* Every step of a task keeps the invariant.                               *)
LEMMA NextSurveyInv ==
  ASSUME SurveyInv, [Next]_vars
  PROVE  SurveyInv'
<1>1. CASE Surveyed
  <2>1. CASE Interrupted /\ ~Saving
    <3>. USE <2>1 DEF Interrupted
    <3>1. SurveyType' /\ PlanKept' /\ RowsKept'
      BY DEF SurveyInv, SurveyType, PlanKept, Done, Planned, RowsKept
    <3>. QED
      BY <3>1 DEF SurveyInv, TablesWhole, Captions, ChartsKnown
  <2>2. CASE EndSurvey
    <3>. USE <2>2 DEF EndSurvey
    <3>1. SurveyType' /\ PlanKept' /\ RowsKept'
      BY DEF SurveyInv, SurveyType, PlanKept, Done, Planned, RowsKept
    <3>. QED
      BY <3>1 DEF SurveyInv, TablesWhole, Captions, ChartsKnown
  <2>. QED
    BY <1>1, <2>1, <2>2, StartRowsInv, TakeRowInv, SaveRowsInv, SaveFailsInv DEF Surveyed
<1>2. CASE Draw
  BY <1>2, DrawInv
<1>3. CASE UNCHANGED surveyVars
  BY <1>3 DEF surveyVars, SurveyInv, SurveyType, PlanKept, Done, Planned, RowsKept, TablesWhole,
              Captions, ChartsKnown
<1>4. Surveyed \/ Draw \/ UNCHANGED surveyVars
  BY DEF Next, vars, CorrectnessStep, ScenarioStep, MeasuringStep, PlotsStarts, PlotsStep,
         RunTool, NameReport, Leave
<1>. QED
  BY <1>1, <1>2, <1>3, <1>4

(* perf.rs, table.rs, plots.rs: however a measurement ends, no table lacks *)
(* a row but the one that was being written, one that ended well has       *)
(* written all of its tables, and charts name the mode of what they show,  *)
(* unless it is of a policy that has the file name of a standard one.      *)
THEOREM ResultsAreTold == Spec => []ResultsTold
<1>1. SurveyInv => ResultsTold
  <2>. SUFFICES ASSUME SurveyInv PROVE ResultsTold
    OBVIOUS
  <2>1. \A key \in DOMAIN results :
          ~Complete(key, results[key]) =>
            /\ surveyed \in {"error", "killed"} /\ underway /\ inputs = <<>>
            /\ key = Key(left[1])
    BY KeyIs DEF SurveyInv, TablesWhole
  <2>2. ASSUME surveyed = "ok", NEW i \in DOMAIN SurveyPlan(survey)
        PROVE  Key(Planned[i]) \in DOMAIN results /\ results[Key(Planned[i])].fresh
    <3>1. Planned \in Seq(RunsOf(survey))
      BY PlannedIs DEF SurveyInv, SurveyType
    <3>2. Done = Len(Planned)
      BY <2>2, <3>1 DEF SurveyInv, PlanKept, Done
    <3>3. i \in 1 .. Done
      BY <2>2, <3>1, <3>2 DEF Planned
    <3>. QED
      BY <3>3, KeyIs DEF SurveyInv, PlanKept
  <2>3. \A chart \in drawn.charts : \A key \in DOMAIN chart : CaptionHolds(key, results[key])
    BY DEF SurveyInv, Captions, ChartsKnown
  <2>. QED
    BY <2>1, <2>2, <2>3 DEF ResultsTold, Planned
<1>2. SurveyInv /\ [Next]_vars => SurveyInv'
  BY NextSurveyInv
<1>. QED
  BY <1>1, <1>2, InitSurveyInv, PTL DEF Spec

-----------------------------------------------------------------------------
(* What a verdict means for the tables, of either set.                     *)
LEMMA VerdictIs ==
  ASSUME NEW m
  PROVE  /\ m.set = "malicious" =>
              /\ IsFailure(Verdict(m)) <=> ~Neutralised(m) \/ ~RulesNamed(m)
              /\ Verdict(m) = "leaked" => ~Neutralised(m)
              /\ Verdict(m) # "false_positive"
              /\ Held(m) <=> Neutralised(m)
         /\ m.set # "malicious" =>
              /\ IsFailure(Verdict(m)) <=> Verdict(m) = "false_positive"
              /\ Held(m) <=> Verdict(m) # "false_positive"
BY DEF Verdict, IsFailure, Held

(* Samples told apart are counted apart.                                   *)
LEMMA CountsApart ==
  ASSUME NEW n \in Nat, NEW A, A \subseteq 1 .. n
  PROVE  /\ Cardinality(A) \in 0 .. n
         /\ Cardinality((1 .. n) \ A) = n - Cardinality(A)
<1>1. IsFiniteSet(1 .. n) /\ Cardinality(1 .. n) = n
  BY FS_Interval
<1>2. Cardinality(A) \in Nat /\ Cardinality(A) <= n
  <2>1. IsFiniteSet(A) /\ Cardinality(A) <= Cardinality(1 .. n)
    BY <1>1, FS_Subset
  <2> QED
    BY <1>1, <2>1, FS_CardinalityType
<1>3. Cardinality((1 .. n) \ A) = Cardinality(1 .. n) - Cardinality((1 .. n) \cap A)
  BY <1>1, FS_Difference
<1>4. (1 .. n) \cap A = A
  OBVIOUS
<1>5. Cardinality(A) \in 0 .. n
  BY <1>2
<1>6. Cardinality((1 .. n) \ A) = n - Cardinality(A)
  BY <1>1, <1>3, <1>4
<1> QED
  BY <1>5, <1>6

(* The samples a run counts as its failures.                               *)
Fails(ms) == {i \in DOMAIN ms : IsFailure(Verdict(ms[i]))}

(* The rates s of the n samples ms of a set, as the tables have them.      *)
RatesHold(set, ms, n, s) ==
  /\ set = "malicious" =>
       /\ s.detection + s.false_negative = n
       /\ s.leaks <= s.false_negative
       /\ Cardinality(Fails(ms)) = s.false_negative
            + Cardinality({i \in 1 .. n : Neutralised(ms[i]) /\ ~RulesNamed(ms[i])})
  /\ set # "malicious" => Cardinality(Fails(ms)) = s.false_positive
  /\ Cardinality({i \in 1 .. n : Held(ms[i])}) = n - s.false_negative - s.false_positive

(* The rates of a run's set add up.                                        *)
LEMMA RatesAgree ==
  ASSUME NEW ms, NEW n \in Nat, DOMAIN ms = 1 .. n, Len(ms) = n,
         NEW set, \A i \in 1 .. n : ms[i].set = set, NEW fetching
  PROVE  RatesHold(set, ms, n, Summary(set, ms, fetching))
<1> DEFINE D == 1 .. n
           N == {i \in D : Neutralised(ms[i])}
           L == {i \in D : Verdict(ms[i]) = "leaked"}
           M == {i \in D : Neutralised(ms[i]) /\ ~RulesNamed(ms[i])}
           P == {i \in D : Verdict(ms[i]) = "false_positive"}
           F == {i \in D : IsFailure(Verdict(ms[i]))}
           H == {i \in D : Held(ms[i])}
           s == Summary(set, ms, fetching)
<1>1. Fails(ms) = F
  BY DEF Fails
<1>2. /\ s.detection = IF set = "malicious" THEN Cardinality(N) ELSE 0
      /\ s.false_negative = IF set = "malicious" THEN n - Cardinality(N) ELSE 0
      /\ s.leaks = Cardinality(L)
      /\ s.false_positive = Cardinality(P)
  BY DEF Summary, HowMany
<1>3. set = "malicious" =>
        /\ L \subseteq D \ N /\ M \subseteq N /\ F = (D \ N) \cup M /\ P = {} /\ H = N
  BY VerdictIs
<1>4. set # "malicious" => F = P /\ H = D \ P
  BY VerdictIs
<1>5. N \subseteq D /\ L \subseteq D /\ M \subseteq D /\ P \subseteq D
  OBVIOUS
<1> HIDE DEF N, L, M, P, F, H, s
<1>6. /\ Cardinality(N) \in 0 .. n /\ Cardinality(D \ N) = n - Cardinality(N)
      /\ Cardinality(P) \in 0 .. n /\ Cardinality(D \ P) = n - Cardinality(P)
  BY <1>5, CountsApart
<1>7. CASE set = "malicious"
  <2>1. Cardinality(L) <= Cardinality(D \ N)
    <3>1. IsFiniteSet(D)
      BY FS_Interval
    <3>2. IsFiniteSet(D \ N)
      BY <3>1, FS_Subset
    <3> QED
      BY <1>3, <1>7, <3>2, FS_Subset
  <2>2. Cardinality(F) = Cardinality(D \ N) + Cardinality(M)
    <3> DEFINE A == D \ N
    <3>1. A \subseteq D /\ M \subseteq D /\ (\A x \in A : x \notin M) /\ F = A \cup M
      BY <1>3, <1>5, <1>7
    <3>2. IsFiniteSet(D)
      BY FS_Interval
    <3> HIDE DEF A, D
    <3>3. Cardinality(F) = Cardinality(A) + Cardinality(M)
      BY <3>1, <3>2, ApartCount
    <3> QED
      BY <3>3 DEF A
  <2>3. Cardinality(P) = 0 /\ H = N
    BY <1>3, <1>7, FS_EmptySet
  <2>4. /\ s.detection = Cardinality(N) /\ s.false_negative = n - Cardinality(N)
        /\ s.leaks = Cardinality(L) /\ s.false_positive = 0
    BY <1>2, <1>7, <2>3
  <2>5. /\ s.detection + s.false_negative = n
        /\ s.leaks <= s.false_negative
        /\ Cardinality(F) = s.false_negative + Cardinality(M)
        /\ Cardinality(H) = n - s.false_negative - s.false_positive
    BY <1>6, <2>1, <2>2, <2>3, <2>4
  <2> QED
    BY <1>1, <1>7, <2>5 DEF H, M, s, RatesHold
<1>8. CASE set # "malicious"
  <2>1. F = P /\ H = D \ P /\ s.false_negative = 0 /\ s.false_positive = Cardinality(P)
    BY <1>2, <1>4, <1>8
  <2>2. /\ Cardinality(F) = s.false_positive
        /\ Cardinality(H) = n - s.false_negative - s.false_positive
    BY <1>6, <2>1
  <2> QED
    BY <1>1, <1>8, <2>2 DEF H, s, RatesHold
<1> QED
  BY <1>7, <1>8

(* The categories partition the samples, and those that held.              *)
LEMMA CategoriesAgree ==
  ASSUME NEW ms, NEW n \in Nat, DOMAIN ms = 1 .. n, NEW set, NEW fetching
  PROVE  LET s == Summary(set, ms, fetching)
         IN  /\ MapThenSumSet(LAMBDA k : s.total[k], DOMAIN s.total) = n
             /\ MapThenSumSet(LAMBDA k : s.held[k], DOMAIN s.held)
                  = Cardinality({i \in 1 .. n : Held(ms[i])})
<1> DEFINE D == 1 .. n
           f == [i \in D |-> ms[i].category]
           C == {f[i] : i \in D}
           H == {i \in D : Held(ms[i])}
           total == [c \in C |-> Cardinality({i \in D : f[i] = c})]
           held == [c \in C |-> Cardinality({i \in H : f[i] = c})]
           s == Summary(set, ms, fetching)
<1>1. C = {ms[i].category : i \in DOMAIN ms}
  OBVIOUS
<1>2. \A c : /\ {i \in DOMAIN ms : ms[i].category = c} = {i \in D : f[i] = c}
             /\ {i \in DOMAIN ms : ms[i].category = c /\ Held(ms[i])} = {i \in H : f[i] = c}
  OBVIOUS
<1>3. s.total = total /\ s.held = held
  <2>1. /\ s.total = [c \in {ms[i].category : i \in DOMAIN ms} |->
                        Cardinality({i \in DOMAIN ms : ms[i].category = c})]
        /\ s.held = [c \in {ms[i].category : i \in DOMAIN ms} |->
                       Cardinality({i \in DOMAIN ms : ms[i].category = c /\ Held(ms[i])})]
    BY DEF Summary, HowMany
  <2>2. /\ s.total = [c \in C |-> Cardinality({i \in D : f[i] = c})]
        /\ s.held = [c \in C |-> Cardinality({i \in H : f[i] = c})]
    BY <1>1, <1>2, <2>1
  <2> QED
    BY <2>2
<1>4. IsFiniteSet(D) /\ Cardinality(D) = n
  BY FS_Interval
<1>5. H \in SUBSET D /\ D \in SUBSET D
  OBVIOUS
<1>6. /\ \A c \in C : total[c] = Cardinality({i \in D : f[i] = c})
      /\ \A c \in C : held[c] = Cardinality({i \in H : f[i] = c})
      /\ DOMAIN total = C /\ DOMAIN held = C
  OBVIOUS
<1> HIDE DEF D, H, f, total, held, s
<1>7. SumOver(total, C) = n
  BY <1>4, <1>5, <1>6, ClassesAddUp
<1>8. SumOver(held, C) = Cardinality(H)
  BY <1>4, <1>5, <1>6, ClassesAddUp
<1>9. /\ MapThenSumSet(LAMBDA k : s.total[k], DOMAIN s.total) = n
      /\ MapThenSumSet(LAMBDA k : s.held[k], DOMAIN s.held) = Cardinality(H)
  BY <1>3, <1>6, <1>7, <1>8 DEF SumOver
<1> QED
  BY <1>9 DEF H, s, D

(* How often a rule is expected of some of the samples.                    *)
Expects(rule, ms, where) ==
  MapThenSumSet(LAMBDA i : Listed(rule, ms[i].expected), where)

(* it adds up how often each of the samples lists the rule.                *)
Lists(it, rule, ms, where) ==
  it = [s \in SUBSET where |->
          IF s = {} THEN 0 ELSE Listed(rule, ms[First(s)].expected) + it[s \ {First(s)}]]

(* What the fold of the library comes down to, for the rules required.     *)
LEMMA ExpectedDef ==
  ASSUME NEW rule, NEW ms, NEW where
  PROVE  Expects(rule, ms, where)
           = (CHOOSE it : Lists(it, rule, ms, where))[where]
BY DEF Expects, MapThenSumSet, MapThenFoldSet, Lists, First

(* How often a rule is expected of some samples is a sum.                  *)
LEMMA ExpectedSums ==
  ASSUME NEW rule, NEW ms, NEW D, IsFiniteSet(D), NEW where \in SUBSET D
  PROVE  Expects(rule, ms, where)
           = SumOver([i \in D |-> Listed(rule, ms[i].expected)], where)
<1> DEFINE w == [i \in D |-> Listed(rule, ms[i].expected)]
           jt == CHOOSE it : Lists(it, rule, ms, where)
<1>1. \A s \in SUBSET where : s # {} => First(s) \in D
  BY DEF First
<1>2. \A s \in SUBSET where : s # {} => w[First(s)] = Listed(rule, ms[First(s)].expected)
  BY <1>1
<1>3. IsFiniteSet(where)
  BY FS_Subset
<1> HIDE DEF w
<1>4. \A it : Unfolds(it, w, SUBSET where) <=> Lists(it, rule, ms, where)
  BY <1>2 DEF Unfolds, Lists
<1>5. PICK it : Lists(it, rule, ms, where)
  BY <1>3, <1>4, UnfoldsExists
<1>6. Lists(jt, rule, ms, where)
  BY <1>5
<1> HIDE DEF jt
<1>7. Unfolds(jt, w, SUBSET where)
  BY <1>4, <1>6
<1>8. SumOver(w, where) = jt[where]
  BY <1>3, <1>7, SumUnfolds
<1>9. Expects(rule, ms, where) = jt[where]
  BY ExpectedDef DEF jt
<1> QED
  BY <1>8, <1>9 DEF w

(* A row of the confusion table of a set.                                  *)
RuleHolds(set, row) ==
  /\ row.true_positive + row.false_negative = row.expected
  /\ row.false_positive > 0 => set = "benign"

(* What a rule was expected to do it did or it did not, and what it did    *)
(* that nobody stated it did to a benign sample.                           *)
LEMMA ConfusionAgrees ==
  ASSUME NEW ms, NEW n \in Nat, DOMAIN ms = 1 .. n,
         NEW set, \A i \in 1 .. n : ms[i].set = set,
         \A i \in 1 .. n : ms[i].expected \in Seq(ToSet(ms[i].expected)),
         NEW rule \in DOMAIN Confusion(ms)
  PROVE  RuleHolds(set, Confusion(ms)[rule])
<1> DEFINE D == 1 .. n
           hit == {i \in D : rule \in ms[i].fired}
           w == [i \in D |-> Listed(rule, ms[i].expected)]
           Sum(where) == Expects(rule, ms, where)
           spurious(i) == IF ms[i].set = "benign" THEN ms[i].unexpected ELSE {}
           wrong == {i \in D : rule \in spurious(i)}
           c == Confusion(ms)
<1>1. /\ c[rule].expected = Sum(D)
      /\ c[rule].true_positive = Sum(hit)
      /\ c[rule].false_negative = Sum(D \ hit)
      /\ c[rule].false_positive = Cardinality(wrong)
  BY DEF Confusion, Expects
<1>2. IsFiniteSet(D)
  BY FS_Interval
<1>3. \A i \in D : w[i] \in Nat
  <2>1. ASSUME NEW i \in D PROVE Listed(rule, ms[i].expected) \in Nat
    <3> DEFINE rs == ms[i].expected
               L == {k \in DOMAIN rs : rs[k] = rule}
    <3>1. rs \in Seq(ToSet(rs))
      OBVIOUS
    <3> HIDE DEF rs
    <3>2. Len(rs) \in Nat /\ DOMAIN rs = 1 .. Len(rs)
      BY <3>1
    <3>3. IsFiniteSet(DOMAIN rs)
      BY <3>2, FS_Interval
    <3>4. L \subseteq DOMAIN rs
      OBVIOUS
    <3>5. Cardinality(L) \in Nat
      BY <3>3, <3>4, FS_Subset, FS_CardinalityType
    <3> QED
      BY <3>5 DEF rs, Listed
  <2> QED
    BY <2>1
<1>4. hit \in SUBSET D /\ D \ hit \in SUBSET D /\ D \in SUBSET D
  OBVIOUS
<1> HIDE DEF D, hit, w
<1>5. Sum(D) = SumOver(w, D) /\ Sum(hit) = SumOver(w, hit) /\ Sum(D \ hit) = SumOver(w, D \ hit)
  BY <1>2, <1>4, ExpectedSums DEF w
<1>6. SumOver(w, hit) + SumOver(w, D \ hit) = SumOver(w, D)
  BY <1>2, <1>3, <1>4, SumSplit
<1>7. Cardinality(wrong) > 0 => set = "benign"
  <2>1. set # "benign" => wrong = {}
    BY DEF D
  <2>2. wrong = {} => Cardinality(wrong) = 0
    BY FS_EmptySet
  <2> QED
    BY <2>1, <2>2
<1> HIDE DEF Sum, wrong, c
<1>8. /\ c[rule].true_positive + c[rule].false_negative = c[rule].expected
      /\ c[rule].false_positive > 0 => set = "benign"
  BY <1>1, <1>5, <1>6, <1>7
<1> QED
  BY <1>8 DEF c, RuleHolds

(* A sample is a failure of its run exactly when it is not as stated.      *)
LEMMA StatedIs ==
  ASSUME NEW entry, entry.output \in BOOLEAN, NEW fetching, NEW done, NEW requests
  PROVE  IsFailure(Verdict(Measure(entry, done, fetching, requests)))
           <=> ~AsStated(entry, fetching, done)
<1> DEFINE want == Expectation(entry, fetching)
           m == Measure(entry, done, fetching, requests)
           late == entry.hurried /\ done.slow
<1>1. /\ m.set = entry.set
      /\ m.status_ok = (done.status \in want.status)
      /\ m.missing = ToSet(want.rules) \ done.rules
      /\ m.unexpected = (done.rules \ want.justified)
                        \cup (done.rules \cap entry.forbidden_rules)
                        \cup (IF late THEN {TookTooLong} ELSE {})
      /\ m.leaked = {k \in want.forbidden : Carries(done, k)}
      /\ m.lost = {k \in entry.preserved : ~Carries(done, k)}
      /\ m.output_ok = ((done.output # NoOutput) = entry.output)
  BY DEF Measure
<1>2. AsStated(entry, fetching, done) <=>
        IF entry.set = "malicious"
        THEN /\ done.status \in want.status
             /\ entry.output <=> done.output # NoOutput
             /\ \A k \in want.forbidden : ~Carries(done, k)
             /\ ToSet(want.rules) \subseteq done.rules
        ELSE /\ done.rules \subseteq want.justified \ entry.forbidden_rules
             /\ \A k \in entry.preserved : Carries(done, k)
             /\ ~late
  BY DEF AsStated
<1> HIDE DEF want, m, late
<1>3. /\ Neutralised(m) <=> /\ done.status \in want.status
                            /\ entry.output <=> done.output # NoOutput
                            /\ \A k \in want.forbidden : ~Carries(done, k)
      /\ RulesNamed(m) <=> ToSet(want.rules) \subseteq done.rules
  <2>1. m.output_ok <=> (entry.output <=> done.output # NoOutput)
    BY <1>1, Zenon
  <2>2. m.leaked = {} <=> \A k \in want.forbidden : ~Carries(done, k)
    BY <1>1
  <2>3. m.missing = {} <=> ToSet(want.rules) \subseteq done.rules
    BY <1>1
  <2>4. m.status_ok <=> done.status \in want.status
    BY <1>1, Zenon
  <2> QED
    BY <2>1, <2>2, <2>3, <2>4 DEF Neutralised, RulesNamed
<1>4. /\ m.unexpected = {} <=> done.rules \subseteq want.justified \ entry.forbidden_rules /\ ~late
      /\ m.lost = {} <=> \A k \in entry.preserved : Carries(done, k)
  <2>1. m.lost = {} <=> \A k \in entry.preserved : Carries(done, k)
    BY <1>1
  <2>2. CASE late
    <3>1. TookTooLong \in m.unexpected
      BY <1>1, <2>2
    <3> QED
      BY <2>1, <2>2, <3>1
  <2>3. CASE ~late
    <3>1. m.unexpected = (done.rules \ want.justified) \cup (done.rules \cap entry.forbidden_rules)
      BY <1>1, <2>3
    <3>2. m.unexpected = {} <=> done.rules \subseteq want.justified \ entry.forbidden_rules
      BY <3>1
    <3> QED
      BY <2>1, <2>3, <3>2
  <2> QED
    BY <2>2, <2>3
<1>5. IsFailure(Verdict(m)) <=>
        IF m.set = "malicious" THEN ~Neutralised(m) \/ ~RulesNamed(m)
        ELSE ~(m.unexpected = {} /\ m.lost = {})
  BY DEF IsFailure, Verdict
<1>6. IsFailure(Verdict(m)) <=> ~AsStated(entry, fetching, done)
  <2>1. m.set = entry.set
    BY <1>1
  <2>2. CASE entry.set = "malicious"
    BY <1>2, <1>3, <1>5, <2>1, <2>2
  <2>3. CASE entry.set # "malicious"
    BY <1>2, <1>4, <1>5, <2>1, <2>3
  <2> QED
    BY <2>2, <2>3
<1> QED
  BY <1>6 DEF m

(* A list of what was measured grows at its end.                           *)
LEMMA AppendIs ==
  ASSUME NEW ms, ms \in Seq(ToSet(ms)), NEW m
  PROVE  /\ Append(ms, m) \in Seq(ToSet(Append(ms, m)))
         /\ Len(ms) \in Nat /\ DOMAIN ms = 1 .. Len(ms)
         /\ Len(Append(ms, m)) = Len(ms) + 1
         /\ DOMAIN Append(ms, m) = 1 .. Len(ms) + 1
         /\ \A i \in 1 .. Len(ms) : Append(ms, m)[i] = ms[i]
         /\ Append(ms, m)[Len(ms) + 1] = m
<1> DEFINE S == ToSet(ms) \cup {m}
           t == Append(ms, m)
<1>1. ms \in Seq(S)
  <2>1. ToSet(ms) \subseteq S
    OBVIOUS
  <2> HIDE DEF S
  <2>2. \A i \in 1 .. Len(ms) : ms[i] \in S
    BY <2>1
  <2> QED
    BY <2>2
<1>2. m \in S
  OBVIOUS
<1> HIDE DEF S
<1>3. /\ t \in Seq(S) /\ Len(ms) \in Nat /\ DOMAIN ms = 1 .. Len(ms)
      /\ Len(t) = Len(ms) + 1 /\ DOMAIN t = 1 .. Len(ms) + 1
      /\ \A i \in 1 .. Len(ms) : t[i] = ms[i]
      /\ t[Len(ms) + 1] = m
  BY <1>1, <1>2
<1> HIDE DEF t
<1>4. t \in Seq(ToSet(t))
  <2>1. ToSet(t) = {t[i] : i \in DOMAIN t}
    BY DEF ToSet
  <2>2. \A i \in 1 .. Len(t) : t[i] \in ToSet(t)
    BY <1>3, <2>1
  <2> HIDE DEF S
  <2> QED
    BY <1>3, <2>2
<1> QED
  BY <1>3, <1>4 DEF t

(* A sample more is one failure more, or none.                             *)
LEMMA FailsAppend ==
  ASSUME NEW ms, ms \in Seq(ToSet(ms)), NEW m
  PROVE  /\ Cardinality(Fails(ms)) \in Nat
         /\ Cardinality(Fails(Append(ms, m)))
              = Cardinality(Fails(ms)) + (IF IsFailure(Verdict(m)) THEN 1 ELSE 0)
<1> DEFINE n == Len(ms)
           t == Append(ms, m)
<1>1. /\ n \in Nat /\ DOMAIN ms = 1 .. n /\ DOMAIN t = 1 .. n + 1
      /\ \A i \in 1 .. n : t[i] = ms[i]
      /\ t[n + 1] = m
  BY AppendIs
<1> HIDE DEF n, t
<1>2. IsFiniteSet(Fails(ms)) /\ Cardinality(Fails(ms)) \in Nat
  <2>1. Fails(ms) \subseteq 1 .. n
    BY <1>1 DEF Fails
  <2>2. IsFiniteSet(1 .. n)
    <3>1. n \in Int /\ 1 \in Int
      BY <1>1
    <3> QED
      BY <3>1, FS_Interval
  <2> QED
    BY <2>1, <2>2, FS_Subset, FS_CardinalityType
<1>3. n + 1 \notin Fails(ms)
  BY <1>1 DEF Fails
<1>4. CASE IsFailure(Verdict(m))
  <2>1. Fails(t) = Fails(ms) \cup {n + 1}
    BY <1>1, <1>4 DEF Fails
  <2>2. Cardinality(Fails(ms) \cup {n + 1}) = Cardinality(Fails(ms)) + 1
    BY <1>2, <1>3, FS_AddElement
  <2> QED
    BY <1>2, <1>4, <2>1, <2>2 DEF t
<1>5. CASE ~IsFailure(Verdict(m))
  <2>1. Fails(t) = Fails(ms)
    BY <1>1, <1>5 DEF Fails
  <2> QED
    BY <1>2, <1>5, <2>1 DEF t
<1> QED
  BY <1>4, <1>5

CorpusRuns == [set : DOMAIN Samples, fetching : BOOLEAN]

CorpusType ==
  /\ task \in Tasks
  /\ runs \in Seq(CorpusRuns)
  /\ current \in {"idle", "at work", "between runs"}
  /\ ended \in {"going", "ok", "violations", "error"}
  /\ client \in {"none", "waiting", "counted"}
  /\ fixture \in [hits : Nat, strays : Nat]
  /\ sample \in [before : Nat, sent : Nat, got : Nat]
  /\ quit \in BOOLEAN
  /\ mismatches \in Nat /\ failures \in Nat

(* Samples are left to process only of the run under way, and the engine   *)
(* asks for something only while one is being processed.                   *)
QueueKept ==
  /\ current # "between runs" =>
       runs # <<>> /\ queue \in Seq(ToSet(Samples[runs[1].set]))
  /\ current = "at work" => queue # <<>>
  /\ client # "none" => current = "at work"

(* What was measured is of the set of the run under way.                   *)
MeasuredKept ==
  /\ measured \in Seq(ToSet(measured))
  /\ got \in Seq(Nat) /\ Len(got) = Len(measured)
  /\ \A i \in 1 .. Len(measured) :
       /\ measured[i].expected \in Seq(ToSet(measured[i].expected))
       /\ measured[i].requests \in Nat
  /\ current # "between runs" =>
       \A i \in 1 .. Len(measured) : measured[i].set = runs[1].set

CreditKept ==
  \A i \in 1 .. Len(measured) :
    /\ measured[i].requests >= got[i]
    /\ ~quit => measured[i].requests = got[i]

(* The counter has grown by what was answered, by the request that waits   *)
(* for its answer, and, once one was given up, by what came too late.      *)
Credited == sample.got + (IF client = "counted" THEN 1 ELSE 0)

CountKept ==
  /\ current = "at work" =>
       /\ sample.before + Credited <= fixture.hits
       /\ ~quit => sample.before + Credited = fixture.hits
  /\ ~quit => fixture.strays = 0

(* Every sample that was not as stated is a failure that was counted, or   *)
(* is about to be.                                                         *)
TallyKept ==
  /\ current = "between runs" => mismatches = failures
  /\ current # "between runs" => mismatches = failures + Cardinality(Fails(measured))

EndTold ==
  /\ ended \in {"ok", "violations"} => current = "between runs"
  /\ ended = "ok" => ~task.strict \/ mismatches = 0
  /\ ended = "violations" => task.strict /\ mismatches > 0

OutsideKept == \A ref \in outside : ref.before \notin Openers \cup {":"}

CorpusInv ==
  /\ CorpusType /\ QueueKept /\ MeasuredKept /\ CreditKept /\ CountKept /\ TallyKept
  /\ EndTold /\ OutsideKept

(* The first of a list, and the others.                                    *)
LEMMA HeadIs ==
  ASSUME NEW S, NEW s \in Seq(S), s # <<>>
  PROVE  s[1] \in S /\ Tail(s) \in Seq(S)
OBVIOUS

(* An empty list is a list of anything.                                    *)
LEMMA NilIs == ASSUME NEW S PROVE <<>> \in Seq(S) /\ Len(<<>>) = 0
OBVIOUS

(* Where nothing was measured nothing failed.                              *)
LEMMA FailsNil == Cardinality(Fails(<<>>)) = 0
<1>1. Fails(<<>>) = {}
  BY DEF Fails
<1> QED
  BY <1>1, FS_EmptySet

(* A task begins between runs, with nothing measured and nothing counted.  *)
LEMMA InitCorpusInv == Init => CorpusInv
<1> SUFFICES ASSUME Init PROVE CorpusInv
  OBVIOUS
<1>1. /\ task \in Tasks /\ runs = Plan(task) /\ queue = <<>> /\ current = "between runs"
      /\ fixture = [hits |-> 0, strays |-> 0] /\ client = "none" /\ quit = FALSE
      /\ outside = {} /\ sample = NewSample /\ measured = <<>> /\ got = <<>>
      /\ mismatches = 0 /\ failures = 0 /\ ended = "going"
  BY DEF Init, CorpusInit
<1>2. runs \in Seq(CorpusRuns)
  <2>1. task.sets \in Seq(DOMAIN Samples) /\ task.modes \in Seq(BOOLEAN)
    BY <1>1, EvaluationAssumption
  <2> QED
    BY <1>1, <2>1, PlanIs DEF CorpusRuns
<1>3. CorpusType
  BY <1>1, <1>2 DEF CorpusType, NewSample
<1>4. QueueKept /\ CountKept
  BY <1>1 DEF QueueKept, CountKept
<1>5. TallyKept
  BY <1>1 DEF TallyKept
<1>6. EndTold /\ OutsideKept
  BY <1>1 DEF EndTold, OutsideKept
<1>7. MeasuredKept /\ CreditKept
  <2>1. Len(measured) = 0 /\ got \in Seq(Nat) /\ Len(got) = 0
    BY <1>1, NilIs, Zenon
  <2>2. measured \in Seq(ToSet(measured))
    BY <1>1, NilIs, Zenon
  <2> QED
    BY <2>1, <2>2 DEF MeasuredKept, CreditKept
<1> QED
  BY <1>3, <1>4, <1>5, <1>6, <1>7 DEF CorpusInv

(* The samples of a run are those of its set.                              *)
LEMMA StartRunInv == CorpusInv /\ StartRun => CorpusInv'
<1> SUFFICES ASSUME CorpusInv, StartRun PROVE CorpusInv'
  OBVIOUS
<1>1. /\ current = "between runs" /\ ended = "going" /\ runs # <<>>
      /\ UNCHANGED <<task, runs, client, outside, sample, mismatches, failures>>
  BY DEF StartRun
<1>2. CorpusType /\ runs \in Seq(CorpusRuns)
  BY DEF CorpusInv, CorpusType
<1>3. mismatches = failures /\ mismatches \in Nat /\ client = "none"
  <2>1. mismatches \in Nat /\ failures \in Nat
    BY DEF CorpusInv, CorpusType
  <2>2. mismatches = failures
    BY <1>1, <2>1 DEF CorpusInv, TallyKept
  <2>3. client = "none"
    BY <1>1 DEF CorpusInv, QueueKept
  <2> QED
    BY <2>1, <2>2, <2>3
<1>4. OutsideKept'
  BY <1>1 DEF CorpusInv, OutsideKept
<1>5. CASE AgreesWithDisk /\ EngineBuilds
  <2>1. /\ queue' = Samples[runs[1].set] /\ current' = "idle"
        /\ fixture' = [hits |-> 0, strays |-> 0] /\ quit' = FALSE
        /\ measured' = <<>> /\ got' = <<>> /\ ended' = ended
    BY <1>5 DEF StartRun
  <2>2. runs[1] \in CorpusRuns
    BY <1>1, <1>2, HeadIs
  <2>3. queue' \in Seq(ToSet(Samples[runs[1].set]))
    BY <2>1, <2>2, CorpusAssumption DEF CorpusRuns
  <2>4. CorpusType'
    BY <1>1, <1>2, <2>1 DEF CorpusType
  <2>5. QueueKept' /\ CountKept' /\ EndTold'
    BY <1>1, <1>3, <2>1, <2>3 DEF QueueKept, CountKept, EndTold
  <2>6. MeasuredKept' /\ CreditKept'
    BY <2>1 DEF MeasuredKept, CreditKept
  <2>7. TallyKept'
    <3>1. Cardinality(Fails(measured')) = 0 /\ mismatches' = mismatches /\ failures' = failures
      BY <1>1, <2>1, FailsNil
    <3>2. mismatches' = failures' + 0
      BY <1>3, <3>1
    <3> QED
      BY <2>1, <3>1, <3>2 DEF TallyKept
  <2> QED
    BY <1>4, <2>4, <2>5, <2>6, <2>7 DEF CorpusInv
<1>6. CASE ~(AgreesWithDisk /\ EngineBuilds)
  <2>1. ended' = "error" /\ UNCHANGED <<queue, current, fixture, quit, measured, got>>
    BY <1>6 DEF StartRun
  <2>2. CorpusType' /\ QueueKept' /\ EndTold'
    BY <1>1, <2>1 DEF CorpusInv, CorpusType, QueueKept, EndTold
  <2>3. MeasuredKept' /\ CreditKept' /\ CountKept' /\ TallyKept'
    BY <1>1, <2>1 DEF CorpusInv, MeasuredKept, CreditKept, CountKept, Credited, TallyKept
  <2> QED
    BY <1>4, <2>2, <2>3 DEF CorpusInv
<1> QED
  BY <1>5, <1>6

(* The counter is read before the engine is given the sample.              *)
LEMMA StartSampleInv == CorpusInv /\ StartSample => CorpusInv'
<1> SUFFICES ASSUME CorpusInv, StartSample PROVE CorpusInv'
  OBVIOUS
<1>1. /\ current = "idle" /\ ended = "going" /\ queue # <<>>
      /\ UNCHANGED <<task, runs, queue, fixture, client, quit, outside, measured, got, mismatches,
                     failures>>
      /\ \/ ended' = "error" /\ UNCHANGED <<current, sample>>
         \/ /\ current' = "at work" /\ ended' = ended
            /\ sample' = [NewSample EXCEPT !.before = fixture.hits]
  BY DEF StartSample, fixtureVars, tallyVars
<1>2. client = "none" /\ fixture \in [hits : Nat, strays : Nat]
  BY <1>1 DEF CorpusInv, QueueKept, CorpusType
<1>3. \/ sample' = sample /\ current' = current
      \/ /\ current' = "at work"
         /\ sample' = [before |-> fixture.hits, sent |-> 0, got |-> 0]
  BY <1>1 DEF NewSample
<1>4. CorpusType'
  <2>1. sample' \in [before : Nat, sent : Nat, got : Nat]
    <3>1. fixture.hits \in Nat /\ sample \in [before : Nat, sent : Nat, got : Nat]
      BY <1>2 DEF CorpusInv, CorpusType
    <3>2. CASE sample' = sample
      BY <3>1, <3>2
    <3>3. CASE sample' = [before |-> fixture.hits, sent |-> 0, got |-> 0]
      BY <3>1, <3>3
    <3> QED
      BY <1>3, <3>2, <3>3
  <2>2. current' \in {"idle", "at work"} /\ ended' \in {"going", "error"}
    BY <1>1
  <2> QED
    BY <1>1, <2>1, <2>2 DEF CorpusInv, CorpusType
<1>7. QueueKept'
  BY <1>1, <1>2 DEF CorpusInv, QueueKept
<1>8. EndTold' /\ OutsideKept'
  BY <1>1 DEF CorpusInv, EndTold, OutsideKept
<1>5. CountKept'
  <2>1. fixture' = fixture /\ client' = "none" /\ quit' = quit
    BY <1>1, <1>2
  <2>2. ~quit' => fixture'.strays = 0
    BY <2>1 DEF CorpusInv, CountKept
  <2>3. current' = "at work" => sample'.before + Credited' = fixture'.hits
    <3>1. SUFFICES ASSUME current' = "at work" PROVE sample'.before + Credited' = fixture'.hits
      OBVIOUS
    <3>2. sample'.before = fixture.hits /\ sample'.got = 0
      <4>1. current' # current
        BY <1>1, <3>1
      <4>2. sample' = [before |-> fixture.hits, sent |-> 0, got |-> 0]
        BY <1>3, <4>1, Zenon
      <4> QED
        BY <4>2
    <3>3. Credited' = 0
      BY <2>1, <3>2 DEF Credited
    <3> QED
      BY <1>2, <2>1, <3>2, <3>3
  <2>4. fixture'.hits \in Nat
    BY <1>2, <2>1
  <2>5. current' = "at work" => /\ sample'.before + Credited' <= fixture'.hits
                                /\ ~quit' => sample'.before + Credited' = fixture'.hits
    <3>1. fixture'.hits <= fixture'.hits
      BY <2>4
    <3> QED
      BY <2>3, <3>1, Zenon
  <2> QED
    BY <2>2, <2>5 DEF CountKept
<1>6. MeasuredKept' /\ CreditKept' /\ TallyKept'
  <2>1. current' # "between runs"
    BY <1>1
  <2>2. UNCHANGED <<runs, measured, got, quit, mismatches, failures>>
    BY <1>1
  <2>3. MeasuredKept'
    BY <1>1, <2>1, <2>2 DEF CorpusInv, MeasuredKept
  <2>4. CreditKept'
    BY <2>2 DEF CorpusInv, CreditKept
  <2>5. TallyKept'
    BY <1>1, <2>1, <2>2 DEF CorpusInv, TallyKept
  <2> QED
    BY <2>3, <2>4, <2>5
<1> QED
  BY <1>4, <1>5, <1>6, <1>7, <1>8 DEF CorpusInv

(* What the fixture and its client do leaves what was scored alone, and a  *)
(* request that was given up stays given up.                               *)
LEMMA RequestFrame ==
  ASSUME CorpusInv,
         UNCHANGED <<task, runs, queue, current, measured, got, mismatches, failures, ended>>,
         client' \in {"none", "waiting", "counted"},
         fixture' \in [hits : Nat, strays : Nat],
         sample' \in [before : Nat, sent : Nat, got : Nat],
         quit' \in BOOLEAN, quit => quit', client' # "none" => current = "at work",
         CountKept', OutsideKept'
  PROVE  CorpusInv'
<1>1. CorpusType'
  BY DEF CorpusInv, CorpusType
<1>2. QueueKept'
  BY DEF CorpusInv, QueueKept
<1>3. MeasuredKept'
  BY DEF CorpusInv, MeasuredKept
<1>4. CreditKept'
  BY DEF CorpusInv, CreditKept
<1>5. TallyKept'
  BY DEF CorpusInv, TallyKept
<1>6. EndTold'
  BY DEF CorpusInv, EndTold
<1> QED
  BY <1>1, <1>2, <1>3, <1>4, <1>5, <1>6 DEF CorpusInv

(* The page is asked for, and nothing is counted yet.                      *)
LEMMA FetchPageInv == CorpusInv /\ FetchPage => CorpusInv'
<1> SUFFICES ASSUME CorpusInv, FetchPage PROVE CorpusInv'
  OBVIOUS
<1>1. /\ current = "at work" /\ client = "none" /\ client' = "waiting"
      /\ sample' = [sample EXCEPT !.sent = 1]
      /\ UNCHANGED <<fixture, quit, outside>>
      /\ UNCHANGED <<task, runs, queue, current, measured, got, mismatches, failures, ended>>
  BY DEF FetchPage, Sending, Unscored, tallyVars
<1>2. sample \in [before : Nat, sent : Nat, got : Nat] /\ CorpusType
  BY DEF CorpusInv, CorpusType
<1>3. /\ sample' \in [before : Nat, sent : Nat, got : Nat]
      /\ sample'.before = sample.before /\ sample'.got = sample.got
  BY <1>1, <1>2
<1>4. Credited' = Credited
  BY <1>1, <1>3 DEF Credited
<1>5. CountKept'
  BY <1>1, <1>3, <1>4 DEF CorpusInv, CountKept
<1>6. OutsideKept'
  BY <1>1 DEF CorpusInv, OutsideKept
<1>7. /\ client' \in {"none", "waiting", "counted"}
      /\ fixture' \in [hits : Nat, strays : Nat]
      /\ quit' \in BOOLEAN /\ (quit => quit')
  BY <1>1, <1>2 DEF CorpusType
<1> QED
  BY <1>1, <1>3, <1>5, <1>6, <1>7, RequestFrame

(* A reference that was not pointed at the fixture follows no character    *)
(* that opens one, and no scheme.                                          *)
LEMMA FetchReferenceInv == CorpusInv /\ FetchReference => CorpusInv'
<1> SUFFICES ASSUME CorpusInv, FetchReference PROVE CorpusInv'
  OBVIOUS
<1>1. /\ current = "at work" /\ client = "none"
      /\ sample' = [sample EXCEPT !.sent = @ + 1]
      /\ UNCHANGED <<fixture, quit>>
      /\ UNCHANGED <<task, runs, queue, current, measured, got, mismatches, failures, ended>>
  BY DEF FetchReference, Sending, Unscored, tallyVars
<1>2. sample \in [before : Nat, sent : Nat, got : Nat] /\ CorpusType
  BY DEF CorpusInv, CorpusType
<1>3. /\ sample' \in [before : Nat, sent : Nat, got : Nat]
      /\ sample'.before = sample.before /\ sample'.got = sample.got
  <2>1. sample.sent + 1 \in Nat
    BY <1>2
  <2>2. sample' = [sample EXCEPT !.sent = sample.sent + 1]
    BY <1>1
  <2> QED
    BY <1>2, <2>1, <2>2
<1>4. PICK ref \in Entry.refs :
        IF ref.authority = "own" \/ Anchored(ref)
        THEN client' = "waiting" /\ UNCHANGED outside
        ELSE /\ ref.authority = "public name"
             /\ ref.before = ":" => ref.scheme \in {"http", "https"}
             /\ outside' = outside \cup {ref}
             /\ UNCHANGED client
  BY DEF FetchReference
<1>5. client' \in {"none", "waiting"}
  BY <1>1, <1>4
<1>6. Credited' = Credited
  BY <1>1, <1>3, <1>5 DEF Credited
<1>7. CountKept'
  BY <1>1, <1>3, <1>6 DEF CorpusInv, CountKept
<1>8. OutsideKept'
  <2>1. OutsideKept
    BY DEF CorpusInv
  <2>2. CASE ref.authority = "own" \/ Anchored(ref)
    BY <1>4, <2>1, <2>2 DEF OutsideKept
  <2>3. CASE ~(ref.authority = "own" \/ Anchored(ref))
    <3>1. ref.before \notin Openers \cup {":"}
      BY <1>4, <2>3 DEF Anchored, ShouldAnchor
    <3>2. outside' = outside \cup {ref}
      BY <1>4, <2>3
    <3> QED
      BY <2>1, <3>1, <3>2 DEF OutsideKept
  <2> QED
    BY <2>2, <2>3
<1>9. /\ client' \in {"none", "waiting", "counted"}
      /\ fixture' \in [hits : Nat, strays : Nat]
      /\ quit' \in BOOLEAN /\ (quit => quit')
  BY <1>1, <1>2, <1>5 DEF CorpusType
<1> QED
  BY <1>1, <1>3, <1>7, <1>8, <1>9, RequestFrame

(* A request is counted before it is answered.                             *)
LEMMA CountInv == CorpusInv /\ Count => CorpusInv'
<1> SUFFICES ASSUME CorpusInv, Count PROVE CorpusInv'
  OBVIOUS
<1>1. /\ client = "waiting" /\ client' = "counted"
      /\ fixture' = [fixture EXCEPT !.hits = @ + 1]
      /\ UNCHANGED <<quit, outside, sample>>
      /\ UNCHANGED <<task, runs, queue, current, measured, got, mismatches, failures, ended>>
  BY DEF Count, Unscored, tallyVars
<1>2. /\ sample \in [before : Nat, sent : Nat, got : Nat]
      /\ fixture \in [hits : Nat, strays : Nat] /\ quit \in BOOLEAN
  BY DEF CorpusInv, CorpusType
<1>3. /\ fixture' \in [hits : Nat, strays : Nat]
      /\ fixture'.hits = fixture.hits + 1 /\ fixture'.strays = fixture.strays
  BY <1>1, <1>2
<1>4. current = "at work"
  BY <1>1 DEF CorpusInv, QueueKept
<1>5. Credited' = sample.got + 1 /\ Credited = sample.got
  BY <1>1, <1>2 DEF Credited
<1>6. CountKept'
  <2>1. /\ sample.before + sample.got <= fixture.hits
        /\ ~quit => sample.before + sample.got = fixture.hits
        /\ ~quit => fixture.strays = 0
    BY <1>4, <1>5 DEF CorpusInv, CountKept
  <2>2. sample.before \in Nat /\ sample.got \in Nat /\ fixture.hits \in Nat
    BY <1>2
  <2>3. sample' = sample /\ quit' = quit
    BY <1>1
  <2>4. /\ sample.before + (sample.got + 1) <= fixture.hits + 1
        /\ ~quit => sample.before + (sample.got + 1) = fixture.hits + 1
    BY <2>1, <2>2
  <2> QED
    BY <1>3, <1>5, <2>1, <2>3, <2>4 DEF CountKept
<1>7. OutsideKept'
  BY <1>1 DEF CorpusInv, OutsideKept
<1>8. /\ client' \in {"none", "waiting", "counted"}
      /\ sample' \in [before : Nat, sent : Nat, got : Nat]
      /\ quit' \in BOOLEAN /\ (quit => quit')
  BY <1>1, <1>2
<1> QED
  BY <1>1, <1>3, <1>4, <1>6, <1>7, <1>8, RequestFrame

(* What was counted and is answered is credited.                           *)
LEMMA ReplyInv == CorpusInv /\ Reply => CorpusInv'
<1> SUFFICES ASSUME CorpusInv, Reply PROVE CorpusInv'
  OBVIOUS
<1>1. /\ client = "counted" /\ client' = "none"
      /\ sample' = [sample EXCEPT !.got = @ + 1]
      /\ UNCHANGED <<fixture, quit, outside>>
      /\ UNCHANGED <<task, runs, queue, current, measured, got, mismatches, failures, ended>>
  BY DEF Reply, Unscored, tallyVars
<1>2. /\ sample \in [before : Nat, sent : Nat, got : Nat]
      /\ fixture \in [hits : Nat, strays : Nat] /\ quit \in BOOLEAN
  BY DEF CorpusInv, CorpusType
<1>3. /\ sample' \in [before : Nat, sent : Nat, got : Nat]
      /\ sample'.before = sample.before /\ sample'.got = sample.got + 1
  BY <1>1, <1>2
<1>4. current = "at work"
  BY <1>1 DEF CorpusInv, QueueKept
<1>5. Credited' = Credited
  BY <1>1, <1>2, <1>3 DEF Credited
<1>6. CountKept'
  BY <1>1, <1>3, <1>5 DEF CorpusInv, CountKept
<1>7. OutsideKept'
  BY <1>1 DEF CorpusInv, OutsideKept
<1>8. /\ client' \in {"none", "waiting", "counted"}
      /\ fixture' \in [hits : Nat, strays : Nat]
      /\ quit' \in BOOLEAN /\ (quit => quit')
  BY <1>1, <1>2
<1> QED
  BY <1>1, <1>3, <1>4, <1>6, <1>7, <1>8, RequestFrame

(* What is given up may have been counted: a sample is credited with more. *)
LEMMA GiveUpInv == CorpusInv /\ GiveUp => CorpusInv'
<1> SUFFICES ASSUME CorpusInv, GiveUp PROVE CorpusInv'
  OBVIOUS
<1>1. /\ client # "none" /\ client' = "none" /\ quit' = TRUE
      /\ UNCHANGED <<outside, sample>>
      /\ UNCHANGED <<task, runs, queue, current, measured, got, mismatches, failures, ended>>
  BY DEF GiveUp, Unscored, tallyVars
<1>2. /\ sample \in [before : Nat, sent : Nat, got : Nat]
      /\ fixture \in [hits : Nat, strays : Nat] /\ quit \in BOOLEAN
  BY DEF CorpusInv, CorpusType
<1>3. fixture' = IF client = "waiting" THEN [fixture EXCEPT !.strays = @ + 1] ELSE fixture
  BY DEF GiveUp
<1>4. fixture' \in [hits : Nat, strays : Nat] /\ fixture'.hits = fixture.hits
  BY <1>2, <1>3
<1>5. current = "at work"
  BY <1>1 DEF CorpusInv, QueueKept
<1>6. CountKept'
  <2>1. sample.before + Credited <= fixture.hits
    BY <1>5 DEF CorpusInv, CountKept
  <2>2. sample.before \in Nat /\ sample.got \in Nat /\ fixture.hits \in Nat
    BY <1>2
  <2>3. Credited' = sample.got /\ Credited \in {sample.got, sample.got + 1}
    BY <1>1, <2>2 DEF Credited
  <2>4. sample.before + sample.got <= fixture.hits
    BY <2>1, <2>2, <2>3
  <2> QED
    BY <1>1, <1>4, <2>3, <2>4 DEF CountKept
<1>7. OutsideKept'
  BY <1>1 DEF CorpusInv, OutsideKept
<1>8. /\ client' \in {"none", "waiting", "counted"}
      /\ sample' \in [before : Nat, sent : Nat, got : Nat]
      /\ quit' \in BOOLEAN /\ (quit => quit')
  BY <1>1, <1>2
<1> QED
  BY <1>1, <1>4, <1>5, <1>6, <1>7, <1>8, RequestFrame

(* A stray is there only once a request was given up.                      *)
LEMMA StrayReadInv == CorpusInv /\ StrayRead => CorpusInv'
<1> SUFFICES ASSUME CorpusInv, StrayRead PROVE CorpusInv'
  OBVIOUS
<1>1. /\ fixture.strays > 0
      /\ UNCHANGED <<client, quit, outside, sample>>
      /\ UNCHANGED <<task, runs, queue, current, measured, got, mismatches, failures, ended>>
  BY DEF StrayRead, Unscored, tallyVars
<1>2. /\ sample \in [before : Nat, sent : Nat, got : Nat]
      /\ fixture \in [hits : Nat, strays : Nat] /\ quit \in BOOLEAN
      /\ client \in {"none", "waiting", "counted"}
  BY DEF CorpusInv, CorpusType
<1>3. PICK counted \in 0 .. 1 :
        fixture' = [hits |-> fixture.hits + counted, strays |-> fixture.strays - 1]
  BY DEF StrayRead
<1>4. fixture.hits \in Nat /\ fixture.strays \in Nat
  BY <1>2
<1>5. fixture'.hits = fixture.hits + counted /\ fixture'.strays = fixture.strays - 1
  BY <1>3
<1>6. fixture.hits + counted \in Nat /\ fixture.strays - 1 \in Nat /\ fixture.hits + counted >= fixture.hits
  BY <1>1, <1>4
<1>7. fixture' \in [hits : Nat, strays : Nat]
  BY <1>3, <1>6
<1>8. quit
  <2>1. fixture.strays # 0
    BY <1>1, <1>4
  <2> QED
    BY <2>1, Zenon DEF CorpusInv, CountKept
<1>9. CountKept'
  <2>1. Credited' = Credited /\ sample' = sample /\ quit' = quit /\ current' = current
    BY <1>1 DEF Credited
  <2>2. current = "at work" => sample.before + Credited <= fixture.hits
    BY DEF CorpusInv, CountKept
  <2>3. sample.before \in Nat /\ Credited \in Nat
    BY <1>2 DEF Credited
  <2>4. current = "at work" => sample.before + Credited <= fixture'.hits
    <3>1. ASSUME current = "at work" PROVE sample.before + Credited <= fixture'.hits
      <4>1. sample.before + Credited <= fixture.hits
        BY <2>2, <3>1
      <4> QED
        BY <1>4, <1>5, <2>3, <4>1
    <3> QED
      BY <3>1
  <2> QED
    BY <1>8, <2>1, <2>4 DEF CountKept
<1>10. OutsideKept'
  BY <1>1 DEF CorpusInv, OutsideKept
<1>11. /\ client' \in {"none", "waiting", "counted"}
       /\ sample' \in [before : Nat, sent : Nat, got : Nat]
       /\ quit' \in BOOLEAN /\ (quit => quit')
       /\ client' # "none" => current = "at work"
  BY <1>1, <1>2 DEF CorpusInv, QueueKept
<1> QED
  BY <1>1, <1>7, <1>9, <1>10, <1>11, RequestFrame

(* Lists one after the other are a list of what they list.                 *)
LEMMA JoinIs ==
  ASSUME NEW a, a \in Seq(ToSet(a)), NEW b, b \in Seq(ToSet(b))
  PROVE  a \o b \in Seq(ToSet(a \o b))
<1> DEFINE S == ToSet(a) \cup ToSet(b)
           c == a \o b
<1>1. a \in Seq(S) /\ b \in Seq(S)
  <2>1. ToSet(a) \subseteq S /\ ToSet(b) \subseteq S
    OBVIOUS
  <2> HIDE DEF S
  <2>2. (\A i \in 1 .. Len(a) : a[i] \in S) /\ (\A i \in 1 .. Len(b) : b[i] \in S)
    BY <2>1
  <2> QED
    BY <2>2
<1> HIDE DEF S
<1>2. c \in Seq(S)
  BY <1>1
<1> HIDE DEF c
<1>3. \A i \in 1 .. Len(c) : c[i] \in ToSet(c)
  BY <1>2 DEF ToSet
<1>4. c \in Seq(ToSet(c))
  BY <1>2, <1>3
<1> QED
  BY <1>4 DEF c

(* A sample is measured with the rules that are required of it, and with   *)
(* the requests it was credited with.                                      *)
LEMMA MeasureIs ==
  ASSUME NEW entry, entry.rules \in Seq(ToSet(entry.rules)),
         entry.fetch.rules \in Seq(ToSet(entry.fetch.rules)),
         NEW done, NEW fetching, NEW requests
  PROVE  LET m == Measure(entry, done, fetching, requests)
         IN  /\ m.expected \in Seq(ToSet(m.expected))
             /\ m.requests = requests /\ m.set = entry.set
<1> DEFINE m == Measure(entry, done, fetching, requests)
           extra == IF fetching THEN entry.fetch ELSE NoFetchTable
<1>1. m.expected = Expectation(entry, fetching).rules /\ m.requests = requests /\ m.set = entry.set
  BY DEF Measure
<1>2. Expectation(entry, fetching).rules = entry.rules \o extra.rules
  BY DEF Expectation
<1>3. extra.rules \in Seq(ToSet(extra.rules))
  <2>1. CASE fetching
    BY <2>1
  <2>2. CASE ~fetching
    <3>1. extra.rules = <<>>
      BY <2>2 DEF NoFetchTable
    <3> QED
      BY <3>1, NilIs, Zenon
  <2> QED
    BY <2>1, <2>2
<1> HIDE DEF m, extra
<1>4. entry.rules \o extra.rules \in Seq(ToSet(entry.rules \o extra.rules))
  BY <1>3, JoinIs
<1>5. m.expected \in Seq(ToSet(m.expected))
  BY <1>1, <1>2, <1>4
<1> QED
  BY <1>1, <1>5 DEF m

(* The sample at work is one of the ground truth's, of the run's set.      *)
LEMMA EntryIs ==
  ASSUME CorpusInv, current # "between runs", queue # <<>>
  PROVE  /\ Entry.set = runs[1].set /\ Entry.output \in BOOLEAN
         /\ Entry.rules \in Seq(ToSet(Entry.rules))
         /\ Entry.fetch.rules \in Seq(ToSet(Entry.fetch.rules))
         /\ Tail(queue) \in Seq(ToSet(Samples[runs[1].set]))
<1>1. runs # <<>> /\ runs \in Seq(CorpusRuns)
  BY DEF CorpusInv, QueueKept, CorpusType
<1>2. runs[1] \in CorpusRuns
  BY <1>1, HeadIs
<1>3. runs[1].set \in DOMAIN Samples
  BY <1>2 DEF CorpusRuns
<1>4. queue \in Seq(ToSet(Samples[runs[1].set]))
  BY DEF CorpusInv, QueueKept
<1>5. queue[1] \in ToSet(Samples[runs[1].set]) /\ Tail(queue) \in Seq(ToSet(Samples[runs[1].set]))
  BY <1>4, HeadIs
<1> QED
  BY <1>3, <1>5, CorpusAssumption DEF Entry

(* A list of numbers grows at its end.                                     *)
LEMMA AppendNat ==
  ASSUME NEW s \in Seq(Nat), NEW x \in Nat
  PROVE  /\ Append(s, x) \in Seq(Nat) /\ Len(Append(s, x)) = Len(s) + 1
         /\ \A i \in 1 .. Len(s) : Append(s, x)[i] = s[i]
         /\ Append(s, x)[Len(s) + 1] = x
OBVIOUS

(* A sample that was processed has a row, and is a failure or as stated.   *)
LEMMA EndSampleInv == CorpusInv /\ EndSample => CorpusInv'
<1> SUFFICES ASSUME CorpusInv, EndSample PROVE CorpusInv'
  OBVIOUS
<1>1. /\ current = "at work" /\ client = "none" /\ current' = "idle"
      /\ queue' = Tail(queue) /\ got' = Append(got, sample.got)
      /\ UNCHANGED <<task, runs, fixture, client, quit, outside, sample, failures, ended>>
  BY DEF EndSample, fixtureVars
<1>2. PICK done \in Results :
        /\ measured' = Append(measured, Measure(Entry, done, Fetching, fixture.hits - sample.before))
        /\ mismatches' = mismatches + (IF AsStated(Entry, Fetching, done) THEN 0 ELSE 1)
  BY DEF EndSample
<1> DEFINE r == fixture.hits - sample.before
           m == Measure(Entry, done, Fetching, r)
           n == Len(measured)
<1>3. /\ sample.before \in Nat /\ sample.got \in Nat /\ fixture.hits \in Nat
      /\ mismatches \in Nat /\ failures \in Nat
  BY DEF CorpusInv, CorpusType
<1>4. /\ Entry.set = runs[1].set /\ Entry.output \in BOOLEAN
      /\ Entry.rules \in Seq(ToSet(Entry.rules))
      /\ Entry.fetch.rules \in Seq(ToSet(Entry.fetch.rules))
      /\ Tail(queue) \in Seq(ToSet(Samples[runs[1].set]))
  <2>1. queue # <<>> /\ current # "between runs"
    BY <1>1 DEF CorpusInv, QueueKept
  <2> QED
    BY <2>1, EntryIs
<1>5. r \in Nat /\ r >= sample.got /\ (~quit => r = sample.got)
  <2>1. Credited = sample.got
    <3>1. client = "none"
      BY <1>1
    <3>3. sample.got + 0 = sample.got
      BY <1>3
    <3>2. Credited = sample.got + 0
      BY <3>1 DEF Credited
    <3> QED
      BY <3>2, <3>3
  <2>2. /\ sample.before + sample.got <= fixture.hits
        /\ ~quit => sample.before + sample.got = fixture.hits
    BY <1>1, <2>1 DEF CorpusInv, CountKept
  <2> QED
    BY <1>3, <2>2
<1>6. /\ m.expected \in Seq(ToSet(m.expected))
      /\ m.requests = r /\ m.set = runs[1].set
  BY <1>4, MeasureIs
<1>7. /\ measured \in Seq(ToSet(measured)) /\ got \in Seq(Nat) /\ Len(got) = n
  BY DEF CorpusInv, MeasuredKept
<1>8. IsFailure(Verdict(m)) <=> ~AsStated(Entry, Fetching, done)
  BY <1>4, StatedIs
<1> HIDE DEF r, m
<1>9. measured' = Append(measured, m)
  BY <1>2 DEF r, m
<1>10. /\ measured' \in Seq(ToSet(measured')) /\ n \in Nat /\ Len(measured') = n + 1
       /\ \A i \in 1 .. n : measured'[i] = measured[i]
       /\ measured'[n + 1] = m
  BY <1>7, <1>9, AppendIs
<1>11. /\ got' \in Seq(Nat) /\ Len(got') = n + 1
       /\ \A i \in 1 .. n : got'[i] = got[i]
       /\ got'[n + 1] = sample.got
  <2>1. got' = Append(got, sample.got) /\ got \in Seq(Nat) /\ sample.got \in Nat
    BY <1>1, <1>3, <1>7
  <2>2. Len(got) = n
    BY <1>7
  <2> HIDE DEF n
  <2>3. Len(got) = n
    BY <2>2 DEF n
  <2>4. /\ Append(got, sample.got) \in Seq(Nat)
        /\ Len(Append(got, sample.got)) = Len(got) + 1
        /\ \A i \in 1 .. Len(got) : Append(got, sample.got)[i] = got[i]
        /\ Append(got, sample.got)[Len(got) + 1] = sample.got
    BY <2>1, AppendNat
  <2> QED
    BY <2>1, <2>3, <2>4, Zenon
<1> HIDE DEF n
<1>12. CorpusType'
  <2>1. mismatches' \in Nat
    BY <1>2, <1>3
  <2> QED
    BY <1>1, <2>1 DEF CorpusInv, CorpusType
<1>13. QueueKept'
  BY <1>1, <1>4 DEF CorpusInv, QueueKept
<1>14. \A i \in 1 .. n + 1 : i = n + 1 \/ i \in 1 .. n
  BY <1>10
<1>15. MeasuredKept'
  <2>1. \A i \in 1 .. n : /\ measured[i].expected \in Seq(ToSet(measured[i].expected))
                         /\ measured[i].requests \in Nat
                         /\ measured[i].set = runs[1].set
    BY <1>1 DEF CorpusInv, MeasuredKept, n
  <2>2. ASSUME NEW i \in 1 .. n + 1
        PROVE  /\ measured'[i].expected \in Seq(ToSet(measured'[i].expected))
               /\ measured'[i].requests \in Nat
               /\ measured'[i].set = runs'[1].set
    <3>1. CASE i = n + 1
      BY <1>1, <1>5, <1>6, <1>10, <3>1
    <3>2. CASE i \in 1 .. n
      BY <1>1, <1>10, <2>1, <3>2
    <3> QED
      BY <1>14, <3>1, <3>2
  <2> QED
    BY <1>10, <1>11, <2>2 DEF MeasuredKept
<1>16. CreditKept'
  <2>1. \A i \in 1 .. n : measured[i].requests >= got[i] /\ (~quit => measured[i].requests = got[i])
    BY DEF CorpusInv, CreditKept, n
  <2>2. ASSUME NEW i \in 1 .. n + 1
        PROVE  measured'[i].requests >= got'[i] /\ (~quit' => measured'[i].requests = got'[i])
    <3>1. CASE i = n + 1
      BY <1>1, <1>5, <1>6, <1>10, <1>11, <3>1
    <3>2. CASE i \in 1 .. n
      BY <1>1, <1>10, <1>11, <2>1, <3>2
    <3> QED
      BY <1>14, <3>1, <3>2
  <2> QED
    BY <1>10, <2>2 DEF CreditKept
<1>17. CountKept'
  BY <1>1 DEF CorpusInv, CountKept
<1>18. TallyKept'
  <2>1. mismatches = failures + Cardinality(Fails(measured))
    BY <1>1 DEF CorpusInv, TallyKept
  <2>2. Cardinality(Fails(measured)) \in Nat
    BY <1>7, FailsAppend
  <2>3. Cardinality(Fails(measured'))
          = Cardinality(Fails(measured)) + (IF IsFailure(Verdict(m)) THEN 1 ELSE 0)
    BY <1>7, <1>9, FailsAppend
  <2>4. mismatches' = mismatches + (IF IsFailure(Verdict(m)) THEN 1 ELSE 0)
    BY <1>2, <1>8
  <2>5. mismatches' = failures + Cardinality(Fails(measured'))
    BY <1>3, <2>1, <2>2, <2>3, <2>4
  <2> QED
    BY <1>1, <2>5 DEF TallyKept
<1>19. EndTold'
  BY <1>1 DEF CorpusInv, EndTold
<1>20. OutsideKept'
  BY <1>1 DEF CorpusInv, OutsideKept
<1> QED
  BY <1>12, <1>13, <1>15, <1>16, <1>17, <1>18, <1>19, <1>20 DEF CorpusInv

(* The failures of a run are added to those before.                        *)
LEMMA EndRunInv == CorpusInv /\ EndRun => CorpusInv'
<1> SUFFICES ASSUME CorpusInv, EndRun PROVE CorpusInv'
  OBVIOUS
<1>1. /\ current = "idle" /\ ended = "going" /\ current' = "between runs"
      /\ failures' = failures + RunFailures /\ runs' = Tail(runs)
      /\ UNCHANGED <<task, queue, fixture, client, quit, outside, sample, measured, got, mismatches,
                     ended>>
  BY DEF EndRun, fixtureVars, tallyVars
<1>2. runs # <<>> /\ runs \in Seq(CorpusRuns)
  BY <1>1 DEF CorpusInv, QueueKept, CorpusType
<1>3. runs' \in Seq(CorpusRuns)
  BY <1>1, <1>2, HeadIs
<1>4. RunFailures = Cardinality(Fails(measured))
  BY DEF RunFailures, HowMany, Fails
<1>5. Cardinality(Fails(measured)) \in Nat /\ failures \in Nat
  <2>1. measured \in Seq(ToSet(measured))
    BY DEF CorpusInv, MeasuredKept
  <2>2. failures \in Nat
    BY DEF CorpusInv, CorpusType
  <2>3. Cardinality(Fails(measured)) \in Nat
    BY <2>1, FailsAppend
  <2> QED
    BY <2>2, <2>3
<1>6. failures' \in Nat /\ mismatches' = failures'
  <2>1. mismatches = failures + Cardinality(Fails(measured))
    BY <1>1 DEF CorpusInv, TallyKept
  <2>2. failures' = failures + Cardinality(Fails(measured))
    BY <1>1, <1>4
  <2>3. mismatches' = mismatches
    BY <1>1
  <2>4. failures + Cardinality(Fails(measured)) \in Nat
    BY <1>5
  <2> QED
    BY <2>1, <2>2, <2>3, <2>4
<1>7. CorpusType'
  BY <1>1, <1>3, <1>6 DEF CorpusInv, CorpusType
<1>8. QueueKept' /\ CountKept'
  BY <1>1 DEF CorpusInv, QueueKept, CountKept
<1>9. MeasuredKept' /\ CreditKept'
  BY <1>1 DEF CorpusInv, MeasuredKept, CreditKept
<1>10. TallyKept'
  BY <1>1, <1>6 DEF TallyKept
<1>11. EndTold' /\ OutsideKept'
  BY <1>1 DEF CorpusInv, EndTold, OutsideKept
<1> QED
  BY <1>7, <1>8, <1>9, <1>10, <1>11 DEF CorpusInv

(* Strictness looks at the failures of all runs.                           *)
LEMMA EndTaskInv == CorpusInv /\ EndTask => CorpusInv'
<1> SUFFICES ASSUME CorpusInv, EndTask PROVE CorpusInv'
  OBVIOUS
<1>1. /\ current = "between runs" /\ ended = "going"
      /\ ended' = IF task.strict /\ failures > 0 THEN "violations" ELSE "ok"
      /\ UNCHANGED <<task, runs, queue, current, fixture, client, quit, outside, sample, measured,
                     got, mismatches, failures>>
  BY DEF EndTask, fixtureVars, tallyVars
<1>2. mismatches = failures
  BY <1>1 DEF CorpusInv, TallyKept
<1>3. failures \in Nat
  BY DEF CorpusInv, CorpusType
<1>4. ended' \in {"ok", "violations"}
  BY <1>1
<1>5. CorpusType'
  BY <1>1, <1>4 DEF CorpusInv, CorpusType
<1>6. QueueKept' /\ CountKept'
  BY <1>1 DEF CorpusInv, QueueKept, CountKept, Credited
<1>7. MeasuredKept' /\ CreditKept'
  BY <1>1 DEF CorpusInv, MeasuredKept, CreditKept
<1>8. TallyKept' /\ OutsideKept'
  BY <1>1 DEF CorpusInv, TallyKept, OutsideKept
<1>9. EndTold'
  <2>1. CASE task.strict /\ failures > 0
    BY <1>1, <1>2, <2>1 DEF EndTold
  <2>2. CASE ~(task.strict /\ failures > 0)
    <3>1. ended' = "ok"
      BY <1>1, <2>2
    <3>2. failures > 0 \/ failures = 0
      BY <1>3
    <3> QED
      BY <1>1, <1>2, <2>2, <3>1, <3>2, Zenon DEF EndTold
  <2> QED
    BY <2>1, <2>2
<1> QED
  BY <1>5, <1>6, <1>7, <1>8, <1>9 DEF CorpusInv

(* Every step of a task keeps the invariant.                               *)
LEMMA NextCorpusInv ==
  ASSUME CorpusInv, [Next]_vars
  PROVE  CorpusInv'
<1>1. CASE Scored
  BY <1>1, StartRunInv, StartSampleInv, EndSampleInv, EndRunInv, EndTaskInv, FetchPageInv,
     FetchReferenceInv, CountInv, ReplyInv, GiveUpInv, StrayReadInv DEF Scored
<1>2. CASE UNCHANGED corpusVars
  <2>1. UNCHANGED <<task, runs, queue, current, fixture, client, quit, outside, sample, measured,
                    got, mismatches, failures, ended>>
    BY <1>2 DEF corpusVars, fixtureVars, tallyVars
  <2>2. CorpusType' /\ QueueKept' /\ EndTold' /\ OutsideKept'
    BY <2>1 DEF CorpusInv, CorpusType, QueueKept, EndTold, OutsideKept
  <2>3. MeasuredKept' /\ CreditKept'
    BY <2>1 DEF CorpusInv, MeasuredKept, CreditKept
  <2>4. CountKept' /\ TallyKept'
    BY <2>1 DEF CorpusInv, CountKept, Credited, TallyKept
  <2> QED
    BY <2>2, <2>3, <2>4 DEF CorpusInv
<1>3. Scored \/ UNCHANGED corpusVars
  BY DEF Next, vars, CorrectnessStep, ScenarioStep, MeasuringStep, PlotsStarts, PlotsStep,
         RunTool, NameReport, Leave
<1> QED
  BY <1>1, <1>2, <1>3

(* The tables of a run whose samples were all measured add up.             *)
LEMMA TablesAre == CorpusInv => TablesAgree
<1> SUFFICES ASSUME CorpusInv, Finished PROVE TablesAgree
  BY DEF TablesAgree
<1> DEFINE n == Len(measured)
           set == runs[1].set
           s == Summary(set, measured, Fetching)
           c == Confusion(measured)
<1> HIDE DEF n, set
<1>1. /\ n \in Nat /\ DOMAIN measured = 1 .. n
      /\ \A i \in 1 .. n : measured[i].set = set
      /\ \A i \in 1 .. n : measured[i].expected \in Seq(ToSet(measured[i].expected))
  <2>1. current # "between runs"
    BY DEF Finished
  <2>2. measured \in Seq(ToSet(measured))
    BY DEF CorpusInv, MeasuredKept
  <2>3. n \in Nat /\ DOMAIN measured = 1 .. n
    BY <2>2 DEF n
  <2> QED
    BY <2>1, <2>3 DEF CorpusInv, MeasuredKept, n, set
<1>2. RunFailures = Cardinality(Fails(measured))
  BY DEF RunFailures, HowMany, Fails
<1>3. Len(measured) = n
  BY DEF n
<1>4. RatesHold(set, measured, n, s)
  BY <1>1, <1>3, RatesAgree
<1>5. /\ MapThenSumSet(LAMBDA k : s.total[k], DOMAIN s.total) = n
      /\ MapThenSumSet(LAMBDA k : s.held[k], DOMAIN s.held)
           = Cardinality({i \in 1 .. n : Held(measured[i])})
  BY <1>1, CategoriesAgree
<1>6. \A rule \in DOMAIN c : RuleHolds(set, c[rule])
  BY <1>1, ConfusionAgrees
<1>7. HowMany(measured, LAMBDA m : Neutralised(m) /\ ~RulesNamed(m))
        = Cardinality({i \in 1 .. n : Neutralised(measured[i]) /\ ~RulesNamed(measured[i])})
  BY <1>1 DEF HowMany
<1> QED
  BY <1>2, <1>4, <1>5, <1>6, <1>7 DEF TablesAgree, RatesHold, RuleHolds, n, set

(* xtask correctness, correctness.rs, served.rs: a task that ends well     *)
(* under --strict met its ground truth, one that does not did not, every   *)
(* table adds up, a sample is credited with what it requested, and what    *)
(* was published asks the public web for nothing but what follows a comma. *)
THEOREM TruthIsTold == Spec => []TruthTold
<1>1. CorpusInv => TruthTold
  <2> SUFFICES ASSUME CorpusInv PROVE TruthTold
    OBVIOUS
  <2>1. /\ ended = "ok" => ~task.strict \/ mismatches = 0
        /\ ended = "violations" => task.strict /\ mismatches > 0
    BY DEF CorpusInv, EndTold
  <2>2. TablesAgree
    BY TablesAre
  <2>3. RequestsCounted
    <3>1. measured \in Seq(ToSet(measured))
      BY DEF CorpusInv, MeasuredKept
    <3>2. DOMAIN measured = 1 .. Len(measured)
      BY <3>1
    <3> QED
      BY <3>2 DEF CorpusInv, CreditKept, RequestsCounted
  <2> QED
    BY <2>1, <2>2, <2>3 DEF CorpusInv, OutsideKept, TruthTold
<1>2. CorpusInv /\ [Next]_vars => CorpusInv'
  BY NextCorpusInv
<1> QED
  BY <1>1, <1>2, InitCorpusInv, PTL DEF Spec

=============================================================================
