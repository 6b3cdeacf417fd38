----------------------------- MODULE BatchProofs -----------------------------
(***************************************************************************)
(* Theorems about Batch, for any number of workers, inputs and skipped     *)
(* links and whatever the pipeline makes of an input: no job is lost or    *)
(* doubled, the report is in order and complete, its summary adds up and   *)
(* the exit code tells.                                                    *)
(***************************************************************************)
EXTENDS Batch, SumProofs

-----------------------------------------------------------------------------
(* The report: pushing an outcome adds it to every tally of the list.      *)
LEMMA TallyPush ==
  ASSUME NEW ins \in Seq(Outcome), NEW o \in Outcome, NEW S
  PROVE  /\ Tally(Append(ins, o), S) = Tally(ins, S) + Is(o.status \in S)
         /\ Tally(ins, S) \in Nat
<1> DEFINE In(l) == {i \in DOMAIN l : l[i].status \in S}
           n == Len(ins) + 1
<1>1. /\ DOMAIN ins = 1..Len(ins) /\ Len(ins) \in Nat
      /\ DOMAIN Append(ins, o) = 1..n
      /\ Append(ins, o)[n] = o
      /\ \A i \in DOMAIN ins : Append(ins, o)[i] = ins[i]
  OBVIOUS
<1>2. IsFiniteSet(In(ins)) /\ Cardinality(In(ins)) \in Nat
  <2>1. IsFiniteSet(1..Len(ins)) /\ In(ins) \in SUBSET (1..Len(ins))
    BY <1>1, FS_Interval
  <2> QED
    BY <2>1, FS_Subset, FS_CardinalityType
<1>3. n \notin In(ins)
  BY <1>1
<1>6. \A l : Tally(l, S) = Cardinality(In(l))
  BY DEF Tally
<1>4. CASE o.status \in S
  <2>1. In(Append(ins, o)) = In(ins) \cup {n}
    BY <1>1, <1>4
  <2> HIDE DEF In, n
  <2>2. Cardinality(In(ins) \cup {n}) = Cardinality(In(ins)) + 1
    BY <1>2, <1>3, FS_AddElement
  <2> QED
    BY <1>2, <1>3, <1>4, <1>6, <2>1, <2>2 DEF Is
<1>5. CASE o.status \notin S
  <2>1. In(Append(ins, o)) = In(ins)
    BY <1>1, <1>5
  <2> HIDE DEF In
  <2> QED
    BY <1>2, <1>5, <1>6, <2>1 DEF Is
<1> QED
  BY <1>4, <1>5

(* Sets written out are finite.                                            *)
LEMMA ThreeAreFinite ==
  ASSUME NEW x, NEW y, NEW z
  PROVE  IsFiniteSet({x, y, z})
<1>1. IsFiniteSet({x})
  BY FS_Singleton
<1>2. IsFiniteSet({x} \cup {y})
  BY <1>1, FS_AddElement
<1>3. {x} \cup {y} = {x, y}
  OBVIOUS
<1>4. IsFiniteSet({x, y} \cup {z})
  BY <1>2, <1>3, FS_AddElement
<1>5. {x, y} \cup {z} = {x, y, z}
  OBVIOUS
<1> QED
  BY <1>4, <1>5

Weight(ins) == [is \in (DOMAIN ins) \X InputStatus |-> ins[is[1]].subs[is[2]]]

(* What is summed is finite, and made of natural numbers.                  *)
LEMMA Weights ==
  ASSUME NEW ins \in Seq(Outcome), NEW S \in SUBSET InputStatus
  PROVE  /\ IsFiniteSet((DOMAIN ins) \X S)
         /\ \A is \in (DOMAIN ins) \X S :
              /\ Weight(ins)[is] = ins[is[1]].subs[is[2]]
              /\ Weight(ins)[is] \in Nat
<1>1. IsFiniteSet(InputStatus)
  <2> DEFINE A == {"Sanitised", "Clean", "Refused"}
             B == {"BudgetExceeded", "FetchError", "IoError"}
             C == {"UnsupportedScheme", "MalformedUrl", "InternalError"}
             D == {"SsrfBlocked", "SkippedSymlink", "SkippedSymlink"}
  <2>1. IsFiniteSet(A) /\ IsFiniteSet(B) /\ IsFiniteSet(C) /\ IsFiniteSet(D)
    BY ThreeAreFinite
  <2>2. InputStatus = (A \cup B) \cup (C \cup D)
    BY DEF InputStatus
  <2> HIDE DEF A, B, C, D
  <2>3. IsFiniteSet(A \cup B) /\ IsFiniteSet(C \cup D)
    BY <2>1, FS_Union
  <2> QED
    BY <2>2, <2>3, FS_Union
<1>2. IsFiniteSet(S) /\ IsFiniteSet(DOMAIN ins)
  BY <1>1, FS_Subset, FS_Interval
<1>3. IsFiniteSet((DOMAIN ins) \X S)
  BY <1>2, FS_Product
<1>4. \A is \in (DOMAIN ins) \X S : is \in (DOMAIN ins) \X InputStatus
  OBVIOUS
<1>5. \A i \in DOMAIN ins, s \in InputStatus : ins[i].subs[s] \in Nat
  <2>1. \A i \in DOMAIN ins : ins[i] \in Outcome
    OBVIOUS
  <2> QED
    BY <2>1 DEF Outcome
<1> QED
  BY <1>3, <1>4, <1>5 DEF Weight

(* it adds up, over each of the sets in D, what Outcomes ins tally.       *)
Tallies(it, ins, D) ==
  it = [s \in D |-> IF s = {} THEN 0
                    ELSE ins[First(s)[1]].subs[First(s)[2]] + it[s \ {First(s)}]]

LEMMA SubTallyDef ==
  ASSUME NEW ins, NEW S
  PROVE  SubTally(ins, S) =
           (CHOOSE it : Tallies(it, ins, SUBSET ((DOMAIN ins) \X S)))[(DOMAIN ins) \X S]
BY DEF SubTally, MapThenSumSet, MapThenFoldSet, Tallies, First

(* The tally of sub-resources is the sum of these weights.                 *)
LEMMA SubTallySums ==
  ASSUME NEW ins \in Seq(Outcome), NEW S \in SUBSET InputStatus
  PROVE  SubTally(ins, S) = SumOver(Weight(ins), (DOMAIN ins) \X S)
<1> DEFINE D == (DOMAIN ins) \X S
           jt == CHOOSE it : Tallies(it, ins, SUBSET D)
<1>1. SubTally(ins, S) = jt[D]
  BY SubTallyDef
<1>2. IsFiniteSet(D)
  BY Weights
<1>3. \A s \in SUBSET D : s # {} => First(s) \in D
  BY DEF First
<1>4. \A s \in SUBSET D : s # {} =>
        Weight(ins)[First(s)] = ins[First(s)[1]].subs[First(s)[2]]
  BY <1>3, Weights
<1> HIDE DEF D
<1>5. \A it : Unfolds(it, Weight(ins), SUBSET D) <=> Tallies(it, ins, SUBSET D)
  BY <1>4 DEF Unfolds, Tallies
<1>6. PICK it : Tallies(it, ins, SUBSET D)
  BY <1>2, <1>5, UnfoldsExists
<1>7. Tallies(jt, ins, SUBSET D)
  BY <1>6
<1> HIDE DEF jt
<1>8. Unfolds(jt, Weight(ins), SUBSET D)
  BY <1>5, <1>7
<1>9. SumOver(Weight(ins), D) = jt[D]
  BY <1>2, <1>8, SumUnfolds
<1> QED
  BY <1>1, <1>9 DEF D

(* The rows of a list under S, and of its next outcome under T.            *)
Rows(ins, S, T) == ((DOMAIN ins) \X S) \cup ({Len(ins) + 1} \X T)

(* Taking in one more status of the next outcome adds what it counted.     *)
LEMMA RowAdds ==
  ASSUME NEW ins \in Seq(Outcome), NEW o \in Outcome,
         NEW S \in SUBSET InputStatus, NEW T \in SUBSET S, NEW s \in S \ T
  PROVE  SumOver(Weight(Append(ins, o)), Rows(ins, S, T \cup {s}))
           = SumOver(Weight(Append(ins, o)), Rows(ins, S, T)) + o.subs[s]
<1> DEFINE n == Len(ins) + 1
           W == Weight(Append(ins, o))
           R == Rows(ins, S, T)
<1>1. /\ Append(ins, o) \in Seq(Outcome)
      /\ Append(ins, o)[n] = o
      /\ DOMAIN Append(ins, o) = 1..n /\ n \in 1..n
      /\ DOMAIN ins = 1..Len(ins) /\ Len(ins) \in Nat
  OBVIOUS
<1>2. R \subseteq (DOMAIN Append(ins, o)) \X S
  BY <1>1 DEF Rows
<1>3. IsFiniteSet(R) /\ \A x \in R : W[x] \in Nat
  <2>1. /\ IsFiniteSet((DOMAIN Append(ins, o)) \X S)
        /\ \A x \in (DOMAIN Append(ins, o)) \X S : W[x] \in Nat
    BY <1>1, Weights
  <2> HIDE DEF W, R
  <2> QED
    BY <1>2, <2>1, FS_Subset
<1>4. <<n, s>> \in (DOMAIN Append(ins, o)) \X S /\ <<n, s>> \notin R
  BY <1>1 DEF Rows
<1>5. W[<<n, s>>] = o.subs[s] /\ W[<<n, s>>] \in Nat
  <2>1. /\ W[<<n, s>>] = Append(ins, o)[<<n, s>>[1]].subs[<<n, s>>[2]]
        /\ W[<<n, s>>] \in Nat
    BY <1>1, <1>4, Weights
  <2> QED
    BY <1>1, <2>1
<1>6. Rows(ins, S, T \cup {s}) = R \cup {<<n, s>>}
  BY DEF Rows
<1> HIDE DEF W, R
<1>7. SumOver(W, R \cup {<<n, s>>}) = SumOver(W, R) + W[<<n, s>>]
  BY <1>3, <1>4, <1>5, SumAdd
<1> QED
  BY <1>5, <1>6, <1>7 DEF W, R

(* The rows of the list count in the longer list what they counted before, *)
(* and all rows together are those of the longer list.                     *)
LEMMA RowsTally ==
  ASSUME NEW ins \in Seq(Outcome), NEW o \in Outcome, NEW S \in SUBSET InputStatus
  PROVE  /\ SumOver(Weight(Append(ins, o)), Rows(ins, S, {})) = SubTally(ins, S)
         /\ SumOver(Weight(Append(ins, o)), Rows(ins, S, S)) = SubTally(Append(ins, o), S)
         /\ SubTally(ins, S) \in Nat
<1> DEFINE D == (DOMAIN ins) \X S
           W == Weight(ins)
           V == Weight(Append(ins, o))
<1>1. /\ Append(ins, o) \in Seq(Outcome)
      /\ DOMAIN Append(ins, o) = 1 .. Len(ins) + 1
      /\ DOMAIN ins = 1..Len(ins) /\ Len(ins) \in Nat
      /\ \A i \in DOMAIN ins : Append(ins, o)[i] = ins[i]
  OBVIOUS
<1>2. IsFiniteSet(D) /\ \A x \in D : W[x] \in Nat
  BY Weights
<1>3. \A x \in D : V[x] = W[x]
  <2>1. \A x \in D : W[x] = ins[x[1]].subs[x[2]]
    BY Weights
  <2>2. \A x \in (DOMAIN Append(ins, o)) \X S : V[x] = Append(ins, o)[x[1]].subs[x[2]]
    BY <1>1, Weights
  <2>3. \A x \in D : x \in (DOMAIN Append(ins, o)) \X S /\ x[1] \in DOMAIN ins
    BY <1>1
  <2> HIDE DEF V, W, D
  <2> QED
    BY <1>1, <2>1, <2>2, <2>3
<1>4. Rows(ins, S, {}) = D
  BY DEF Rows
<1>5. Rows(ins, S, S) = (DOMAIN Append(ins, o)) \X S
  BY <1>1 DEF Rows
<1>6. SubTally(ins, S) = SumOver(W, D)
  BY SubTallySums
<1>7. SubTally(Append(ins, o), S) = SumOver(V, (DOMAIN Append(ins, o)) \X S)
  BY <1>1, SubTallySums
<1> HIDE DEF V, W, D
<1>8. SumOver(V, D) = SumOver(W, D) /\ SumOver(W, D) \in Nat
  BY <1>2, <1>3, SumEqual, SumType
<1> QED
  BY <1>4, <1>5, <1>6, <1>7, <1>8 DEF V

(* What an outcome adds to the tallies of sub-resources the summary has.   *)
LEMMA SubTallyPush ==
  ASSUME NEW ins \in Seq(Outcome), NEW o \in Outcome
  PROVE  /\ SubTally(Append(ins, o), OkStatus)
              = SubTally(ins, OkStatus) + o.subs["Sanitised"] + o.subs["Clean"]
         /\ SubTally(Append(ins, o), RefusedStatus)
              = SubTally(ins, RefusedStatus) + o.subs["Refused"]
                  + o.subs["BudgetExceeded"] + o.subs["SsrfBlocked"]
         /\ SubTally(Append(ins, o), {"SsrfBlocked"})
              = SubTally(ins, {"SsrfBlocked"}) + o.subs["SsrfBlocked"]
<1> DEFINE Sum(S, T) == SumOver(Weight(Append(ins, o)), Rows(ins, S, T))
<1>1. \A S \in SUBSET InputStatus :
        /\ Sum(S, {}) = SubTally(ins, S)
        /\ Sum(S, S) = SubTally(Append(ins, o), S)
  BY RowsTally
<1> DEFINE Adds(S, T, s, U) == /\ S \in SUBSET InputStatus
                               /\ T \in SUBSET S
                               /\ s \in S \ T
                               /\ U = T \cup {s}
           None == {}
<1>2. \A S, T, s, U : Adds(S, T, s, U) => Sum(S, U) = Sum(S, T) + o.subs[s]
  <2> TAKE S, T, s, U
  <2> HAVE Adds(S, T, s, U)
  <2>1. S \in SUBSET InputStatus /\ T \in SUBSET S /\ s \in S \ T
    OBVIOUS
  <2>2. Sum(S, T \cup {s}) = Sum(S, T) + o.subs[s]
    BY <2>1, RowAdds
  <2> QED
    BY <2>2
<1> HIDE DEF Sum
<1>3. Sum(OkStatus, OkStatus) = Sum(OkStatus, {}) + o.subs["Sanitised"] + o.subs["Clean"]
  <2> DEFINE A == {"Sanitised"}
  <2>1. /\ Adds(OkStatus, None, "Sanitised", A)
        /\ Adds(OkStatus, A, "Clean", OkStatus)
    BY DEF OkStatus, InputStatus
  <2> HIDE DEF A, None, Adds
  <2>2. /\ Sum(OkStatus, A) = Sum(OkStatus, None) + o.subs["Sanitised"]
        /\ Sum(OkStatus, OkStatus) = Sum(OkStatus, A) + o.subs["Clean"]
    BY <1>2, <2>1
  <2> QED
    BY <2>2 DEF None
<1>4. Sum(RefusedStatus, RefusedStatus)
        = Sum(RefusedStatus, {}) + o.subs["Refused"] + o.subs["BudgetExceeded"]
            + o.subs["SsrfBlocked"]
  <2> DEFINE A == {"Refused"}
             B == {"Refused", "BudgetExceeded"}
  <2>1. /\ Adds(RefusedStatus, None, "Refused", A)
        /\ Adds(RefusedStatus, A, "BudgetExceeded", B)
        /\ Adds(RefusedStatus, B, "SsrfBlocked", RefusedStatus)
    BY DEF RefusedStatus, InputStatus
  <2> HIDE DEF A, B, None, Adds
  <2>2. /\ Sum(RefusedStatus, A) = Sum(RefusedStatus, None) + o.subs["Refused"]
        /\ Sum(RefusedStatus, B) = Sum(RefusedStatus, A) + o.subs["BudgetExceeded"]
        /\ Sum(RefusedStatus, RefusedStatus) = Sum(RefusedStatus, B) + o.subs["SsrfBlocked"]
    BY <1>2, <2>1
  <2> QED
    BY <2>2 DEF None
<1>5. Sum({"SsrfBlocked"}, {"SsrfBlocked"})
        = Sum({"SsrfBlocked"}, {}) + o.subs["SsrfBlocked"]
  <2> DEFINE A == {"SsrfBlocked"}
  <2>1. Adds(A, None, "SsrfBlocked", A)
    BY DEF InputStatus
  <2> HIDE DEF A, None, Adds
  <2>2. Sum(A, A) = Sum(A, None) + o.subs["SsrfBlocked"]
    BY <1>2, <2>1
  <2> QED
    BY <2>2 DEF A, None
<1>6. /\ OkStatus \in SUBSET InputStatus
      /\ RefusedStatus \in SUBSET InputStatus
      /\ {"SsrfBlocked"} \in SUBSET InputStatus
  BY DEF OkStatus, RefusedStatus, InputStatus
<1> QED
  BY <1>1, <1>3, <1>4, <1>5, <1>6

(* The summary of the list is kept outcome by outcome.                     *)
LEMMA SummaryPush ==
  ASSUME NEW ins \in Seq(Outcome), NEW o \in Outcome
  PROVE  SummaryOf(Append(ins, o)) = Push(SummaryOf(ins), o)
<1> DEFINE ErroredStatus == InputStatus \ (OkStatus \cup RefusedStatus)
<1>1. /\ (o.status \in OkStatus) = (Bucket(o.status) = "ok")
      /\ (o.status \in RefusedStatus) = (Bucket(o.status) = "refused")
      /\ (o.status \in ErroredStatus) = (Bucket(o.status) = "errored")
      /\ (o.status \in {"SsrfBlocked"}) = (o.status = "SsrfBlocked")
  <2>1. o.status \in InputStatus
    BY DEF Outcome
  <2> QED
    BY <2>1 DEF Bucket, OkStatus, RefusedStatus, InputStatus
<1>2. Len(Append(ins, o)) = Len(ins) + 1
  OBVIOUS
<1>3. \A S : /\ Tally(Append(ins, o), S) = Tally(ins, S) + Is(o.status \in S)
             /\ Tally(ins, S) \in Nat
  BY TallyPush
<1>4. /\ SubTally(ins, OkStatus) \in Nat
      /\ SubTally(ins, RefusedStatus) \in Nat
      /\ SubTally(ins, {"SsrfBlocked"}) \in Nat
  <2>1. /\ OkStatus \in SUBSET InputStatus
        /\ RefusedStatus \in SUBSET InputStatus
        /\ {"SsrfBlocked"} \in SUBSET InputStatus
    BY DEF OkStatus, RefusedStatus, InputStatus
  <2> QED
    BY <2>1, RowsTally
<1>5. o.subs["SsrfBlocked"] \in Nat /\ \A p : Is(p) \in Nat
  BY DEF Outcome, InputStatus, Is
<1>6. Tally(Append(ins, o), {"SsrfBlocked"}) + SubTally(Append(ins, o), {"SsrfBlocked"})
        = Tally(ins, {"SsrfBlocked"}) + SubTally(ins, {"SsrfBlocked"})
            + Is(o.status = "SsrfBlocked") + o.subs["SsrfBlocked"]
  <2>1. Tally(Append(ins, o), {"SsrfBlocked"})
          = Tally(ins, {"SsrfBlocked"}) + Is(o.status = "SsrfBlocked")
    BY <1>1, <1>3
  <2>2. Tally(ins, {"SsrfBlocked"}) \in Nat /\ Is(o.status = "SsrfBlocked") \in Nat
    BY <1>3, <1>5
  <2> QED
    BY <1>4, <1>5, <2>1, <2>2, SubTallyPush
<1> QED
  BY <1>1, <1>2, <1>3, <1>6, SubTallyPush DEF SummaryOf, Push

-----------------------------------------------------------------------------
(* What is true of the main thread in each of its phases.                  *)
Emitting == {"emit", "symlinks", "done"}

Stages ==
  /\ closed <=> main # "send"
  /\ closed => sent = Total
  /\ main = "send" => received = 0
  /\ main = "collect" => received < Total
  /\ main \in Emitting \cup {"join"} => received = Total
  /\ main \in Emitting => \A w \in Workers : worker[w] = "exited"

(* How far the report has come.                                            *)
Emitted ==
  /\ main \notin Emitting => inputs = <<>>
  /\ main = "emit" => Len(inputs) <= Total
  /\ main \in {"symlinks", "done"} => Len(inputs) >= Total

(* Where a job can be, one line per place.                                 *)
Queued(i) == \E n \in DOMAIN jobs : jobs[n] = i
Working(i) == \E w \in Workers : job[w] = i
Delivered(i) == \E n \in DOMAIN results : results[n][1] = i
Filed(i) == slots[i] # Empty

(* No place holds a job twice.                                             *)
Apart ==
  /\ \A m, n \in DOMAIN jobs : jobs[m] = jobs[n] => m = n
  /\ \A m, n \in DOMAIN results : results[m][1] = results[n][1] => m = n
  /\ \A v, w \in Workers : job[v] = job[w] /\ job[v] # NoJob => v = w
  /\ \A w \in Workers : worker[w] = "work" <=> job[w] # NoJob

(* No two places hold the same job, and some place holds each.             *)
Located ==
  \A i \in Indexes :
    Is(Queued(i)) + Is(Working(i)) + Is(Delivered(i)) + Is(Filed(i)) + Is(i >= sent) = 1

(* A result is what the pipeline made of its input, on its way and filed;  *)
(* and every result that was received is filed in a slot of its own.       *)
FiledSlots == {i \in Indexes : Filed(i)}

ResultsTrue ==
  /\ \A n \in DOMAIN results : results[n][2] = made[results[n][1]]
  /\ \A i \in FiledSlots : slots[i] = made[i]
  /\ received = Cardinality(FiledSlots)

ExitTrue == main = "done" => \E written \in BOOLEAN : exit = ExitWith(written)

BatchInv ==
  /\ TypeOK /\ Stages /\ Emitted /\ Apart /\ Located /\ ResultsTrue
  /\ InOrder /\ SummaryAgrees /\ CountersComplete /\ ExitTrue

-----------------------------------------------------------------------------
(* A slot with an outcome is not empty; what a panic or a link leaves is   *)
(* an outcome; there is no job behind the last.                            *)
LEMMA Values ==
  /\ \A o \in Outcome : o # Empty
  /\ \A s \in InputStatus : Failed(s) \in Outcome
  /\ Missing \in Outcome
  /\ Failed("SkippedSymlink") \in Outcome
  /\ NoJob \notin Indexes
  /\ Total \in Nat /\ Skipped \in Nat
  /\ Outcomes \subseteq Outcome
<1>1. \A o \in Outcome : o # Empty
  BY DEF Outcome, Empty, InputStatus
<1>2. \A s \in InputStatus : Failed(s) \in Outcome
  BY DEF Failed, NoSubs, Outcome
<1>3. Missing \in Outcome /\ Failed("SkippedSymlink") \in Outcome
  BY <1>2 DEF Missing, InputStatus
<1> QED
  BY <1>1, <1>2, <1>3, BatchAssumption DEF NoJob, Indexes

(* An empty report has an empty summary.                                   *)
LEMMA SummaryEmpty == EmptyRun = SummaryOf(<<>>)
<1>1. \A S : Tally(<<>>, S) = 0
  <2> TAKE S
  <2>1. {i \in DOMAIN <<>> : <<>>[i].status \in S} = {}
    OBVIOUS
  <2> QED
    BY <2>1, FS_EmptySet DEF Tally
<1>2. \A S \in SUBSET InputStatus : SubTally(<<>>, S) = 0
  <2> TAKE S \in SUBSET InputStatus
  <2>1. <<>> \in Seq(Outcome) /\ (DOMAIN <<>>) \X S = {}
    OBVIOUS
  <2>2. SumOver(Weight(<<>>), {}) = 0
    BY FS_EmptySet, SumFirst
  <2> QED
    BY <2>1, <2>2, SubTallySums
<1>3. /\ OkStatus \in SUBSET InputStatus
      /\ RefusedStatus \in SUBSET InputStatus
      /\ {"SsrfBlocked"} \in SUBSET InputStatus
  BY DEF OkStatus, RefusedStatus, InputStatus
<1>4. Len(<<>>) = 0
  OBVIOUS
<1> QED
  BY <1>1, <1>2, <1>3, <1>4 DEF EmptyRun, SummaryOf

(* Nothing is sent, nothing filed and nothing reported.                    *)
LEMMA InitBatchInv == Init => BatchInv
<1> SUFFICES ASSUME Init PROVE BatchInv
  OBVIOUS
<1> USE Values DEF Init
<1>1. jobs = <<>> /\ results = <<>> /\ inputs = <<>> /\ Len(inputs) = 0
  OBVIOUS
<1>2. TypeOK
  <2>1. run \in RunSummary
    BY DEF EmptyRun, RunSummary
  <2>2. worker \in [Workers -> {"lock", "recv", "work", "exited"}]
    OBVIOUS
  <2>3. job \in [Workers -> Indexes \cup {NoJob}]
    OBVIOUS
  <2>4. slots \in [Indexes -> Slot] /\ made \in [Indexes -> Slot]
    BY DEF Slot
  <2>5. /\ main = "send" /\ closed = FALSE /\ lock = NoOne /\ exit = NoExit
        /\ sent \in 0..Total /\ received \in 0..Total
        /\ hits \in Nat /\ hitsRead \in Nat /\ failures \in Nat
    OBVIOUS
  <2>6. /\ jobs \in Seq(Indexes)
        /\ results \in Seq(Indexes \X Outcome)
        /\ inputs \in Seq(Outcome)
    BY <1>1
  <2> HIDE DEF Init
  <2> QED
    BY <2>1, <2>2, <2>3, <2>4, <2>5, <2>6 DEF TypeOK
<1>3. Stages /\ Emitted /\ ExitTrue /\ CountersComplete
  BY <1>1 DEF Stages, Emitted, Emitting, ExitTrue, CountersComplete
<1>4. Apart
  BY <1>1 DEF Apart
<1>5. Located
  BY <1>1 DEF Located, Queued, Working, Delivered, Filed, Is, Indexes
<1>6. ResultsTrue
  <2>1. FiledSlots = {}
    BY DEF FiledSlots, Filed
  <2> QED
    BY <1>1, <2>1, FS_EmptySet DEF ResultsTrue
<1>7. InOrder /\ SummaryAgrees
  BY <1>1, SummaryEmpty DEF InOrder, SummaryAgrees
<1> QED
  BY <1>2, <1>3, <1>4, <1>5, <1>6, <1>7 DEF BatchInv

(* A worker that takes the mutex, or leaves, moves no job.                 *)
LEMMA IdleBatchInv ==
  ASSUME BatchInv, NEW w \in Workers, Lock(w) \/ Leave(w)
  PROVE  BatchInv'
<1> USE DEF BatchInv
<1>1. /\ worker[w] \in {"lock", "recv"}
      /\ worker' \in [Workers -> {"lock", "recv", "work", "exited"}]
      /\ \A v \in Workers : worker'[v] = "work" <=> worker[v] = "work"
      /\ lock' \in Workers \cup {NoOne}
  BY DEF Lock, Leave, TypeOK
<1>2. UNCHANGED <<mainVars, jobs, results, job, hits, made>>
  BY DEF Lock, Leave
<1> USE <1>2 DEF mainVars, reportVars
<1>3. TypeOK'
  BY <1>1 DEF TypeOK
<1>4. main \notin Emitting
  BY <1>1 DEF Stages
<1>5. Stages' /\ Emitted'
  BY <1>4 DEF Stages, Emitted, Emitting
<1>6. Apart'
  BY <1>1 DEF Apart
<1>7. Located' /\ ResultsTrue'
  <2>1. /\ \A i : /\ Queued(i)' = Queued(i)
                 /\ Working(i)' = Working(i)
                 /\ Delivered(i)' = Delivered(i)
                 /\ Filed(i)' = Filed(i)
        /\ FiledSlots' = FiledSlots
    BY DEF Queued, Working, Delivered, Filed, FiledSlots
  <2>2. Located'
    BY <2>1 DEF Located
  <2>3. ResultsTrue'
    BY <2>1 DEF ResultsTrue
  <2> QED
    BY <2>2, <2>3
<1>8. InOrder' /\ SummaryAgrees' /\ CountersComplete' /\ ExitTrue'
  BY DEF InOrder, SummaryAgrees, CountersComplete, ExitTrue, ExitWith
<1> QED
  BY <1>3, <1>5, <1>6, <1>7, <1>8

(* A job that is taken leaves the channel as one worker starts on it.      *)
LEMMA ReceiveBatchInv ==
  ASSUME BatchInv, NEW w \in Workers, Receive(w)
  PROVE  BatchInv'
<1> USE DEF BatchInv
<1> DEFINE j == Head(jobs)
<1>1. UNCHANGED <<mainVars, results, hits, made>>
  BY DEF Receive
<1> USE <1>1 DEF mainVars, reportVars
<1>2. /\ jobs \in Seq(Indexes) /\ jobs # <<>> /\ jobs' = Tail(jobs)
      /\ job' = [job EXCEPT ![w] = j]
      /\ worker' = [worker EXCEPT ![w] = "work"]
      /\ lock' = NoOne
      /\ worker[w] = "recv"
  BY DEF Receive, TypeOK
<1>3. /\ j \in Indexes /\ j = jobs[1] /\ 1 \in DOMAIN jobs
      /\ jobs' \in Seq(Indexes)
      /\ \A n \in DOMAIN jobs' : n + 1 \in DOMAIN jobs /\ jobs'[n] = jobs[n + 1]
      /\ \A n \in DOMAIN jobs : n # 1 => n - 1 \in DOMAIN jobs' /\ jobs'[n - 1] = jobs[n]
      /\ DOMAIN jobs' \subseteq Nat /\ DOMAIN jobs \subseteq Nat
      /\ 0 \notin DOMAIN jobs'
  BY <1>2
<1> HIDE DEF j
<1>4. job[w] = NoJob
  BY <1>2 DEF Apart, TypeOK
<1>5. TypeOK'
  <2>1. job' \in [Workers -> Indexes \cup {NoJob}]
    BY <1>2, <1>3 DEF TypeOK
  <2>2. worker' \in [Workers -> {"lock", "recv", "work", "exited"}]
    BY <1>2 DEF TypeOK
  <2> QED
    BY <1>2, <1>3, <2>1, <2>2 DEF TypeOK
<1>6. main \notin Emitting
  BY <1>2 DEF Stages
<1>7. Stages' /\ Emitted'
  BY <1>6 DEF Stages, Emitted, Emitting
<1>8. Queued(j) /\ ~Working(j)
  <2>1. Queued(j)
    BY <1>3 DEF Queued
  <2> QED
    BY <1>3, <2>1 DEF Located, Is
<1>9. Apart'
  <2>1. \A m, n \in DOMAIN jobs' : jobs'[m] = jobs'[n] => m = n
    <3> TAKE m, n \in DOMAIN jobs'
    <3> HAVE jobs'[m] = jobs'[n]
    <3>1. m + 1 = n + 1
      BY <1>3 DEF Apart
    <3> QED
      BY <1>3, <3>1
  <2>2. \A v \in Workers : job[v] # j
    BY <1>8 DEF Working
  <2>3. \A u, v \in Workers : job'[u] = job'[v] /\ job'[u] # NoJob => u = v
    BY <1>2, <2>2 DEF Apart, TypeOK
  <2>4. \A v \in Workers : worker'[v] = "work" <=> job'[v] # NoJob
    BY <1>2, <1>3, Values DEF Apart, TypeOK
  <2> QED
    BY <2>1, <2>3, <2>4 DEF Apart
<1>10. Located'
  <2>1. \A i \in Indexes : Queued(i)' <=> Queued(i) /\ i # j
    <3> TAKE i \in Indexes
    <3>1. ASSUME NEW n \in DOMAIN jobs', jobs'[n] = i
          PROVE  Queued(i) /\ i # j
      <4>1. n + 1 \in DOMAIN jobs /\ jobs[n + 1] = i /\ n \in Nat /\ n # 0
        BY <1>3, <3>1
      <4>2. n + 1 # 1
        BY <4>1
      <4> QED
        BY <1>3, <4>1, <4>2 DEF Queued, Apart
    <3>2. ASSUME NEW n \in DOMAIN jobs, jobs[n] = i, i # j
          PROVE  Queued(i)'
      BY <1>3, <3>2 DEF Queued
    <3> QED
      BY <3>1, <3>2 DEF Queued
  <2>2. \A i \in Indexes : Working(i)' <=> Working(i) \/ i = j
    BY <1>2, <1>4, Values DEF Working, TypeOK
  <2>3. \A i \in Indexes : /\ Delivered(i)' = Delivered(i)
                           /\ Filed(i)' = Filed(i)
                           /\ (i >= sent)' = (i >= sent)
    BY DEF Delivered, Filed
  <2>4. ~Working(j) /\ Queued(j)
    BY <1>8
  <2> HIDE DEF Queued, Working, Delivered, Filed
  <2> QED
    BY <2>1, <2>2, <2>3, <2>4 DEF Located, Is
<1>11. ResultsTrue' /\ InOrder' /\ SummaryAgrees' /\ CountersComplete' /\ ExitTrue'
  BY DEF ResultsTrue, FiledSlots, Filed, InOrder, SummaryAgrees, CountersComplete,
         ExitTrue, ExitWith
<1> QED
  BY <1>5, <1>7, <1>9, <1>10, <1>11

(* What a worker made of its input, or left of it by panicking, is among   *)
(* the results.  No worker has left, so nothing is reported yet.           *)
LEMMA DeliverBatchInv ==
  ASSUME BatchInv, NEW w \in Workers, NEW o \in Outcome,
         Deliver(w, o), UNCHANGED jobs
  PROVE  BatchInv'
<1> USE DEF BatchInv
<1> DEFINE j == job[w]
           n == Len(results) + 1
<1>1. UNCHANGED <<mainVars, lock, jobs>>
  BY DEF Deliver
<1> USE <1>1 DEF mainVars, reportVars
<1>2. /\ worker[w] = "work"
      /\ made' = [made EXCEPT ![j] = o]
      /\ results' = Append(results, <<j, o>>)
      /\ job' = [job EXCEPT ![w] = NoJob]
      /\ worker' = [worker EXCEPT ![w] = "lock"]
      /\ hits' \in {hits, hits + 1}
  BY DEF Deliver
<1>3. j # NoJob /\ j \in Indexes
  BY <1>2 DEF Apart, TypeOK
<1>4. /\ results \in Seq(Indexes \X Outcome)
      /\ results' \in Seq(Indexes \X Outcome)
      /\ DOMAIN results' = DOMAIN results \cup {n}
      /\ n \notin DOMAIN results
      /\ results'[n][1] = j /\ results'[n][2] = o
      /\ \A m \in DOMAIN results : results'[m] = results[m]
      /\ \A m \in DOMAIN results : results[m][1] \in Indexes
  BY <1>2, <1>3 DEF TypeOK
<1> HIDE DEF n
<1>5. TypeOK'
  <2>1. job' \in [Workers -> Indexes \cup {NoJob}]
    BY <1>2 DEF TypeOK
  <2>2. worker' \in [Workers -> {"lock", "recv", "work", "exited"}]
    BY <1>2 DEF TypeOK
  <2>3. made' \in [Indexes -> Slot] /\ hits' \in Nat
    BY <1>2, <1>3 DEF TypeOK, Slot
  <2> HIDE DEF j
  <2> QED
    BY <1>4, <2>1, <2>2, <2>3 DEF TypeOK
<1>6. main \notin Emitting
  BY <1>2 DEF Stages
<1>7. Stages' /\ Emitted'
  BY <1>6 DEF Stages, Emitted, Emitting
<1>8. Working(j) /\ ~Delivered(j) /\ ~Filed(j)
  <2>1. Working(j)
    BY DEF Working
  <2> HIDE DEF j
  <2> QED
    BY <1>3, <2>1 DEF Located, Is
<1>9. Apart'
  <2>1. \A l, m \in DOMAIN results' : results'[l][1] = results'[m][1] => l = m
    BY <1>4, <1>8 DEF Apart, Delivered
  <2>2. \A u, v \in Workers : job'[u] = job'[v] /\ job'[u] # NoJob => u = v
    BY <1>2 DEF Apart, TypeOK
  <2>3. \A v \in Workers : worker'[v] = "work" <=> job'[v] # NoJob
    BY <1>2 DEF Apart, TypeOK
  <2> QED
    BY <2>1, <2>2, <2>3 DEF Apart
<1>10. Located'
  <2>1. \A i \in Indexes : Working(i)' <=> Working(i) /\ i # j
    BY <1>2, Values DEF Working, Apart, TypeOK
  <2>2. \A i \in Indexes : Delivered(i)' <=> Delivered(i) \/ i = j
    BY <1>4 DEF Delivered
  <2>3. \A i \in Indexes : /\ Queued(i)' = Queued(i)
                           /\ Filed(i)' = Filed(i)
                           /\ (i >= sent)' = (i >= sent)
    BY DEF Queued, Filed
  <2> HIDE DEF Queued, Working, Delivered, Filed, j
  <2> QED
    BY <1>8, <2>1, <2>2, <2>3 DEF Located, Is
<1>11. ResultsTrue'
  <2>1. \A i \in Indexes : made'[i] = IF i = j THEN o ELSE made[i]
    BY <1>2 DEF TypeOK
  <2>2. FiledSlots' = FiledSlots /\ j \notin FiledSlots /\ FiledSlots \subseteq Indexes
    BY <1>8 DEF FiledSlots, Filed
  <2>3. \A m \in DOMAIN results : results[m][1] # j
    BY <1>8 DEF Delivered
  <2> HIDE DEF j
  <2>4. \A m \in DOMAIN results' : results'[m][2] = made'[results'[m][1]]
    BY <1>3, <1>4, <2>1, <2>3 DEF ResultsTrue
  <2>5. \A i \in FiledSlots' : slots'[i] = made'[i]
    BY <2>1, <2>2 DEF ResultsTrue
  <2> QED
    BY <2>2, <2>4, <2>5 DEF ResultsTrue
<1>12. InOrder' /\ SummaryAgrees' /\ CountersComplete' /\ ExitTrue'
  BY <1>6 DEF InOrder, Emitted, Emitting, SummaryAgrees, CountersComplete, ExitTrue
<1> QED
  BY <1>5, <1>7, <1>9, <1>10, <1>11, <1>12

(* The next job is queued: it was still to be sent.                        *)
LEMMA SendJobBatchInv ==
  ASSUME BatchInv, SendJob
  PROVE  BatchInv'
<1> USE DEF BatchInv
<1> DEFINE n == Len(jobs) + 1
<1>1. UNCHANGED <<workerVars, main, closed, results, received, slots, reportVars>>
  BY DEF SendJob
<1> USE <1>1 DEF workerVars, reportVars
<1>2. /\ main = "send" /\ sent < Total
      /\ jobs' = Append(jobs, sent)
      /\ sent' = sent + 1
  BY DEF SendJob
<1>3. sent \in Indexes /\ sent \in Nat /\ sent' \in 0..Total /\ Indexes \subseteq Nat
  BY <1>2, Values DEF TypeOK, Indexes
<1>4. /\ jobs' \in Seq(Indexes)
      /\ DOMAIN jobs' = DOMAIN jobs \cup {n}
      /\ n \notin DOMAIN jobs
      /\ jobs'[n] = sent
      /\ \A m \in DOMAIN jobs : jobs'[m] = jobs[m]
  BY <1>2, <1>3 DEF TypeOK
<1> HIDE DEF n
<1>5. TypeOK'
  BY <1>3, <1>4 DEF TypeOK
<1>6. Stages' /\ Emitted'
  BY <1>2 DEF Stages, Emitted, Emitting
<1>7. ~Queued(sent)
  BY <1>3 DEF Located, Is
<1>8. Apart'
  <2>1. \A l, m \in DOMAIN jobs' : jobs'[l] = jobs'[m] => l = m
    BY <1>4, <1>7 DEF Apart, Queued
  <2> QED
    BY <2>1 DEF Apart
<1>9. Located'
  <2>1. \A i \in Indexes : Queued(i)' <=> Queued(i) \/ i = sent
    BY <1>4 DEF Queued
  <2>2. \A i \in Indexes : i >= sent' <=> i >= sent /\ i # sent
    BY <1>2, <1>3
  <2>3. \A i \in Indexes : /\ Working(i)' = Working(i)
                           /\ Delivered(i)' = Delivered(i)
                           /\ Filed(i)' = Filed(i)
    BY DEF Working, Delivered, Filed
  <2>4. sent >= sent
    BY <1>3
  <2> HIDE DEF Queued, Working, Delivered, Filed
  <2> QED
    BY <1>7, <2>1, <2>2, <2>3, <2>4 DEF Located, Is
<1>10. ResultsTrue' /\ InOrder' /\ SummaryAgrees' /\ CountersComplete' /\ ExitTrue'
  BY <1>2 DEF ResultsTrue, FiledSlots, Filed, InOrder, SummaryAgrees,
              CountersComplete, ExitTrue
<1> QED
  BY <1>5, <1>6, <1>8, <1>9, <1>10

(* The front-end's own steps between the phases move no job.               *)
LEMMA PhaseBatchInv ==
  ASSUME BatchInv, CloseJobs \/ Join
  PROVE  BatchInv'
<1> USE DEF BatchInv
<1>1. UNCHANGED <<workerVars, sent, jobs, results, received, slots, reportVars>>
  BY DEF CloseJobs, Join
<1> USE <1>1 DEF workerVars, reportVars
<1>2. TypeOK'
  BY DEF CloseJobs, Join, TypeOK, Collecting
<1>3. Stages' /\ Emitted'
  <2>1. CASE CloseJobs
    BY <2>1, Values DEF CloseJobs, Collecting, Stages, Emitted, Emitting
  <2>2. CASE Join
    <3>1. inputs = <<>> /\ Len(<<>>) = 0
      BY <2>2 DEF Join, Emitted, Emitting
    <3> QED
      BY <2>2, <3>1, Values DEF Join, Stages, Emitted, Emitting
  <2> QED
    BY <2>1, <2>2
<1>4. Apart'
  BY DEF Apart
<1>5. Located'
  <2>1. \A i : /\ Queued(i)' = Queued(i)
               /\ Working(i)' = Working(i)
               /\ Delivered(i)' = Delivered(i)
               /\ Filed(i)' = Filed(i)
    BY DEF Queued, Working, Delivered, Filed
  <2> QED
    BY <2>1 DEF Located
<1>6. ResultsTrue' /\ InOrder' /\ SummaryAgrees'
  BY DEF ResultsTrue, FiledSlots, Filed, InOrder, SummaryAgrees
<1>7. CountersComplete' /\ ExitTrue'
  BY DEF CloseJobs, Join, Collecting, CountersComplete, ExitTrue
<1> QED
  BY <1>2, <1>3, <1>4, <1>5, <1>6, <1>7

(* There are as many indexes as inputs, and finitely many.                 *)
LEMMA CountIndexes ==
  /\ IsFiniteSet(Indexes) /\ Cardinality(Indexes) = Total
  /\ IsFiniteSet(FiledSlots) /\ FiledSlots \subseteq Indexes
<1>1. IsFiniteSet(Indexes) /\ Cardinality(Indexes) = Total
  <2>1. Total \in Nat /\ Total - 1 \in Int /\ 0 \in Int
    BY Values
  <2>2. /\ IsFiniteSet(0 .. Total - 1)
        /\ Cardinality(0 .. Total - 1) = IF 0 > Total - 1 THEN 0 ELSE (Total - 1) - 0 + 1
    BY <2>1, FS_Interval
  <2> QED
    BY <2>1, <2>2 DEF Indexes
<1>2. FiledSlots \in SUBSET Indexes
  BY DEF FiledSlots
<1> QED
  BY <1>1, <1>2, FS_Subset

(* A result is filed in its own slot, which was empty until then.          *)
LEMMA CollectBatchInv ==
  ASSUME BatchInv, Collect
  PROVE  BatchInv'
<1> USE DEF BatchInv
<1> DEFINE j == Head(results)[1]
           o == Head(results)[2]
<1>1. UNCHANGED <<workerVars, sent, jobs, closed, reportVars>> /\ results' = Tail(results)
  BY DEF Collect
<1> USE <1>1 DEF workerVars, reportVars
<1>2. /\ main = "collect" /\ results \in Seq(Indexes \X Outcome) /\ results # <<>>
      /\ slots' = [slots EXCEPT ![j] = o]
      /\ received' = received + 1
      /\ main' = Collecting(received + 1)
  BY DEF Collect, TypeOK
<1>3. /\ j \in Indexes /\ o \in Outcome
      /\ 1 \in DOMAIN results /\ results[1][1] = j /\ results[1][2] = o
      /\ results' \in Seq(Indexes \X Outcome)
      /\ \A n \in DOMAIN results' : n + 1 \in DOMAIN results /\ results'[n] = results[n + 1]
      /\ \A n \in DOMAIN results :
           n # 1 => n - 1 \in DOMAIN results' /\ results'[n - 1] = results[n]
      /\ DOMAIN results' \subseteq Nat /\ DOMAIN results \subseteq Nat
      /\ 0 \notin DOMAIN results'
  BY <1>2
<1>4. \A i \in Indexes : slots'[i] = IF i = j THEN o ELSE slots[i]
  BY <1>2 DEF TypeOK
<1>5. Delivered(j) /\ ~Filed(j) /\ o # Empty
  <2>1. Delivered(j)
    BY <1>3 DEF Delivered
  <2> HIDE DEF j, o
  <2> QED
    BY <1>3, <2>1, Values DEF Located, Is
<1>6. received < Total /\ received \in Nat
  BY <1>2 DEF Stages, TypeOK
<1>7. TypeOK'
  <2>1. slots' \in [Indexes -> Slot]
    BY <1>2, <1>3 DEF TypeOK, Slot
  <2>2. received' \in 0..Total /\ main' \in {"join", "collect"}
    BY <1>2, <1>6, Values DEF Collecting
  <2> HIDE DEF j, o
  <2> QED
    BY <1>3, <2>1, <2>2 DEF TypeOK
<1> HIDE DEF j, o
<1>8. Stages' /\ Emitted' /\ CountersComplete' /\ ExitTrue'
  BY <1>2, <1>6, Values DEF Collecting, Stages, Emitted, Emitting, CountersComplete, ExitTrue
<1>9. Apart'
  <2>1. \A m, n \in DOMAIN results' : results'[m][1] = results'[n][1] => m = n
    <3> TAKE m, n \in DOMAIN results'
    <3> HAVE results'[m][1] = results'[n][1]
    <3>1. m + 1 = n + 1
      BY <1>3 DEF Apart
    <3> QED
      BY <1>3, <3>1
  <2> QED
    BY <2>1 DEF Apart
<1>10. Located'
  <2>1. \A i \in Indexes : Delivered(i)' <=> Delivered(i) /\ i # j
    <3> TAKE i \in Indexes
    <3>1. ASSUME NEW n \in DOMAIN results', results'[n][1] = i
          PROVE  Delivered(i) /\ i # j
      <4>1. n + 1 \in DOMAIN results /\ results[n + 1][1] = i /\ n \in Nat /\ n # 0
        BY <1>3, <3>1
      <4>2. n + 1 # 1
        BY <4>1
      <4> QED
        BY <1>3, <4>1, <4>2 DEF Delivered, Apart
    <3>2. ASSUME NEW n \in DOMAIN results, results[n][1] = i, i # j
          PROVE  Delivered(i)'
      BY <1>3, <3>2 DEF Delivered
    <3> QED
      BY <3>1, <3>2 DEF Delivered
  <2>2. \A i \in Indexes : Filed(i)' <=> Filed(i) \/ i = j
    BY <1>4, <1>5 DEF Filed
  <2>3. \A i \in Indexes : /\ Queued(i)' = Queued(i)
                           /\ Working(i)' = Working(i)
                           /\ (i >= sent)' = (i >= sent)
    BY DEF Queued, Working
  <2> HIDE DEF Queued, Working, Delivered, Filed
  <2> QED
    BY <1>5, <2>1, <2>2, <2>3 DEF Located, Is
<1>11. ResultsTrue'
  <2>1. FiledSlots' = FiledSlots \cup {j} /\ j \notin FiledSlots
    BY <1>3, <1>4, <1>5 DEF FiledSlots, Filed
  <2>2. IsFiniteSet(FiledSlots) /\ FiledSlots \subseteq Indexes
    BY CountIndexes
  <2> HIDE DEF FiledSlots
  <2>3. Cardinality(FiledSlots') = Cardinality(FiledSlots) + 1
    BY <2>1, <2>2, FS_AddElement
  <2>4. \A n \in DOMAIN results' : results'[n][2] = made'[results'[n][1]]
    BY <1>3 DEF ResultsTrue
  <2>5. \A i \in FiledSlots' : slots'[i] = made'[i]
    BY <1>3, <1>4, <2>1, <2>2 DEF ResultsTrue
  <2> QED
    BY <1>2, <2>3, <2>4, <2>5 DEF ResultsTrue
<1>12. InOrder' /\ SummaryAgrees'
  BY DEF InOrder, SummaryAgrees
<1> QED
  BY <1>7, <1>8, <1>9, <1>10, <1>11, <1>12

(* Appending an outcome to the report keeps its summary.                   *)
LEMMA AppendToReport ==
  ASSUME TypeOK, SummaryAgrees, NEW o \in Outcome, Append1(o)
  PROVE  /\ inputs' \in Seq(Outcome)
         /\ Len(inputs') = Len(inputs) + 1 /\ Len(inputs) \in Nat
         /\ DOMAIN inputs' = 1..Len(inputs')
         /\ DOMAIN inputs = 1..Len(inputs)
         /\ inputs'[Len(inputs')] = o
         /\ \A n \in DOMAIN inputs : inputs'[n] = inputs[n]
         /\ run' \in RunSummary
         /\ SummaryAgrees'
<1>1. inputs \in Seq(Outcome) /\ inputs' = Append(inputs, o)
  BY DEF TypeOK, Append1
<1>2. SummaryAgrees'
  BY <1>1, SummaryPush DEF Append1, SummaryAgrees
<1>3. run' \in RunSummary
  <2>1. run \in RunSummary /\ run' = Push(run, o)
    BY DEF TypeOK, Append1
  <2>2. \A p : Is(p) \in Nat
    BY DEF Is
  <2>3. \A s \in InputStatus : o.subs[s] \in Nat
    BY DEF Outcome
  <2>4. {"Sanitised", "Clean", "Refused", "BudgetExceeded", "SsrfBlocked"} \subseteq InputStatus
    BY DEF InputStatus
  <2> QED
    BY <2>1, <2>2, <2>3, <2>4 DEF RunSummary, Push
<1> QED
  BY <1>1, <1>2, <1>3

(* The part of the invariant that is about jobs and results only.          *)
JobsInv == Stages /\ Apart /\ Located /\ ResultsTrue

(* It holds as long as nobody touches them and no phase goes back.         *)
LEMMA ReportingKeepsJobs ==
  ASSUME JobsInv, TypeOK, main \in Emitting, main' \in Emitting,
         UNCHANGED <<workerVars, sent, jobs, closed, results, received, slots>>
  PROVE  JobsInv'
<1> USE DEF JobsInv, workerVars
<1>1. Stages'
  BY DEF Stages, Emitting
<1>2. Apart'
  BY DEF Apart
<1>3. Located'
  <2>1. \A i : /\ Queued(i)' = Queued(i)
               /\ Working(i)' = Working(i)
               /\ Delivered(i)' = Delivered(i)
               /\ Filed(i)' = Filed(i)
    BY DEF Queued, Working, Delivered, Filed
  <2> QED
    BY <2>1 DEF Located
<1>4. ResultsTrue'
  BY DEF ResultsTrue, FiledSlots, Filed
<1> QED
  BY <1>1, <1>2, <1>3, <1>4

(* When every result was received, every slot has what was made of it, so  *)
(* the branch of emit for a missing outcome is not taken.                  *)
LEMMA AllFiled ==
  ASSUME BatchInv, main \in Emitting, NEW i \in Indexes
  PROVE  slots[i] = made[i] /\ slots[i] \in Outcome /\ slots[i] # Empty
<1>1. received = Total /\ received = Cardinality(FiledSlots)
  BY DEF BatchInv, Stages, ResultsTrue
<1>2. FiledSlots \in SUBSET Indexes /\ IsFiniteSet(Indexes)
  BY CountIndexes
<1>3. Cardinality(Indexes) = Cardinality(FiledSlots) => Indexes = FiledSlots
  BY <1>2, FS_Subset
<1>4. i \in FiledSlots
  BY <1>1, <1>3, CountIndexes
<1>5. slots[i] # Empty /\ slots[i] = made[i]
  BY <1>4 DEF FiledSlots, Filed, BatchInv, ResultsTrue
<1> QED
  BY <1>5 DEF BatchInv, TypeOK, Slot

(* The next input's outcome joins the report at the input's own position.  *)
LEMMA EmitBatchInv ==
  ASSUME BatchInv, Emit
  PROVE  BatchInv'
<1> DEFINE n == Len(inputs)
           o == slots[n]
<1>1. TypeOK /\ SummaryAgrees /\ JobsInv /\ InOrder
  BY DEF BatchInv, JobsInv
<1>2. /\ main = "emit" /\ n < Total /\ n \in Nat
      /\ UNCHANGED <<workerVars, main, sent, jobs, closed, results, received, slots,
                     hitsRead, exit>>
  BY <1>1 DEF Emit, TypeOK
<1>3. n \in Indexes /\ main \in Emitting
  BY <1>2, Values DEF Indexes, Emitting
<1>4. o = made[n] /\ o \in Outcome /\ o # Empty
  BY <1>3, AllFiled
<1>5. Append1(o) /\ (\E k \in 0..o.files : failures' = failures + k)
  BY <1>4 DEF Emit
<1>6. failures' \in Nat
  <2>1. o.files \in Nat /\ failures \in Nat
    BY <1>1, <1>4 DEF Outcome, TypeOK
  <2> QED
    BY <1>5, <2>1
<1> HIDE DEF o
<1>7. /\ inputs' \in Seq(Outcome)
      /\ Len(inputs') = n + 1
      /\ DOMAIN inputs' = 1..(n + 1)
      /\ DOMAIN inputs = 1..n
      /\ inputs'[n + 1] = o
      /\ \A k \in DOMAIN inputs : inputs'[k] = inputs[k]
      /\ run' \in RunSummary
      /\ SummaryAgrees'
  BY <1>1, <1>4, <1>5, AppendToReport
<1> HIDE DEF n
<1>8. TypeOK'
  BY <1>1, <1>2, <1>6, <1>7 DEF TypeOK, workerVars
<1>9. JobsInv'
  BY <1>1, <1>2, <1>3, ReportingKeepsJobs
<1>10. Emitted' /\ CountersComplete' /\ ExitTrue'
  BY <1>2, <1>7, Values DEF Emitted, Emitting, CountersComplete, ExitTrue
<1>11. InOrder'
  <2> DEFINE Right(k) ==
        inputs'[k] = IF k <= Total THEN made[k - 1] ELSE Failed("SkippedSymlink")
  <2>1. \A k \in DOMAIN inputs : Right(k)
    BY <1>1, <1>7 DEF InOrder
  <2>2. Right(n + 1)
    BY <1>2, <1>4, <1>7, Values
  <2>3. \A k \in DOMAIN inputs' : k \in DOMAIN inputs \/ k = n + 1
    BY <1>2, <1>7
  <2>4. made' = made
    BY <1>2 DEF workerVars
  <2>5. \A k \in DOMAIN inputs' : Right(k)
    BY <2>1, <2>2, <2>3
  <2> QED
    BY <2>4, <2>5 DEF InOrder
<1> QED
  BY <1>7, <1>8, <1>9, <1>10, <1>11 DEF BatchInv, JobsInv

(* A refused link joins the report behind every input.                     *)
LEMMA PushSymlinkBatchInv ==
  ASSUME BatchInv, PushSymlink
  PROVE  BatchInv'
<1> DEFINE n == Len(inputs)
           o == Failed("SkippedSymlink")
<1>1. TypeOK /\ SummaryAgrees /\ JobsInv /\ InOrder /\ Emitted /\ CountersComplete
  BY DEF BatchInv, JobsInv
<1>2. /\ main = "symlinks" /\ n \in Nat
      /\ Append1(o)
      /\ UNCHANGED <<workerVars, main, sent, jobs, closed, results, received, slots,
                     hitsRead, failures, exit>>
  BY <1>1 DEF PushSymlink, TypeOK
<1>3. main \in Emitting /\ n >= Total
  BY <1>1, <1>2 DEF Emitting, Emitted
<1>4. o \in Outcome
  BY Values
<1> HIDE DEF o
<1>5. /\ inputs' \in Seq(Outcome)
      /\ Len(inputs') = n + 1
      /\ DOMAIN inputs' = 1..(n + 1)
      /\ DOMAIN inputs = 1..n
      /\ inputs'[n + 1] = o
      /\ \A k \in DOMAIN inputs : inputs'[k] = inputs[k]
      /\ run' \in RunSummary
      /\ SummaryAgrees'
  BY <1>1, <1>2, <1>4, AppendToReport
<1> HIDE DEF n
<1>6. TypeOK'
  BY <1>1, <1>2, <1>5 DEF TypeOK, workerVars
<1>7. JobsInv'
  BY <1>1, <1>2, <1>3, ReportingKeepsJobs
<1>8. Emitted' /\ CountersComplete' /\ ExitTrue'
  BY <1>1, <1>2, <1>3, <1>5, Values
     DEF Emitted, Emitting, CountersComplete, ExitTrue, workerVars
<1>9. InOrder'
  <2> DEFINE Right(k) ==
        inputs'[k] = IF k <= Total THEN made[k - 1] ELSE Failed("SkippedSymlink")
  <2>1. \A k \in DOMAIN inputs : Right(k)
    BY <1>1, <1>5 DEF InOrder
  <2>2. Right(n + 1)
    BY <1>2, <1>3, <1>5, Values DEF o
  <2>3. \A k \in DOMAIN inputs' : k \in DOMAIN inputs \/ k = n + 1
    BY <1>2, <1>5
  <2>4. made' = made
    BY <1>2 DEF workerVars
  <2>5. \A k \in DOMAIN inputs' : Right(k)
    BY <2>1, <2>2, <2>3
  <2> QED
    BY <2>4, <2>5 DEF InOrder
<1> QED
  BY <1>5, <1>6, <1>7, <1>8, <1>9 DEF BatchInv, JobsInv

(* The report's last steps read the counters and set the exit code.        *)
LEMMA ClosingBatchInv ==
  ASSUME BatchInv, ReadCounters \/ WriteReport
  PROVE  BatchInv'
<1>1. TypeOK /\ SummaryAgrees /\ JobsInv /\ InOrder /\ Emitted /\ CountersComplete
  BY DEF BatchInv, JobsInv
<1>2. /\ main \in Emitting /\ main' \in Emitting
      /\ UNCHANGED <<workerVars, sent, jobs, closed, results, received, slots,
                     inputs, run, failures>>
  BY DEF ReadCounters, WriteReport, Emitting
<1>3. TypeOK'
  <2>1. exit' \in {NoExit, 0, 1, 2} /\ hitsRead' \in Nat /\ main' \in {"symlinks", "done"}
    BY <1>1 DEF ReadCounters, WriteReport, TypeOK, ExitWith, ExitCode
  <2> QED
    BY <1>1, <1>2, <2>1 DEF TypeOK, workerVars
<1>4. JobsInv'
  BY <1>1, <1>2, ReportingKeepsJobs
<1>5. Emitted' /\ CountersComplete'
  <2>1. Total >= Total
    BY Values
  <2> QED
    BY <1>1, <1>2, <2>1
       DEF ReadCounters, WriteReport, Emitted, Emitting, CountersComplete, workerVars
<1>6. ExitTrue'
  BY <1>2 DEF ReadCounters, WriteReport, ExitTrue, ExitWith
<1>7. InOrder' /\ SummaryAgrees'
  BY <1>1, <1>2 DEF InOrder, SummaryAgrees, workerVars
<1> QED
  BY <1>3, <1>4, <1>5, <1>6, <1>7 DEF BatchInv, JobsInv

(* Every step of the main thread and of a worker keeps the invariant.      *)
LEMMA NextBatchInv == BatchInv /\ [Next]_vars => BatchInv'
<1> SUFFICES ASSUME BatchInv, [Next]_vars PROVE BatchInv'
  OBVIOUS
<1>1. ASSUME NEW w \in Workers, Lock(w) \/ Leave(w) PROVE BatchInv'
  BY <1>1, IdleBatchInv
<1>2. ASSUME NEW w \in Workers, Receive(w) PROVE BatchInv'
  BY <1>2, ReceiveBatchInv
<1>3. ASSUME NEW w \in Workers, Process(w) PROVE BatchInv'
  <2>1. PICK o \in Outcomes : Deliver(w, o)
    BY <1>3 DEF Process
  <2>2. o \in Outcome /\ UNCHANGED jobs
    BY <1>3, Values DEF Process
  <2> QED
    BY <2>1, <2>2, DeliverBatchInv
<1>4. ASSUME NEW w \in Workers, Panic(w) PROVE BatchInv'
  BY <1>4, Values, DeliverBatchInv DEF Panic
<1>5. CASE SendJob
  BY <1>5, SendJobBatchInv
<1>6. CASE CloseJobs \/ Join
  BY <1>6, PhaseBatchInv
<1>7. CASE Collect
  BY <1>7, CollectBatchInv
<1>8. CASE Emit
  BY <1>8, EmitBatchInv
<1>9. CASE PushSymlink
  BY <1>9, PushSymlinkBatchInv
<1>10. CASE ReadCounters \/ WriteReport
  BY <1>10, ClosingBatchInv
<1>11. CASE UNCHANGED vars
  <2> USE <1>11 DEF vars, reportVars
  <2>1. /\ \A i : /\ Queued(i)' = Queued(i)
                  /\ Working(i)' = Working(i)
                  /\ Delivered(i)' = Delivered(i)
                  /\ Filed(i)' = Filed(i)
        /\ FiledSlots' = FiledSlots
    BY DEF Queued, Working, Delivered, Filed, FiledSlots
  <2>2. TypeOK' /\ Stages' /\ Emitted' /\ Apart'
    BY DEF BatchInv, TypeOK, Stages, Emitted, Apart
  <2>3. Located'
    BY <2>1 DEF BatchInv, Located
  <2>4. ResultsTrue'
    BY <2>1 DEF BatchInv, ResultsTrue
  <2>5. InOrder' /\ SummaryAgrees' /\ CountersComplete' /\ ExitTrue'
    BY DEF BatchInv, InOrder, SummaryAgrees, CountersComplete, ExitTrue, ExitWith
  <2> QED
    BY <2>2, <2>3, <2>4, <2>5 DEF BatchInv
<1> QED
  BY <1>1, <1>2, <1>3, <1>4, <1>5, <1>6, <1>7, <1>8, <1>9, <1>10, <1>11
     DEF Next, MainStep, Work, Ended

-----------------------------------------------------------------------------
(* No job is lost and none is worked on twice: in every state of every run *)
(* the invariant holds, whatever the schedule.                             *)
THEOREM BatchInvariance == Spec => []BatchInv
<1>1. Init => BatchInv
  BY InitBatchInv
<1>2. BatchInv /\ [Next]_vars => BatchInv'
  BY NextBatchInv
<1> QED
  BY <1>1, <1>2, PTL DEF Spec

(* A set without two elements counts as one or as none.                    *)
LEMMA AtMostOne ==
  ASSUME NEW S, \A x, y \in S : x = y
  PROVE  Cardinality(S) = Is(\E x \in S : TRUE)
<1>1. CASE S = {}
  BY <1>1, FS_EmptySet DEF Is
<1>2. CASE S # {}
  <2>1. PICK x \in S : TRUE
    BY <1>2
  <2>2. S = {x}
    BY <2>1
  <2>3. Cardinality({x}) = 1
    BY FS_Singleton
  <2> QED
    BY <2>1, <2>2, <2>3 DEF Is
<1> QED
  BY <1>1, <1>2

(* A job is in exactly one place: still to be sent, queued, with one       *)
(* worker, among the results, or filed (the channels and the mutex around  *)
(* the receiving end in process_batch).                                    *)
THEOREM JobsHaveOnePlace == Spec => []OnePlace
<1>1. BatchInv => OnePlace
  <2> SUFFICES ASSUME BatchInv, NEW i \in Indexes
               PROVE  Cardinality(Places(i).queued) + Cardinality(Places(i).worked)
                        + Cardinality(Places(i).delivered) + Is(slots[i] # Empty)
                        + Is(i >= sent) = 1
    BY DEF OnePlace, BatchInv
  <2> USE DEF BatchInv
  <2>1. Cardinality(Places(i).queued) = Is(Queued(i))
    <3> DEFINE S == {n \in DOMAIN jobs : jobs[n] = i}
    <3>1. \A x, y \in S : x = y
      BY DEF Apart
    <3>2. Queued(i) <=> \E x \in S : TRUE
      BY DEF Queued
    <3> HIDE DEF S
    <3>3. Cardinality(S) = Is(Queued(i))
      BY <3>1, <3>2, AtMostOne DEF Is
    <3> QED
      BY <3>3 DEF Places, S
  <2>2. Cardinality(Places(i).worked) = Is(Working(i))
    <3> DEFINE S == {w \in Workers : job[w] = i}
    <3>1. \A x, y \in S : x = y
      BY Values DEF Apart
    <3>2. Working(i) <=> \E x \in S : TRUE
      BY DEF Working
    <3> HIDE DEF S
    <3>3. Cardinality(S) = Is(Working(i))
      BY <3>1, <3>2, AtMostOne DEF Is
    <3> QED
      BY <3>3 DEF Places, S
  <2>3. Cardinality(Places(i).delivered) = Is(Delivered(i))
    <3> DEFINE S == {n \in DOMAIN results : results[n][1] = i}
    <3>1. \A x, y \in S : x = y
      BY DEF Apart
    <3>2. Delivered(i) <=> \E x \in S : TRUE
      BY DEF Delivered
    <3> HIDE DEF S
    <3>3. Cardinality(S) = Is(Delivered(i))
      BY <3>1, <3>2, AtMostOne DEF Is
    <3> QED
      BY <3>3 DEF Places, S
  <2>4. Is(Filed(i)) = Is(slots[i] # Empty)
    BY DEF Filed
  <2>5. Is(Queued(i)) + Is(Working(i)) + Is(Delivered(i)) + Is(Filed(i)) + Is(i >= sent) = 1
    BY DEF Located
  <2> QED
    BY <2>1, <2>2, <2>3, <2>4, <2>5
<1> QED
  BY <1>1, BatchInvariance, PTL

(* The report tells what the pipelines did: each input's outcome at its    *)
(* own position, a summary that adds the list up, and counters read when   *)
(* no worker runs any more (emit and RunReport::push).                     *)
THEOREM ReportIsExact == Spec => []ReportExact
<1>1. BatchInv => ReportExact
  BY DEF BatchInv, ReportExact
<1> QED
  BY <1>1, BatchInvariance, PTL

(* A lost output shows in the exit code, and otherwise the code tells      *)
(* whether the list of reports holds a refused input (main).               *)
THEOREM ExitCodeTells == Spec => []ExitTells
<1>1. BatchInv => ExitTells
  <2> SUFFICES ASSUME BatchInv, main = "done"
               PROVE  /\ failures > 0 => exit = 2
                      /\ exit # 2 => (exit = 1 <=> Tally(inputs, RefusedStatus) > 0)
    BY DEF ExitTells
  <2>1. PICK written \in BOOLEAN : exit = ExitWith(written)
    BY DEF BatchInv, ExitTrue
  <2>2. run.refused = Tally(inputs, RefusedStatus)
    BY DEF BatchInv, SummaryAgrees, SummaryOf
  <2>3. failures \in Nat
    BY DEF BatchInv, TypeOK
  <2> QED
    BY <2>1, <2>2, <2>3 DEF ExitWith, ExitCode
<1> QED
  BY <1>1, BatchInvariance, PTL
=============================================================================
