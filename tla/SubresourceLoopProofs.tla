------------------------- MODULE SubresourceLoopProofs -------------------------
(***************************************************************************)
(* Theorems about SubresourceLoop, for every document, every policy, every *)
(* budget and whatever the fetches and the sanitiser answer.               *)
(***************************************************************************)
EXTENDS SubresourceLoop, SumProofs

(* The call under way is for the reference the loop stands at, within what *)
(* was left of the joint budgets when it began.                            *)
OwnCall ==
  busy =>
    /\ Enabled /\ next <= Len(references)
    /\ call.url = Url /\ Url \in Fetchable
    /\ call.guarded /\ call.parent = ParentEndpoint
    /\ bytes + call.cap <= MaxTotalBytes

BytesReported(rs) == MapThenSumSet(LAMBDA i : rs[i].bytes, DOMAIN rs)

(* Spent says what was spent: the calls made, and the bytes reported.      *)
Spending ==
  /\ requests = Len(started) /\ requests <= MaxRequests
  /\ bytes = BytesReported(reports)
  /\ bytes <= MaxTotalBytes

(* The URLs dealt with are those of the references passed, and the one     *)
(* being fetched; whatever was requested is among them.                    *)
SeenExact ==
  /\ \A u \in Fetchable :
       u \in seen <=> \/ \E m \in 1 .. next - 1 : Absolute[references[m]] = u
                      \/ busy /\ u = Url
  /\ busy => \A m \in 1 .. next - 1 : Absolute[references[m]] # Url
  /\ \A i \in DOMAIN started : started[i].call.url \in seen

(* What has a report has been passed.                                      *)
ReportedPassed ==
  \A i \in DOMAIN reports : \E m \in 1 .. next - 1 :
    Absolute[references[m]] = reports[i].url

(* No two copies share a file, and each is numbered by its report.         *)
AssetsApart ==
  /\ \A a \in DOMAIN assets : assets[a].slot < Len(reports)
  /\ \A a, b \in DOMAIN assets : assets[a].slot = assets[b].slot => a = b

(* The references that name a URL first, and those of them passed.         *)
Firsts ==
  {n \in DOMAIN references :
     /\ Absolute[references[n]] \in Fetchable
     /\ \A m \in 1 .. n - 1 : Absolute[references[m]] # Absolute[references[n]]}

UpTo(n) == {m \in Firsts : m <= n}

Passed == {n \in Firsts : n < next}

ReportsInOrder ==
  /\ Len(reports) = Cardinality(Passed)
  /\ \A n \in Passed : reports[Cardinality(UpTo(n))].url = Absolute[references[n]]

LoopInv ==
  /\ InternalOnlyOwn   \* includes TypeOK
  /\ OwnCall /\ Spending /\ WithinParentTime /\ SeenExact /\ OncePerUrl
  /\ ReportedPassed /\ AssetsApart /\ RewritesTrue /\ ReportsInOrder

-----------------------------------------------------------------------------
(* What is known of the constants.                                         *)
LEMMA LoopConstants ==
  /\ Fetchable \subseteq Urls /\ NoUrl \notin Fetchable
  /\ Absolute \in [Raws -> Urls \cup {NoUrl}]
  /\ Documents \subseteq Seq(Raws)
  /\ ParentEndpoint \in Endpoint
  /\ Policies \subseteq SubresourcesRules
  /\ MaxRequests \in Nat /\ MaxTotalBytes \in Nat /\ MaxResponseBytes \in Nat
  /\ TotalTimeout \in Nat /\ RedirectLimit \in Nat /\ MaxTime \in Nat /\ MaxNow \in Nat
  /\ NoCall \in Call
BY LoopAssumption, FetchAssumption DEF NoCall, Call, Endpoint

(* The references that were passed, and the one the loop stands at.        *)
LEMMA References ==
  ASSUME TypeOK
  PROVE  /\ references \in Seq(Raws)
         /\ DOMAIN references = 1 .. Len(references) /\ Len(references) \in Nat
         /\ next \in Nat /\ next >= 1 /\ next <= Len(references) + 1
         /\ next <= Len(references) => Raw \in Raws
         /\ \A m \in 1 .. next - 1 : m \in DOMAIN references /\ m < next
BY LoopConstants DEF TypeOK, Raw

-----------------------------------------------------------------------------
(* it adds up, over each of the sets in D, what the reports rs count.      *)
ByteSums(it, rs, D) ==
  it = [s \in D |-> IF s = {} THEN 0 ELSE rs[First(s)].bytes + it[s \ {First(s)}]]

(* What the fold of the library comes down to.                             *)
LEMMA BytesDef ==
  ASSUME NEW rs
  PROVE  BytesReported(rs) =
           (CHOOSE it : ByteSums(it, rs, SUBSET DOMAIN rs))[DOMAIN rs]
BY DEF BytesReported, MapThenSumSet, MapThenFoldSet, ByteSums, First

Bytes(rs) == [i \in DOMAIN rs |-> rs[i].bytes]

(* The bytes reported are the sum of each report's.                        *)
LEMMA BytesSum ==
  ASSUME NEW rs, IsFiniteSet(DOMAIN rs)
  PROVE  BytesReported(rs) = SumOver(Bytes(rs), DOMAIN rs)
<1> DEFINE D == DOMAIN rs
           jt == CHOOSE it : ByteSums(it, rs, SUBSET D)
<1>1. BytesReported(rs) = jt[D]
  BY BytesDef
<1>2. \A s \in SUBSET D : s # {} => Bytes(rs)[First(s)] = rs[First(s)].bytes
  BY DEF First, Bytes
<1> HIDE DEF D
<1>3. \A it : Unfolds(it, Bytes(rs), SUBSET D) <=> ByteSums(it, rs, SUBSET D)
  BY <1>2 DEF Unfolds, ByteSums
<1>4. IsFiniteSet(D)
  BY DEF D
<1>5. PICK it : ByteSums(it, rs, SUBSET D)
  BY <1>3, <1>4, UnfoldsExists
<1>6. ByteSums(jt, rs, SUBSET D)
  BY <1>5
<1> HIDE DEF jt
<1>7. Unfolds(jt, Bytes(rs), SUBSET D)
  BY <1>3, <1>6
<1>8. SumOver(Bytes(rs), D) = jt[D]
  BY <1>4, <1>7, SumUnfolds
<1> QED
  BY <1>1, <1>8 DEF D

(* A report adds its bytes to what was reported.                           *)
LEMMA BytesPush ==
  ASSUME NEW rs \in Seq(SubresourceReport), NEW rep \in SubresourceReport
  PROVE  /\ BytesReported(Append(rs, rep)) = BytesReported(rs) + rep.bytes
         /\ BytesReported(rs) \in Nat
<1> DEFINE n == Len(rs) + 1
           D == DOMAIN rs
           V == Bytes(Append(rs, rep))
           W == Bytes(rs)
<1>1. /\ D = 1 .. Len(rs) /\ Len(rs) \in Nat
      /\ DOMAIN Append(rs, rep) = D \cup {n}
      /\ n \notin D
      /\ Append(rs, rep)[n] = rep
      /\ \A i \in D : Append(rs, rep)[i] = rs[i] /\ rs[i] \in SubresourceReport
  OBVIOUS
<1>2. V[n] = rep.bytes /\ V[n] \in Nat
  BY <1>1 DEF Bytes, SubresourceReport
<1>3. \A i \in D : V[i] = W[i] /\ W[i] \in Nat /\ V[i] \in Nat
  BY <1>1 DEF Bytes, SubresourceReport
<1>4. IsFiniteSet(D) /\ IsFiniteSet(D \cup {n})
  <2>1. IsFiniteSet(1 .. Len(rs))
    BY <1>1, FS_Interval
  <2> HIDE DEF D, n
  <2> QED
    BY <1>1, <2>1, FS_AddElement
<1>5. /\ BytesReported(rs) = SumOver(W, D)
      /\ BytesReported(Append(rs, rep)) = SumOver(V, D \cup {n})
  BY <1>1, <1>4, BytesSum
<1> HIDE DEF D, V, W, n
<1>6. SumOver(V, D \cup {n}) = SumOver(V, D) + V[n]
  BY <1>1, <1>2, <1>3, <1>4, SumAdd
<1>7. SumOver(V, D) = SumOver(W, D) /\ SumOver(W, D) \in Nat
  BY <1>3, <1>4, SumEqual, SumType
<1> QED
  BY <1>2, <1>5, <1>6, <1>7

-----------------------------------------------------------------------------
(* How many of the references that name a URL first were passed.           *)
LEMMA CountFirsts ==
  ASSUME TypeOK
  PROVE  /\ IsFiniteSet(Firsts) /\ Firsts \subseteq DOMAIN references
         /\ IsFiniteSet(Passed) /\ Cardinality(Passed) \in Nat
         /\ \A n \in Passed :
              /\ IsFiniteSet(UpTo(n))
              /\ Cardinality(UpTo(n)) \in 1 .. Cardinality(Passed)
<1>1. /\ DOMAIN references = 1 .. Len(references) /\ Len(references) \in Nat
      /\ next \in Nat
  BY References
<1>2. IsFiniteSet(DOMAIN references) /\ Firsts \in SUBSET DOMAIN references
  BY <1>1, FS_Interval DEF Firsts
<1>3. IsFiniteSet(Firsts) /\ Passed \in SUBSET Firsts
  BY <1>2, FS_Subset DEF Passed
<1>4. IsFiniteSet(Passed) /\ Cardinality(Passed) \in Nat
  BY <1>3, FS_Subset, FS_CardinalityType
<1>5. ASSUME NEW n \in Passed
      PROVE  IsFiniteSet(UpTo(n)) /\ Cardinality(UpTo(n)) \in 1 .. Cardinality(Passed)
  <2>1. n \in Firsts /\ n \in Nat /\ n < next
    BY <1>1, <1>2 DEF Passed
  <2>2. UpTo(n) \in SUBSET Passed /\ n \in UpTo(n)
    BY <1>1, <1>2, <2>1 DEF UpTo, Passed
  <2>3. /\ IsFiniteSet(UpTo(n))
        /\ Cardinality(UpTo(n)) <= Cardinality(Passed)
        /\ Cardinality(UpTo(n)) \in Nat
    BY <1>4, <2>2, FS_Subset, FS_CardinalityType
  <2>4. Cardinality(UpTo(n)) # 0
    BY <2>2, <2>3, FS_EmptySet
  <2> QED
    BY <1>4, <2>3, <2>4
<1> QED
  BY <1>2, <1>3, <1>4, <1>5

-----------------------------------------------------------------------------
(* A report is recorded for the reference the loop stands at, the first to *)
(* name its URL; a copy is kept of what is clean or was sanitised.         *)
Recorded(status, length, kept) ==
  /\ next <= Len(references)
  /\ Url \in Fetchable
  /\ \A m \in 1 .. next - 1 : Absolute[references[m]] # Url
  /\ status \in InputStatus /\ length \in Nat /\ kept \in BOOLEAN
  /\ kept => status \in {"Clean", "Sanitised"}
  /\ Record(status, length, kept)

(* What it leaves behind has the right types, and the bytes add up.        *)
LEMMA RecordTypes ==
  ASSUME LoopInv, NEW status, NEW length, NEW kept, Recorded(status, length, kept)
  PROVE  /\ next' = next + 1 /\ next' \in 1 .. Len(references) + 1
         /\ UNCHANGED <<rules, references>>
         /\ reports' = Append(reports, [url |-> Url, status |-> status, bytes |-> length])
         /\ reports \in Seq(SubresourceReport) /\ reports' \in Seq(SubresourceReport)
         /\ assets' \in Seq(Asset)
         /\ rewrites' \in [Raws -> Target]
         /\ actions' \in Seq(Raws)
         /\ BytesReported(reports') = BytesReported(reports) + length
<1> DEFINE rep == [url |-> Url, status |-> status, bytes |-> length]
<1>1. TypeOK
  BY DEF LoopInv, InternalOnlyOwn
<1>2. rep \in SubresourceReport /\ reports \in Seq(SubresourceReport)
  BY <1>1 DEF Recorded, TypeOK, SubresourceReport
<1>3. /\ next' = next + 1 /\ next' \in 1 .. Len(references) + 1
      /\ UNCHANGED <<rules, references>>
      /\ reports' = Append(reports, rep)
  BY <1>1, References DEF Recorded, Record
<1>4. reports' \in Seq(SubresourceReport)
  <2> HIDE DEF rep
  <2> QED
    BY <1>2, <1>3
<1>5. assets' \in Seq(Asset)
  <2>1. [url |-> Url, slot |-> Len(reports)] \in Asset
    BY <1>2 DEF Recorded, Asset
  <2>2. assets \in Seq(Asset)
    BY <1>1 DEF TypeOK
  <2> QED
    BY <2>1, <2>2 DEF Recorded, Record
<1>6. rewrites' \in [Raws -> Target] /\ actions' \in Seq(Raws)
  <2>1. TargetFor(status, kept) \in Target
    <3>1. Len(reports) \in Nat
      BY <1>2
    <3>2. Kept \in Target /\ Placeholder \in Target
      BY DEF Kept, Placeholder, Target
    <3>3. [kind |-> "asset", slot |-> Len(reports)] \in Target
      BY <3>1 DEF Target
    <3> QED
      BY <3>2, <3>3 DEF TargetFor
  <2>2. Raw \in Raws
    BY <1>1, References DEF Recorded
  <2> QED
    BY <1>1, <2>1, <2>2 DEF Recorded, Record, TypeOK
<1>7. BytesReported(reports') = BytesReported(reports) + rep.bytes
  <2> HIDE DEF rep
  <2> QED
    BY <1>2, <1>3, BytesPush
<1> QED
  BY <1>2, <1>3, <1>4, <1>5, <1>6, <1>7

(* The reports stay in the order of the first mentions.                    *)
LEMMA RecordOrder ==
  ASSUME LoopInv, NEW status, NEW length, NEW kept, Recorded(status, length, kept)
  PROVE  ReportsInOrder' /\ ReportedPassed'
<1>1. TypeOK /\ ReportsInOrder /\ ReportedPassed
  BY DEF LoopInv, InternalOnlyOwn
<1> DEFINE rep == [url |-> Url, status |-> status, bytes |-> length]
           k == Len(reports) + 1
<1>2. /\ next' = next + 1 /\ references' = references /\ reports' = Append(reports, rep)
      /\ reports \in Seq(SubresourceReport)
  BY RecordTypes
<1>3. /\ Len(reports) \in Nat /\ Len(reports') = k
      /\ DOMAIN reports = 1 .. Len(reports)
      /\ DOMAIN reports' = DOMAIN reports \cup {k}
      /\ \A i \in DOMAIN reports : reports'[i] = reports[i]
      /\ reports'[k].url = Url
  BY <1>2
<1> HIDE DEF rep, k
<1>4. /\ DOMAIN references = 1 .. Len(references) /\ Len(references) \in Nat
      /\ next \in Nat /\ next >= 1 /\ next <= Len(references)
  BY <1>1, References DEF Recorded
<1>5. next \in Firsts /\ Url = Absolute[references[next]]
  BY <1>4 DEF Recorded, Firsts, Url, Raw
<1>6. Firsts' = Firsts /\ \A n : UpTo(n)' = UpTo(n)
  BY <1>2 DEF Firsts, UpTo
<1>7. /\ Passed' = Passed \cup {next} /\ next \notin Passed
      /\ UpTo(next) = Passed \cup {next}
  <2>1. \A n \in Firsts : /\ n < next + 1 <=> (n < next \/ n = next)
                          /\ n <= next <=> (n < next \/ n = next)
    BY <1>4 DEF Firsts
  <2>2. Passed' = {n \in Firsts : n < next + 1}
    BY <1>2, <1>6 DEF Passed
  <2> HIDE DEF Firsts
  <2>3. {n \in Firsts : n < next + 1} = Passed \cup {next}
    BY <1>5, <2>1 DEF Passed
  <2>4. UpTo(next) = Passed \cup {next}
    BY <1>5, <2>1 DEF Passed, UpTo
  <2>5. next \notin Passed
    BY <1>4 DEF Passed
  <2> QED
    BY <2>2, <2>3, <2>4, <2>5
<1>8. /\ IsFiniteSet(Passed) /\ Cardinality(Passed) = Len(reports)
      /\ \A n \in Passed : Cardinality(UpTo(n)) \in DOMAIN reports
  BY <1>1, <1>3, CountFirsts DEF ReportsInOrder
<1>9. Cardinality(Passed \cup {next}) = k
  <2> HIDE DEF Passed
  <2> QED
    BY <1>7, <1>8, FS_AddElement DEF k
<1>10. ReportsInOrder'
  <2>1. ASSUME NEW n \in Passed
        PROVE  reports'[Cardinality(UpTo(n))].url = Absolute[references[n]]
    BY <1>1, <1>3, <1>8 DEF ReportsInOrder
  <2>2. reports'[Cardinality(UpTo(next))].url = Absolute[references[next]]
    BY <1>3, <1>5, <1>7, <1>9
  <2>3. \A n \in Passed' :
          reports'[Cardinality(UpTo(n)')].url = Absolute[references'[n]]
    BY <1>2, <1>6, <1>7, <2>1, <2>2
  <2> HIDE DEF Passed, UpTo
  <2> QED
    BY <1>3, <1>7, <1>9, <2>3 DEF ReportsInOrder
<1>11. ReportedPassed'
  <2>1. ASSUME NEW i \in DOMAIN reports
        PROVE  \E m \in 1 .. next : Absolute[references[m]] = reports'[i].url
    <3>1. PICK m \in 1 .. next - 1 : Absolute[references[m]] = reports[i].url
      BY <1>1 DEF ReportedPassed
    <3>2. m \in 1 .. next
      BY <1>4
    <3> QED
      BY <1>3, <3>1, <3>2
  <2>2. \E m \in 1 .. next : Absolute[references[m]] = reports'[k].url
    BY <1>3, <1>4, <1>5
  <2>3. 1 .. next' - 1 = 1 .. next
    BY <1>2, <1>4
  <2> QED
    BY <1>2, <1>3, <2>1, <2>2, <2>3 DEF ReportedPassed
<1> QED
  BY <1>10, <1>11

(* A rewritten reference still points at its own copy, or was refused.     *)
LEMMA RecordRewrites ==
  ASSUME LoopInv, NEW status, NEW length, NEW kept, Recorded(status, length, kept)
  PROVE  AssetsApart' /\ RewritesTrue'
<1>1. TypeOK /\ ReportedPassed /\ AssetsApart /\ RewritesTrue
  BY DEF LoopInv, InternalOnlyOwn
<1> DEFINE rep == [url |-> Url, status |-> status, bytes |-> length]
           k == Len(reports) + 1
           l == Len(assets) + 1
           fresh == [url |-> Url, slot |-> Len(reports)]
           to == TargetFor(status, kept)
<1>2. /\ rules' = rules
      /\ reports' = Append(reports, rep) /\ reports \in Seq(SubresourceReport)
      /\ assets \in Seq(Asset) /\ rewrites \in [Raws -> Target]
      /\ assets' = IF kept THEN Append(assets, fresh) ELSE assets
      /\ rewrites' = IF to = Kept THEN rewrites ELSE [rewrites EXCEPT ![Raw] = to]
  BY <1>1, RecordTypes DEF Recorded, Record, TypeOK
<1>3. /\ Len(reports) \in Nat /\ Len(reports') = k
      /\ DOMAIN reports \subseteq DOMAIN reports'
      /\ \A i \in DOMAIN reports : reports'[i] = reports[i]
      /\ k \in DOMAIN reports' /\ reports'[k].url = Url /\ reports'[k].status = status
  BY <1>2
<1>4. /\ DOMAIN assets \subseteq DOMAIN assets' /\ l \notin DOMAIN assets
      /\ \A a \in DOMAIN assets : assets'[a] = assets[a] /\ assets[a] \in Asset
      /\ kept => DOMAIN assets' = DOMAIN assets \cup {l} /\ assets'[l] = fresh
      /\ ~kept => assets' = assets
  BY <1>2
<1>5. /\ Raw \in Raws /\ Url = Absolute[Raw]
  BY <1>1, References DEF Recorded, Url
<1>6. /\ ~rules.rewrite_refs => to = Kept
      /\ kept /\ rules.rewrite_refs => to = [kind |-> "asset", slot |-> Len(reports)]
      /\ to.kind = "asset" => kept /\ to.slot = Len(reports)
      /\ to.kind = "placeholder" => status \in {"Refused", "BudgetExceeded", "SsrfBlocked"}
      /\ to.kind = "kept" => to = Kept
      /\ Kept.kind = "kept"
  BY DEF TargetFor, Kept, Placeholder
<1>7. \A u, S : Reported(u, S) => Reported(u, S)'
  BY <1>3 DEF Reported
<1>8. \A S : ~Reported(Url, S)
  <2>1. \A i \in DOMAIN reports : reports[i].url # Url
    BY <1>1 DEF ReportedPassed, Recorded
  <2> QED
    BY <2>1 DEF Reported
<1>9. rewrites[Raw].kind = "kept"
  BY <1>1, <1>2, <1>5, <1>8 DEF RewritesTrue, Target
<1>10. /\ \A r \in Raws : r # Raw => rewrites'[r] = rewrites[r]
       /\ rewrites'[Raw] = to \/ (rewrites'[Raw].kind = "kept" /\ to = Kept)
       /\ to # Kept => rewrites'[Raw] = to
  <2> HIDE DEF to
  <2>1. CASE to = Kept
    BY <1>2, <1>9, <2>1
  <2>2. CASE to # Kept
    <3>1. rewrites' = [rewrites EXCEPT ![Raw] = to]
      BY <1>2, <2>2
    <3> QED
      BY <1>2, <1>5, <2>2, <3>1
  <2> QED
    BY <2>1, <2>2
<1> HIDE DEF to, rep
<1>11. AssetsApart'
  <2>1. \A a \in DOMAIN assets : assets[a].slot < Len(reports) /\ assets[a].slot \in Nat
    BY <1>1, <1>4 DEF AssetsApart, Asset
  <2>2. ASSUME NEW a \in DOMAIN assets' PROVE assets'[a].slot < Len(reports')
    BY <1>3, <1>4, <2>1
  <2>3. ASSUME NEW a \in DOMAIN assets', NEW b \in DOMAIN assets',
               assets'[a].slot = assets'[b].slot
        PROVE  a = b
    BY <1>1, <1>3, <1>4, <2>1, <2>3 DEF AssetsApart
  <2> QED
    BY <2>2, <2>3 DEF AssetsApart
<1>12. \A u, S : u = Url /\ status \in S => Reported(u, S)'
  BY <1>3 DEF Reported
<1>13. ASSUME NEW r \in Raws, rewrites'[r].kind = "asset"
       PROVE  /\ \E a \in DOMAIN assets' :
                   assets'[a] = [url |-> Absolute[r], slot |-> rewrites'[r].slot]
              /\ Reported(Absolute[r], {"Clean", "Sanitised"})'
  <2>1. CASE r # Raw
    BY <1>1, <1>4, <1>7, <1>10, <1>13, <2>1 DEF RewritesTrue
  <2>2. CASE r = Raw
    <3>1. kept /\ rewrites'[r].slot = Len(reports)
      BY <1>6, <1>10, <1>13, <2>2
    <3>2. status \in {"Clean", "Sanitised"}
      BY <3>1 DEF Recorded
    <3>3. l \in DOMAIN assets' /\ assets'[l] = [url |-> Absolute[r], slot |-> Len(reports)]
      BY <1>4, <1>5, <2>2, <3>1
    <3> HIDE DEF l
    <3> QED
      BY <1>5, <1>12, <2>2, <3>1, <3>2, <3>3
  <2> QED
    BY <2>1, <2>2
<1>14. ASSUME NEW r \in Raws, rewrites'[r].kind = "placeholder"
       PROVE  Reported(Absolute[r], {"Refused", "BudgetExceeded", "SsrfBlocked"})'
  <2>1. CASE r # Raw
    BY <1>1, <1>7, <1>10, <1>14, <2>1 DEF RewritesTrue
  <2>2. CASE r = Raw
    BY <1>5, <1>6, <1>10, <1>12, <1>14, <2>2
  <2> QED
    BY <2>1, <2>2
<1>15. ASSUME NEW a \in DOMAIN assets', rules.rewrite_refs
       PROVE  \E r \in Raws : rewrites'[r] = [kind |-> "asset", slot |-> assets'[a].slot]
  <2>1. CASE a \in DOMAIN assets
    <3>1. PICK r \in Raws : rewrites[r] = [kind |-> "asset", slot |-> assets[a].slot]
      BY <1>1, <1>15, <2>1 DEF RewritesTrue
    <3>2. r # Raw
      BY <1>9, <3>1
    <3> QED
      BY <1>4, <1>10, <2>1, <3>1, <3>2
  <2>2. CASE a \notin DOMAIN assets
    <3>1. kept /\ a = l /\ assets'[a] = fresh
      BY <1>4, <2>2
    <3>2. to = [kind |-> "asset", slot |-> Len(reports)] /\ to # Kept
      BY <1>6, <1>15, <3>1
    <3> QED
      BY <1>5, <1>10, <3>1, <3>2
  <2> QED
    BY <2>1, <2>2
<1>16. RewritesTrue'
  <2>1. ASSUME NEW r \in Raws, rewrites'[r].kind = "asset"
        PROVE  \E a \in DOMAIN assets' :
                 /\ assets'[a] = [url |-> Absolute[r], slot |-> rewrites'[r].slot]
                 /\ \A b \in DOMAIN assets' : assets'[b].slot = rewrites'[r].slot => a = b
                 /\ Reported(Absolute[r], {"Clean", "Sanitised"})'
    <3>1. PICK a \in DOMAIN assets' :
            assets'[a] = [url |-> Absolute[r], slot |-> rewrites'[r].slot]
      BY <1>13, <2>1
    <3>2. \A b \in DOMAIN assets' : assets'[b].slot = rewrites'[r].slot => a = b
      BY <1>11, <3>1 DEF AssetsApart
    <3> QED
      BY <1>13, <2>1, <3>1, <3>2
  <2> HIDE DEF Reported
  <2> QED
    BY <1>2, <1>14, <1>15, <2>1 DEF RewritesTrue
<1> QED
  BY <1>11, <1>16

(* With its report the URL is done with, and the thread is free.           *)
LEMMA RecordSeen ==
  ASSUME LoopInv, NEW status, NEW length, NEW kept, Recorded(status, length, kept),
         busy' = FALSE, seen' = seen \cup {Url}, UNCHANGED started
  PROVE  SeenExact' /\ OwnCall' /\ OncePerUrl' /\ WithinParentTime'
<1>1. TypeOK /\ SeenExact /\ OncePerUrl /\ WithinParentTime
  BY DEF LoopInv, InternalOnlyOwn
<1>2. next' = next + 1 /\ references' = references
  BY RecordTypes
<1>3. /\ next \in Nat /\ next >= 1
      /\ Url = Absolute[references[next]]
      /\ \A m \in 1 .. next : m \in 1 .. next - 1 \/ m = next
      /\ \A m \in 1 .. next - 1 : m \in 1 .. next
      /\ next' - 1 = next
  BY <1>1, <1>2, References DEF Url, Raw
<1>4. ASSUME NEW u \in Fetchable
      PROVE  u \in seen' <=> \E m \in 1 .. next : Absolute[references[m]] = u
  <2>1. u \in seen <=> \/ \E m \in 1 .. next - 1 : Absolute[references[m]] = u
                       \/ busy /\ u = Url
    BY <1>1 DEF SeenExact
  <2>2. next \in 1 .. next
    BY <1>3
  <2>3. (\E m \in 1 .. next : Absolute[references[m]] = u)
          <=> ((\E m \in 1 .. next - 1 : Absolute[references[m]] = u) \/ u = Url)
    BY <1>3, <2>2
  <2> QED
    BY <2>1, <2>3
<1>5. SeenExact'
  <2>1. \A u \in Fetchable :
          u \in seen' <=> \/ \E m \in 1 .. next' - 1 : Absolute[references'[m]] = u
                          \/ busy' /\ u = Url'
    BY <1>2, <1>3, <1>4
  <2>2. \A i \in DOMAIN started' : started'[i].call.url \in seen'
    BY <1>1 DEF SeenExact
  <2> QED
    BY <2>1, <2>2 DEF SeenExact
<1> QED
  BY <1>1, <1>5 DEF OwnCall, OncePerUrl, WithinParentTime

(* What was recorded stays while nothing is recorded and nothing passed.   *)
LEMMA RecordsStay ==
  ASSUME LoopInv, UNCHANGED <<rules, references, next, reports, assets, rewrites>>
  PROVE  ReportedPassed' /\ AssetsApart' /\ RewritesTrue' /\ ReportsInOrder'
<1>1. ReportedPassed /\ AssetsApart /\ RewritesTrue /\ ReportsInOrder
  BY DEF LoopInv
<1>2. ReportedPassed' /\ AssetsApart'
  BY <1>1 DEF ReportedPassed, AssetsApart
<1>3. RewritesTrue'
  <2>1. \A u, S : Reported(u, S)' = Reported(u, S)
    BY DEF Reported
  <2> QED
    BY <1>1, <2>1 DEF RewritesTrue
<1>4. ReportsInOrder'
  <2>1. Passed' = Passed /\ \A n : UpTo(n)' = UpTo(n)
    BY DEF Passed, UpTo, Firsts
  <2> QED
    BY <1>1, <2>1 DEF ReportsInOrder
<1> QED
  BY <1>2, <1>3, <1>4

-----------------------------------------------------------------------------
(* Before the first reference nothing was asked, reported or rewritten.    *)
LEMMA InitLoopInv == Init => LoopInv
<1> SUFFICES ASSUME Init PROVE LoopInv
  OBVIOUS
<1>1. /\ reports = <<>> /\ assets = <<>> /\ actions = <<>> /\ started = <<>>
      /\ next = 1 /\ busy = FALSE /\ seen = {} /\ requests = 0 /\ bytes = 0
      /\ rules \in Policies /\ references \in Documents /\ now \in 0..MaxNow
      /\ sources = {} /\ call = NoCall /\ result = Pending
      /\ rewrites = [r \in Raws |-> Kept]
  BY DEF Init
<1> HIDE DEF Init
<1>2. TypeOK
  <2>1. Pending \in Fetched \cup [kind : FetchError \cup {"none"}]
    BY DEF Pending, Error
  <2>2. rewrites \in [Raws -> Target]
    BY <1>1 DEF Kept, Target
  <2>3. references \in Seq(Raws) /\ 1 \in 1 .. Len(references) + 1
    BY <1>1, LoopConstants
  <2>4. now \in Nat /\ call \in Call
    BY <1>1, LoopConstants
  <2>5. /\ reports \in Seq(SubresourceReport)
        /\ assets \in Seq(Asset)
        /\ actions \in Seq(Raws)
        /\ started \in Seq([call : Call, at : Nat])
    BY <1>1
  <2>6. /\ busy \in BOOLEAN /\ rules \in Policies /\ references \in Documents
        /\ next \in 1 .. Len(references) + 1
        /\ seen \subseteq Fetchable /\ requests \in Nat /\ bytes \in Nat
        /\ sources \subseteq [final : Fetchable, endpoint : SocketAddrs]
        /\ result \in Fetched \cup [kind : FetchError \cup {"none"}]
    BY <1>1, <2>1, <2>3
  <2> QED
    BY <2>2, <2>4, <2>5, <2>6 DEF TypeOK
<1>3. InternalOnlyOwn
  BY <1>1, <1>2 DEF InternalOnlyOwn
<1>4. BytesReported(<<>>) = 0
  <2>1. DOMAIN <<>> = {} /\ IsFiniteSet({})
    BY FS_EmptySet
  <2>2. BytesReported(<<>>) = SumOver(Bytes(<<>>), {})
    BY <2>1, BytesSum
  <2> QED
    BY <2>1, <2>2, SumFirst
<1>5. OwnCall /\ Spending /\ WithinParentTime /\ OncePerUrl
  BY <1>1, <1>4, LoopConstants DEF OwnCall, Spending, WithinParentTime, OncePerUrl
<1>6. SeenExact /\ ReportedPassed /\ AssetsApart
  BY <1>1 DEF SeenExact, ReportedPassed, AssetsApart
<1>7. RewritesTrue
  BY <1>1 DEF RewritesTrue, Kept
<1>8. ReportsInOrder
  <2>1. Passed = {}
    BY <1>1, <1>2, References DEF Passed, Firsts
  <2>2. Cardinality({}) = 0 /\ Len(<<>>) = 0
    BY FS_EmptySet
  <2> QED
    BY <1>1, <2>1, <2>2 DEF ReportsInOrder
<1> QED
  BY <1>3, <1>5, <1>6, <1>7, <1>8 DEF LoopInv

(* A reference that is passed over names a URL dealt with, or none.        *)
LEMMA SkipLoopInv ==
  ASSUME LoopInv, Skip
  PROVE  LoopInv'
<1>1. TypeOK /\ InternalOnlyOwn /\ Spending /\ WithinParentTime /\ SeenExact /\ OncePerUrl
      /\ ReportedPassed /\ AssetsApart /\ RewritesTrue /\ ReportsInOrder
  BY DEF LoopInv, InternalOnlyOwn
<1>2. /\ ~busy /\ next <= Len(references) /\ Url \notin Fetchable \ seen
      /\ next' = next + 1
      /\ UNCHANGED <<busy, call, result, rules, references, seen, requests, bytes,
                     reports, assets, rewrites, actions, now, started, sources>>
  BY DEF Skip, Looking, Fresh
<1>3. /\ next \in Nat /\ next >= 1 /\ next' \in 1 .. Len(references) + 1
      /\ Url = Absolute[references[next]]
      /\ \A m \in 1 .. next : m \in 1 .. next - 1 \/ m = next
      /\ \A m \in 1 .. next - 1 : m \in 1 .. next
      /\ next \in 1 .. next
      /\ next' - 1 = next
      /\ DOMAIN references = 1 .. Len(references) /\ Len(references) \in Nat
  BY <1>1, <1>2, References DEF Url, Raw
<1>4. InternalOnlyOwn'
  BY <1>1, <1>2, <1>3 DEF TypeOK, InternalOnlyOwn
<1>5. OwnCall' /\ Spending' /\ WithinParentTime' /\ OncePerUrl' /\ AssetsApart'
  BY <1>1, <1>2 DEF OwnCall, Spending, WithinParentTime, OncePerUrl, AssetsApart
<1>6. Url \in Fetchable => \E m \in 1 .. next - 1 : Absolute[references[m]] = Url
  BY <1>1, <1>2 DEF SeenExact
<1>7. SeenExact'
  <2>1. ASSUME NEW u \in Fetchable
        PROVE  u \in seen <=> \E m \in 1 .. next : Absolute[references[m]] = u
    <3>1. u \in seen <=> \E m \in 1 .. next - 1 : Absolute[references[m]] = u
      BY <1>1, <1>2 DEF SeenExact
    <3> QED
      BY <1>3, <1>6, <3>1
  <2>2. \A u \in Fetchable :
          u \in seen' <=> \/ \E m \in 1 .. next' - 1 : Absolute[references'[m]] = u
                          \/ busy' /\ u = Url'
    BY <1>2, <1>3, <2>1
  <2>3. \A i \in DOMAIN started' : started'[i].call.url \in seen'
    BY <1>1, <1>2 DEF SeenExact
  <2> QED
    BY <1>2, <2>2, <2>3 DEF SeenExact
<1>8. ReportedPassed'
  BY <1>1, <1>2, <1>3 DEF ReportedPassed
<1>9. RewritesTrue'
  <2>1. \A u, S : Reported(u, S)' = Reported(u, S)
    BY <1>2 DEF Reported
  <2> QED
    BY <1>1, <1>2, <2>1 DEF RewritesTrue
<1>10. ReportsInOrder'
  <2>1. next \notin Firsts
    BY <1>3, <1>6 DEF Firsts
  <2>2. Firsts' = Firsts /\ \A n : UpTo(n)' = UpTo(n)
    BY <1>2 DEF Firsts, UpTo
  <2>3. \A n \in Firsts : n < next + 1 <=> n < next
    BY <1>3, <2>1 DEF Firsts
  <2> HIDE DEF Firsts
  <2>4. Passed' = Passed
    BY <1>2, <2>2, <2>3 DEF Passed
  <2> QED
    BY <1>1, <1>2, <2>2, <2>4 DEF ReportsInOrder
<1> QED
  BY <1>4, <1>5, <1>7, <1>8, <1>9, <1>10 DEF LoopInv

(* A reference that is turned away is reported at no cost.                 *)
LEMMA TurnAwayLoopInv ==
  ASSUME LoopInv, TurnAway
  PROVE  LoopInv'
<1>1. TypeOK /\ InternalOnlyOwn /\ Spending /\ SeenExact
  BY DEF LoopInv, InternalOnlyOwn
<1>2. /\ ~busy /\ next <= Len(references) /\ Url \in Fetchable \ seen
      /\ seen' = seen \cup {Url}
      /\ Record(Refusal, 0, FALSE) /\ Refusal # "none"
      /\ UNCHANGED <<busy, call, result, requests, bytes, now, started, sources>>
  BY DEF TurnAway, Looking, Fresh
<1>3. Refusal \in InputStatus
  BY <1>2 DEF Refusal, InputStatus
<1>4. \A m \in 1 .. next - 1 : Absolute[references[m]] # Url
  BY <1>1, <1>2 DEF SeenExact
<1>5. Recorded(Refusal, 0, FALSE)
  BY <1>2, <1>3, <1>4 DEF Recorded
<1>6. /\ next' \in 1 .. Len(references) + 1
      /\ UNCHANGED <<rules, references>>
      /\ reports' \in Seq(SubresourceReport) /\ assets' \in Seq(Asset)
      /\ rewrites' \in [Raws -> Target] /\ actions' \in Seq(Raws)
      /\ BytesReported(reports') = BytesReported(reports) + 0
  BY <1>5, RecordTypes
<1>7. ReportsInOrder' /\ ReportedPassed' /\ AssetsApart' /\ RewritesTrue'
  BY <1>5, RecordOrder, RecordRewrites
<1>8. SeenExact' /\ OwnCall' /\ OncePerUrl' /\ WithinParentTime'
  BY <1>2, <1>5, RecordSeen, <1>1 DEF TypeOK
<1>9. InternalOnlyOwn'
  BY <1>1, <1>2, <1>6 DEF TypeOK, InternalOnlyOwn
<1>10. Spending'
  BY <1>1, <1>2, <1>6 DEF Spending, TypeOK
<1> QED
  BY <1>7, <1>8, <1>9, <1>10 DEF LoopInv

(* A request is counted before it is made, and leaves in the fetch's hands *)
(* no more than what is left of the bytes and of the parent's time.        *)
LEMMA RequestLoopInv ==
  ASSUME LoopInv, Request
  PROVE  LoopInv'
<1> DEFINE entry == [call |-> FetchPolicy, at |-> now]
           n == Len(started) + 1
<1>1. TypeOK /\ InternalOnlyOwn /\ Spending /\ SeenExact /\ OncePerUrl /\ WithinParentTime
  BY DEF LoopInv, InternalOnlyOwn
<1>2. /\ Enabled /\ ~busy /\ next <= Len(references) /\ Url \in Fetchable \ seen
      /\ Refusal = "none"
      /\ seen' = seen \cup {Url}
      /\ requests' = requests + 1
      /\ busy' = TRUE /\ call' = FetchPolicy /\ result' = Pending
      /\ started' = Append(started, entry)
      /\ UNCHANGED <<rules, references, next, bytes, reports, assets, rewrites, actions,
                     now, sources>>
  BY DEF Request, Looking, Fresh, Begin
<1>3. requests < MaxRequests /\ bytes < MaxTotalBytes /\ now < MaxTime
  BY <1>1, <1>2, LoopConstants DEF Refusal, TypeOK
<1>4. /\ FetchPolicy \in Call
      /\ FetchPolicy.url = Url
      /\ FetchPolicy.guarded /\ FetchPolicy.parent = ParentEndpoint
      /\ bytes + FetchPolicy.cap <= MaxTotalBytes
      /\ now + FetchPolicy.timeout <= MaxTime
  <2>1. \A i, j \in Nat : Smaller(i, j) \in Nat /\ Smaller(i, j) <= j
    BY DEF Smaller
  <2>2. MaxTotalBytes - bytes \in Nat /\ MaxTime - now \in Nat
    BY <1>1, <1>3, LoopConstants DEF TypeOK
  <2>3. bytes \in Nat /\ now \in Nat
    BY <1>1 DEF TypeOK
  <2> DEFINE c == Smaller(MaxResponseBytes, MaxTotalBytes - bytes)
             t == Smaller(TotalTimeout, MaxTime - now)
  <2>4. /\ c \in Nat /\ bytes + c <= MaxTotalBytes
        /\ t \in Nat /\ now + t <= MaxTime
    <3>1. c \in Nat /\ c <= MaxTotalBytes - bytes /\ t \in Nat /\ t <= MaxTime - now
      BY <2>1, <2>2, LoopConstants
    <3> HIDE DEF c, t
    <3> QED
      BY <2>3, <3>1, LoopConstants
  <2> HIDE DEF c, t
  <2>5. FetchPolicy = [url |-> Url, cap |-> c, timeout |-> t, limit |-> RedirectLimit,
                       guarded |-> TRUE, parent |-> ParentEndpoint]
    BY DEF FetchPolicy, c, t
  <2> QED
    BY <1>2, <2>4, <2>5, LoopConstants DEF Call
<1>5. /\ entry.call = FetchPolicy /\ entry.at = now
      /\ entry \in [call : Call, at : Nat]
  BY <1>1, <1>4 DEF TypeOK
<1> HIDE DEF entry
<1>6. /\ started \in Seq([call : Call, at : Nat])
      /\ started' \in Seq([call : Call, at : Nat])
      /\ Len(started') = Len(started) + 1
      /\ DOMAIN started' = DOMAIN started \cup {n} /\ n \notin DOMAIN started
      /\ started'[n] = entry
      /\ \A i \in DOMAIN started : started'[i] = started[i]
  BY <1>1, <1>2, <1>5 DEF TypeOK
<1> HIDE DEF n
<1>7. Url' = Url /\ Enabled' = Enabled
  BY <1>2 DEF Url, Raw, Enabled
<1>8. InternalOnlyOwn'
  <2>1. Pending \in Fetched \cup [kind : FetchError \cup {"none"}]
    BY DEF Pending, Error
  <2>2. requests' \in Nat /\ seen' \subseteq Fetchable
    BY <1>1, <1>2 DEF TypeOK
  <2> HIDE DEF Pending
  <2> QED
    BY <1>1, <1>2, <1>4, <1>6, <2>1, <2>2 DEF TypeOK, InternalOnlyOwn
<1>9. OwnCall'
  BY <1>2, <1>4, <1>7 DEF OwnCall
<1>10. Spending'
  BY <1>1, <1>2, <1>3, <1>6, LoopConstants DEF Spending, TypeOK
<1>11. WithinParentTime'
  BY <1>1, <1>4, <1>5, <1>6 DEF WithinParentTime
<1>12. SeenExact'
  <2>1. \A u \in Fetchable :
          u \in seen' <=> \/ \E m \in 1 .. next - 1 : Absolute[references[m]] = u
                          \/ u = Url
    BY <1>1, <1>2 DEF SeenExact
  <2>2. \A m \in 1 .. next - 1 : Absolute[references[m]] # Url
    BY <1>1, <1>2 DEF SeenExact
  <2>3. \A i \in DOMAIN started' : started'[i].call.url \in seen'
    BY <1>1, <1>2, <1>4, <1>5, <1>6 DEF SeenExact
  <2> QED
    BY <1>2, <1>7, <2>1, <2>2, <2>3 DEF SeenExact
<1>13. OncePerUrl'
  <2>1. \A i \in DOMAIN started : started[i].call.url # Url
    BY <1>1, <1>2 DEF SeenExact
  <2> QED
    BY <1>1, <1>4, <1>5, <1>6, <2>1 DEF OncePerUrl
<1>14. ReportedPassed' /\ AssetsApart' /\ RewritesTrue' /\ ReportsInOrder'
  BY <1>2, RecordsStay
<1> QED
  BY <1>8, <1>9, <1>10, <1>11, <1>12, <1>13, <1>14 DEF LoopInv

(* While its call runs, the loop stands at the first reference to its URL. *)
LEMMA CallStands ==
  ASSUME LoopInv, busy
  PROVE  /\ next <= Len(references) /\ Url \in Fetchable
         /\ Url \in seen /\ seen = seen \cup {Url}
         /\ \A m \in 1 .. next - 1 : Absolute[references[m]] # Url
         /\ call \in Call /\ call.guarded /\ call.parent = ParentEndpoint
         /\ bytes + call.cap <= MaxTotalBytes
BY DEF LoopInv, OwnCall, SeenExact, InternalOnlyOwn, TypeOK

(* A fetch that fails costs its request, and is reported.                  *)
LEMMA FetchFailedLoopInv ==
  ASSUME LoopInv, NEW kind \in FetchError, FetchFailed(kind)
  PROVE  LoopInv'
<1> DEFINE status == CASE kind = "ssrf"     -> "SsrfBlocked"
                       [] kind = "toolarge" -> "BudgetExceeded"
                       [] kind = "scheme"   -> "UnsupportedScheme"
                       [] OTHER             -> "FetchError"
<1>1. TypeOK /\ InternalOnlyOwn /\ Spending
  BY DEF LoopInv, InternalOnlyOwn
<1>2. /\ busy /\ busy' = FALSE /\ result' = Error(kind) /\ call' = call
      /\ Record(status, 0, FALSE)
      /\ UNCHANGED <<seen, requests, bytes, now, started, sources>>
  BY DEF FetchFailed, Fail
<1>3. status \in InputStatus
  BY DEF InputStatus
<1> HIDE DEF status
<1>4. Recorded(status, 0, FALSE)
  BY <1>2, <1>3, CallStands DEF Recorded
<1>5. /\ next' \in 1 .. Len(references) + 1
      /\ UNCHANGED <<rules, references>>
      /\ reports' \in Seq(SubresourceReport) /\ assets' \in Seq(Asset)
      /\ rewrites' \in [Raws -> Target] /\ actions' \in Seq(Raws)
      /\ BytesReported(reports') = BytesReported(reports) + 0
  BY <1>4, RecordTypes
<1>6. ReportsInOrder' /\ ReportedPassed' /\ AssetsApart' /\ RewritesTrue'
  BY <1>4, RecordOrder, RecordRewrites
<1>7. SeenExact' /\ OwnCall' /\ OncePerUrl' /\ WithinParentTime'
  <2>1. seen' = seen \cup {Url}
    BY <1>2, CallStands
  <2> QED
    BY <1>2, <1>4, <2>1, RecordSeen
<1>8. InternalOnlyOwn'
  <2>1. result' \in Fetched \cup [kind : FetchError \cup {"none"}]
    BY <1>2 DEF Error
  <2> QED
    BY <1>1, <1>2, <1>5, <2>1 DEF TypeOK, InternalOnlyOwn
<1>9. Spending'
  BY <1>1, <1>2, <1>5 DEF Spending, TypeOK
<1> QED
  BY <1>6, <1>7, <1>8, <1>9 DEF LoopInv

(* A body costs its length, which its call's cap left room for, and comes  *)
(* from an endpoint the guard permits in the scope of the parent.          *)
LEMMA SettleLoopInv ==
  ASSUME LoopInv, NEW body \in Bodies, NEW status \in InputStatus, Settle(body, status)
  PROVE  LoopInv'
<1> DEFINE kept == status \in {"Clean", "Sanitised"}
           source == [final |-> body.final, endpoint |-> body.endpoint]
<1>1. TypeOK /\ InternalOnlyOwn /\ Spending
  BY DEF LoopInv, InternalOnlyOwn
<1>2. /\ busy /\ Delivers(call, body) /\ busy' = FALSE /\ result' = body /\ call' = call
      /\ bytes' = bytes + body.length
      /\ Record(status, body.length, kept)
      /\ sources' = sources \cup {source}
      /\ UNCHANGED <<seen, requests, now, started>>
  BY DEF Settle, Deliver
<1>3. /\ body \in Fetched /\ body.length \in Nat /\ body.length <= call.cap
      /\ body.final \in Fetchable /\ body.endpoint \in SocketAddrs
      /\ Reachable(body.endpoint, body.final, call.guarded, call.parent)
  BY <1>2 DEF Delivers, Fetched
<1>4. kept \in BOOLEAN
  OBVIOUS
<1>5. Recorded(status, body.length, kept)
  BY <1>2, <1>3, <1>4, CallStands DEF Recorded
<1> HIDE DEF kept
<1>6. /\ next' \in 1 .. Len(references) + 1
      /\ UNCHANGED <<rules, references>>
      /\ reports' \in Seq(SubresourceReport) /\ assets' \in Seq(Asset)
      /\ rewrites' \in [Raws -> Target] /\ actions' \in Seq(Raws)
      /\ BytesReported(reports') = BytesReported(reports) + body.length
  BY <1>5, RecordTypes
<1>7. ReportsInOrder' /\ ReportedPassed' /\ AssetsApart' /\ RewritesTrue'
  BY <1>5, RecordOrder, RecordRewrites
<1>8. SeenExact' /\ OwnCall' /\ OncePerUrl' /\ WithinParentTime'
  <2>1. seen' = seen \cup {Url}
    BY <1>2, CallStands
  <2> QED
    BY <1>2, <1>5, <2>1, RecordSeen
<1>9. bytes' \in Nat /\ bytes' <= MaxTotalBytes
  <2>1. bytes \in Nat /\ call.cap \in Nat
    BY <1>1 DEF TypeOK, Call
  <2> QED
    BY <1>2, <1>3, <2>1, CallStands, LoopConstants
<1>10. InternalOnlyOwn'
  <2>1. source \in [final : Fetchable, endpoint : SocketAddrs]
    BY <1>3
  <2>2. source.endpoint \in Forbidden
          => \/ source.final \in AllowListed
             \/ SameOriginExemption /\ source.endpoint = ParentEndpoint
    BY <1>2, <1>3, CallStands DEF Reachable
  <2> HIDE DEF source
  <2>3. TypeOK'
    BY <1>1, <1>2, <1>3, <1>6, <1>9, <2>1 DEF TypeOK
  <2> QED
    BY <1>1, <1>2, <2>2, <2>3 DEF InternalOnlyOwn
<1>11. Spending'
  BY <1>1, <1>2, <1>6, <1>9 DEF Spending
<1> QED
  BY <1>7, <1>8, <1>10, <1>11 DEF LoopInv

(* Time passes, and changes nothing that was spent or promised.            *)
LEMMA IdleLoopInv ==
  ASSUME LoopInv, Tick \/ UNCHANGED vars
  PROVE  LoopInv'
<1>1. TypeOK /\ InternalOnlyOwn /\ Spending /\ SeenExact /\ OncePerUrl /\ WithinParentTime
      /\ OwnCall
  BY DEF LoopInv, InternalOnlyOwn
<1>2. /\ UNCHANGED <<busy, call, result, rules, references, next, seen, requests, bytes,
                     reports, assets, rewrites, actions, started, sources>>
      /\ now' \in Nat
  BY <1>1 DEF Tick, vars, TypeOK
<1>3. Url' = Url /\ Enabled' = Enabled
  BY <1>2 DEF Url, Raw, Enabled
<1>4. InternalOnlyOwn'
  BY <1>1, <1>2 DEF TypeOK, InternalOnlyOwn
<1>5. OwnCall' /\ Spending' /\ SeenExact'
  BY <1>1, <1>2, <1>3 DEF OwnCall, Spending, SeenExact
<1>6. OncePerUrl' /\ WithinParentTime'
  BY <1>1, <1>2 DEF OncePerUrl, WithinParentTime
<1>7. ReportedPassed' /\ AssetsApart' /\ RewritesTrue' /\ ReportsInOrder'
  BY <1>2, RecordsStay
<1> QED
  BY <1>4, <1>5, <1>6, <1>7 DEF LoopInv

(* Every step of the loop keeps the invariant.                             *)
LEMMA NextLoopInv == LoopInv /\ [Next]_vars => LoopInv'
<1> SUFFICES ASSUME LoopInv, [Next]_vars PROVE LoopInv'
  OBVIOUS
<1>1. CASE Skip
  BY <1>1, SkipLoopInv
<1>2. CASE TurnAway
  BY <1>2, TurnAwayLoopInv
<1>3. CASE Request
  BY <1>3, RequestLoopInv
<1>4. ASSUME NEW kind \in FetchError, FetchFailed(kind) PROVE LoopInv'
  BY <1>4, FetchFailedLoopInv
<1>5. ASSUME NEW body \in Bodies, NEW status \in InputStatus, Settle(body, status)
      PROVE  LoopInv'
  BY <1>5, SettleLoopInv
<1>6. CASE Tick \/ UNCHANGED vars
  BY <1>6, IdleLoopInv
<1> QED
  BY <1>1, <1>2, <1>3, <1>4, <1>5, <1>6 DEF Next

-----------------------------------------------------------------------------
(* In every state of every run of the loop the invariant holds.            *)
THEOREM LoopInvariance == Spec => []LoopInv
<1>1. Init => LoopInv
  BY InitLoopInv
<1>2. LoopInv /\ [Next]_vars => LoopInv'
  BY NextLoopInv
<1> QED
  BY <1>1, <1>2, PTL DEF Spec

(* A document's requests, its bytes and each request's time stay within    *)
(* what the policy grants the document (Spent and fetch_policy).           *)
THEOREM BudgetsAreJoint == Spec => []WithinBudgets
<1>1. LoopInv => WithinBudgets
  BY DEF LoopInv, Spending, WithinBudgets, JointBudget, BytesReported
<1> QED
  BY <1>1, LoopInvariance, PTL

(* One URL costs one request, however it is spelt (the seen set).          *)
THEOREM UrlsAreRequestedOnce == Spec => []OncePerUrl
<1>1. LoopInv => OncePerUrl
  BY DEF LoopInv
<1> QED
  BY <1>1, LoopInvariance, PTL

(* Internal endpoints are reached through a document's references only if  *)
(* it came from there itself (the scope fetch_policy sets).                *)
THEOREM InternalStaysOwn == Spec => []InternalOnlyOwn
<1>1. LoopInv => InternalOnlyOwn
  BY DEF LoopInv
<1> QED
  BY <1>1, LoopInvariance, PTL

(* A rewritten reference points at the copy of its own URL, or at the      *)
(* placeholder because its URL was refused (rewrite_target).               *)
THEOREM RewritesAreTrue == Spec => []RewritesTrue
<1>1. LoopInv => RewritesTrue
  BY DEF LoopInv
<1> QED
  BY <1>1, LoopInvariance, PTL

(* When the loop is done, its reports are the document's URLs, each once   *)
(* and in the order of their first mention.                                *)
THEOREM UrlsAreAccountedFor == Spec => []AccountedFor
<1>1. LoopInv => AccountedFor
  <2> SUFFICES ASSUME LoopInv, Finished, Enabled
               PROVE  /\ Len(reports) = Cardinality(Firsts)
                      /\ \A n \in Firsts :
                           reports[Cardinality({m \in Firsts : m <= n})].url
                             = Absolute[references[n]]
    BY DEF AccountedFor, Firsts
  <2>1. next > Len(references) /\ TypeOK
    BY DEF LoopInv, InternalOnlyOwn, Finished
  <2>2. Passed = Firsts
    <3>1. \A n \in Firsts : n < next
      BY <2>1, References DEF Firsts
    <3> HIDE DEF Firsts
    <3> QED
      BY <3>1 DEF Passed
  <2>3. ReportsInOrder
    BY DEF LoopInv
  <2> QED
    BY <2>2, <2>3 DEF ReportsInOrder, UpTo
<1> QED
  BY <1>1, LoopInvariance, PTL
=============================================================================
