----------------------------- MODULE HostProofs ------------------------------
(***************************************************************************)
(* Theorems about the two parts that judge where a link leads.             *)
(*                                                                         *)
(* Guard: no thread is handed an address it may not connect to, for every  *)
(* set of threads, names and endpoints, every policy and every resolver.   *)
(*                                                                         *)
(* UrlCheck: the memo of URL verdicts is transparent, for any number of    *)
(* workers, any values, lists and networks, and any size and sample of the *)
(* table; the table stays within its size, its entries in an order of      *)
(* recency; and masking an address is comparing it with a network's ends.  *)
(***************************************************************************)
EXTENDS Guard, UrlCheck, FiniteSetTheorems, TLAPS

RequestType ==
  [name : Names, guarded : BOOLEAN, parent : SocketAddrs \cup {NoParent}]

(* Serving from the table changes no verdict.                              *)
LEMMA HitKeepsVerdicts ==
  ASSUME CacheTypeOK, NEW k \in Keys, Hit(k)
  PROVE  /\ CacheTypeOK'
         /\ \A x \in Keys : /\ table'[x].kind = table[x].kind
                            /\ table'[x].addrs = table[x].addrs
                            /\ table'[x].decidedAt = table[x].decidedAt
<1>1. table[k] \in Entry
  BY DEF CacheTypeOK
<1>2. [table[k] EXCEPT !.lastUsed = clock] \in Entry
  BY <1>1 DEF CacheTypeOK, Entry
<1>3. table' = [table EXCEPT ![k] = [table[k] EXCEPT !.lastUsed = clock]]
  BY DEF Hit, Touch, CacheTypeOK
<1>4. table' \in [Keys -> Entry]
  BY <1>2, <1>3 DEF CacheTypeOK
<1>5. CacheTypeOK'
  BY <1>4 DEF Hit, CacheTypeOK
<1>6. \A x \in Keys : /\ table'[x].kind = table[x].kind
                      /\ table'[x].addrs = table[x].addrs
                      /\ table'[x].decidedAt = table[x].decidedAt
  BY <1>1, <1>3 DEF CacheTypeOK, Entry
<1> QED
  BY <1>5, <1>6

(* After an insertion every name holds the new verdict, its old one or     *)
(* none; and a refusal that was there still is.                            *)
LEMMA InsertEffect ==
  ASSUME CacheTypeOK, NEW k \in Keys, NEW kind \in {"allowed", "denied"},
         NEW addrs \in Seq(SocketAddrs), Insert(k, kind, addrs)
  PROVE  /\ CacheTypeOK'
         /\ \A x \in Keys :
              \/ table'[x].kind = "absent"
              \/ table'[x] = table[x] /\ (x = k => table[x].kind = "denied")
              \/ /\ x = k
                 /\ table[x].kind # "denied"
                 /\ table'[x].kind = kind
                 /\ table'[x].addrs = addrs
                 /\ table'[x].decidedAt = now
<1>1. CASE table[k].kind = "denied" /\ UNCHANGED cacheVars
  BY <1>1 DEF cacheVars, CacheTypeOK
<1>2. CASE table[k].kind # "denied" /\ Store(k, kind, addrs)
  <2> DEFINE new == [kind |-> kind, addrs |-> addrs,
                     decidedAt |-> now, lastUsed |-> clock]
  <2>1. new \in Entry /\ Absent \in Entry
    BY DEF Absent, Entry, CacheTypeOK
  <2>2. PICK gone \in Victims(k) :
          table' = [x \in Keys |-> IF x = k THEN new
                                   ELSE IF x \in gone THEN Absent ELSE table[x]]
    BY <1>2 DEF Store
  <2> HIDE DEF new
  <2>3. table' \in [Keys -> Entry]
    BY <2>1, <2>2 DEF CacheTypeOK
  <2>4. CacheTypeOK'
    BY <1>2, <2>3 DEF Store, CacheTypeOK
  <2>5. /\ new.kind = kind
        /\ new.addrs = addrs
        /\ new.decidedAt = now
        /\ Absent.kind = "absent"
    BY DEF new, Absent
  <2> QED
    BY <1>2, <2>2, <2>4, <2>5
<1> QED
  BY <1>1, <1>2 DEF Insert

(* Storing a clean answer or a refusal on record keeps the table shareable.*)
LEMMA InsertKeepsSharing ==
  ASSUME CacheTypeOK, SharedVerdictsHold, NEW k \in Keys,
         NEW kind \in {"allowed", "denied"}, NEW addrs \in Seq(SocketAddrs),
         Insert(k, kind, addrs), tainted \subseteq tainted',
         kind = "allowed" => /\ addrs # <<>>
                             /\ \A i \in DOMAIN addrs : addrs[i] \notin Forbidden,
         kind = "denied" => k \in tainted'
  PROVE  CacheTypeOK' /\ SharedVerdictsHold'
<1>1. SUFFICES ASSUME NEW x \in Keys
               PROVE  /\ table'[x].kind = "allowed" =>
                           /\ table'[x].addrs # <<>>
                           /\ \A i \in DOMAIN table'[x].addrs :
                                table'[x].addrs[i] \notin Forbidden
                      /\ table'[x].kind = "denied" => x \in tainted'
  BY InsertEffect DEF SharedVerdictsHold
<1>2. CASE table'[x].kind = "absent"
  BY <1>2
<1>3. CASE table'[x] = table[x]
  BY <1>3 DEF SharedVerdictsHold
<1>4. CASE x = k /\ table'[x].kind = kind /\ table'[x].addrs = addrs
  BY <1>4
<1> QED
  BY <1>2, <1>3, <1>4, InsertEffect

-----------------------------------------------------------------------------
(* Nothing is stored and nothing is answered yet.                         *)
LEMMA InitIInv == Init => IInv
<1> SUFFICES ASSUME Init PROVE IInv
  OBVIOUS
<1>1. CacheTypeOK
  BY CacheAssumption DEF Init, CacheInit, CacheTypeOK, Absent, Entry
<1>2. (CHOOSE r \in Requests : TRUE) \in RequestType
  BY GuardAssumption DEF RequestType
<1>3. TypeOK
  <2>1. req \in [Workers -> RequestType]
    BY <1>2 DEF Init
  <2>2. reply \in [Workers -> Reply]
    BY DEF Init, NoReply, Reply
  <2>3. pc \in [Workers -> {"idle", "get", "lookup", "settle"}]
    BY DEF Init
  <2>4. answer \in [Workers -> Seq(SocketAddrs)] /\ vettedAt \in [Keys -> Nat]
    BY DEF Init
  <2> QED
    BY <1>1, <2>1, <2>2, <2>3, <2>4 DEF Init, TypeOK, RequestType
<1>4. Phases /\ VettedOnly
  BY DEF Init, Phases, VettedOnly, NoReply
<1>5. SharedVerdictsHold
  BY DEF Init, CacheInit, SharedVerdictsHold, Absent
<1> QED
  BY <1>3, <1>4, <1>5 DEF IInv

(* A new request starts with no answer, in the phase its branch needs.    *)
LEMMA CallIInv ==
  ASSUME IInv, NEW w \in Workers, Call(w)
  PROVE  IInv'
<1> USE DEF IInv, TypeOK
<1>1. PICK r \in Requests :
        /\ req' = [req EXCEPT ![w] = r]
        /\ pc' = [pc EXCEPT ![w] = FirstStep(r)]
        /\ answer' = [answer EXCEPT ![w] =
                        IF FirstStep(r) = "settle" THEN <<r.name>> ELSE <<>>]
  BY DEF Call
<1>2. r \in RequestType
  BY GuardAssumption DEF RequestType
<1>3. /\ FirstStep(r) \in {"get", "lookup", "settle"}
      /\ FirstStep(r) = "settle" => r.name \in SocketAddrs /\ r.name \notin AllowHosts
      /\ FirstStep(r) = "get" => r.name \in Keys /\ r.guarded /\ r.name \notin AllowHosts
  BY <1>2 DEF FirstStep, Literal, RequestType, Names
<1>4. TypeOK'
  <2>1. answer' \in [Workers -> Seq(SocketAddrs)]
    BY <1>1, <1>3
  <2>2. CacheTypeOK'
    BY DEF Call, cacheVars, CacheTypeOK
  <2>3. reply' \in [Workers -> Reply]
    BY DEF Call, NoReply, Reply
  <2>4. req' \in [Workers -> RequestType]
    BY <1>1, <1>2 DEF RequestType
  <2> QED
    BY <1>1, <1>3, <2>1, <2>2, <2>3, <2>4 DEF Call, RequestType
<1>5. Phases'
  BY <1>1, <1>3 DEF Phases, Call, NoReply
<1>6. SharedVerdictsHold'
  BY DEF SharedVerdictsHold, Call, cacheVars
<1>7. VettedOnly'
  BY <1>1 DEF VettedOnly, Call, NoReply, Refused, Exempt
<1> QED
  BY <1>4, <1>5, <1>6, <1>7

-----------------------------------------------------------------------------
(* Returning an answer that keeps VettedOnly and Phases keeps the rest.    *)
LEMMA ReturnIInv ==
  ASSUME IInv, NEW w \in Workers,
         NEW kind \in {"ok", "denied", "failed"}, NEW addrs \in Seq(SocketAddrs),
         Return(w, kind, addrs), UNCHANGED <<req, calls>>,
         CacheTypeOK', SharedVerdictsHold', vettedAt' \in [Keys -> Nat],
         tainted \subseteq tainted', tainted' \subseteq Names,
         kind = "ok" => addrs # <<>>,
         kind = "denied" => req[w].guarded /\ req[w].name \notin AllowHosts
                              /\ req[w].name \in tainted',
         kind = "ok" /\ req[w].guarded /\ req[w].name \notin AllowHosts
           => \A i \in DOMAIN addrs : ~Refused(addrs[i], req[w])
  PROVE  IInv'
<1> USE DEF IInv, TypeOK
<1>1. [kind |-> kind, addrs |-> addrs] \in Reply
  BY DEF Reply
<1>2. TypeOK'
  BY <1>1 DEF Return
<1>3. \A v \in Workers : v # w => /\ reply'[v] = reply[v]
                                  /\ pc'[v] = pc[v]
                                  /\ answer'[v] = answer[v]
  BY DEF Return
<1>4. /\ reply'[w].kind = kind
      /\ reply'[w].addrs = addrs
      /\ pc'[w] = "idle"
  BY DEF Return
<1>5. Phases'
  BY <1>3, <1>4 DEF Phases
<1>6. VettedOnly'
  <2> SUFFICES ASSUME NEW v \in Workers,
                      reply'[v].kind = "ok", req[v].guarded, req[v].name \notin AllowHosts,
                      NEW i \in DOMAIN reply'[v].addrs
               PROVE  ~Refused(reply'[v].addrs[i], req[v])
    BY DEF VettedOnly, Refused, Exempt
  <2>1. CASE v = w
    BY <1>4, <2>1
  <2>2. CASE v # w
    BY <1>3, <2>2 DEF VettedOnly
  <2> QED
    BY <2>1, <2>2
<1> QED
  BY <1>2, <1>5, <1>6

(* A verdict served from the table is clean without any exemption.        *)
LEMMA GetHitIInv ==
  ASSUME IInv, NEW w \in Workers, GetHit(w)
  PROVE  IInv'
<1> USE DEF IInv, TypeOK
<1> DEFINE k == req[w].name
           entry == table[k]
           kind == IF entry.kind = "denied" THEN "denied" ELSE "ok"
<1>1. k \in Keys /\ req[w].guarded /\ k \notin AllowHosts
  BY DEF GetHit, Phases
<1>2. Hit(k) /\ Return(w, kind, entry.addrs) /\ UNCHANGED <<req, calls, tainted, vettedAt>>
  BY DEF GetHit
<1>3. entry \in Entry /\ entry.addrs \in Seq(SocketAddrs)
  BY <1>1 DEF CacheTypeOK, Entry
<1>4. entry.kind \in {"allowed", "denied"}
  BY <1>2 DEF Hit, Usable
<1>5. entry.kind = "allowed" =>
        /\ entry.addrs # <<>>
        /\ \A i \in DOMAIN entry.addrs : ~Refused(entry.addrs[i], req[w])
  BY <1>1 DEF SharedVerdictsHold, Refused
<1>6. entry.kind = "denied" => k \in tainted
  BY <1>1 DEF SharedVerdictsHold
<1>7. CacheTypeOK' /\ SharedVerdictsHold'
  BY <1>1, <1>2, HitKeepsVerdicts DEF SharedVerdictsHold
<1> HIDE DEF k, entry
<1>8. kind \in {"ok", "denied", "failed"}
  OBVIOUS
<1> QED
  BY <1>1, <1>2, <1>3, <1>4, <1>5, <1>6, <1>7, <1>8, ReturnIInv DEF k

(* A miss counts, and leaves verdicts and answers alone.                  *)
LEMMA GetMissIInv ==
  ASSUME IInv, NEW w \in Workers, GetMiss(w)
  PROVE  IInv'
<1> USE DEF IInv, TypeOK
<1>1. TypeOK'
  BY DEF GetMiss, Miss, CacheTypeOK
<1>2. Phases'
  BY DEF GetMiss, Phases
<1>3. SharedVerdictsHold' /\ VettedOnly'
  BY DEF GetMiss, Miss, SharedVerdictsHold, VettedOnly, Refused, Exempt
<1> QED
  BY <1>1, <1>2, <1>3

(* An answer of the resolver is never empty.                              *)
LEMMA LookupOkIInv ==
  ASSUME IInv, NEW w \in Workers, LookupOk(w)
  PROVE  IInv'
<1> USE DEF IInv, TypeOK
<1>1. PICK a \in Dns[req[w].name] \ {<<>>} :
        IF req[w].name \in AllowHosts
        THEN Return(w, "ok", a)
        ELSE /\ answer' = [answer EXCEPT ![w] = a]
             /\ pc' = [pc EXCEPT ![w] = "settle"]
             /\ UNCHANGED reply
  BY DEF LookupOk
<1>2. a \in Seq(SocketAddrs) /\ a # <<>>
  BY GuardAssumption
<1>3. CacheTypeOK' /\ SharedVerdictsHold'
  BY DEF LookupOk, cacheVars, CacheTypeOK, SharedVerdictsHold
<1>4. CASE req[w].name \in AllowHosts
  BY <1>1, <1>2, <1>3, <1>4, ReturnIInv DEF LookupOk
<1>5. CASE req[w].name \notin AllowHosts
  <2>1. TypeOK'
    BY <1>1, <1>2, <1>3, <1>5 DEF LookupOk
  <2>2. Phases'
    BY <1>1, <1>2, <1>5 DEF LookupOk, Phases
  <2>3. VettedOnly'
    BY <1>1, <1>5 DEF LookupOk, VettedOnly, Refused, Exempt
  <2> QED
    BY <1>3, <2>1, <2>2, <2>3
<1> QED
  BY <1>4, <1>5

(* A failure hands out nothing.                                           *)
LEMMA LookupFailsIInv ==
  ASSUME IInv, NEW w \in Workers, LookupFails(w)
  PROVE  IInv'
<1>1. CacheTypeOK' /\ SharedVerdictsHold'
  BY DEF IInv, TypeOK, LookupFails, cacheVars, CacheTypeOK, SharedVerdictsHold
<1>2. /\ Return(w, "failed", <<>>)
      /\ UNCHANGED <<req, calls, tainted, vettedAt>>
      /\ <<>> \in Seq(SocketAddrs)
  BY DEF LookupFails
<1>3. tainted \subseteq Names /\ vettedAt \in [Keys -> Nat]
  BY DEF IInv, TypeOK
<1> QED
  BY <1>1, <1>2, <1>3, ReturnIInv

(* An unguarded answer promises nothing, and is not stored.               *)
LEMMA UnguardedIInv ==
  ASSUME IInv, NEW w \in Workers, Unguarded(w)
  PROVE  IInv'
<1>1. CacheTypeOK' /\ SharedVerdictsHold'
  BY DEF IInv, TypeOK, Unguarded, cacheVars, CacheTypeOK, SharedVerdictsHold
<1>2. answer[w] # <<>> /\ answer[w] \in Seq(SocketAddrs)
  BY DEF IInv, TypeOK, Phases, Unguarded
<1> QED
  BY <1>1, <1>2, ReturnIInv DEF Unguarded, IInv, TypeOK

(* A refusal is put on record together with its verdict.                  *)
LEMMA DenyIInv ==
  ASSUME IInv, NEW w \in Workers, Deny(w)
  PROVE  IInv'
<1> USE DEF IInv, TypeOK
<1> DEFINE k == req[w].name
<1>1. PICK i \in RefusedAt(w) :
        /\ IF Literal(k) THEN UNCHANGED cacheVars
                         ELSE Insert(k, "denied", <<answer[w][i]>>)
        /\ Return(w, "denied", <<answer[w][i]>>)
  BY DEF Deny
<1>2. <<answer[w][i]>> \in Seq(SocketAddrs)
  BY DEF RefusedAt
<1>3. tainted' = tainted \cup {k} /\ k \in Names
  BY DEF Deny
<1>4. CacheTypeOK' /\ SharedVerdictsHold'
  <2>1. CASE Literal(k)
    BY <1>1, <1>3, <2>1 DEF cacheVars, CacheTypeOK, SharedVerdictsHold
  <2>2. CASE ~Literal(k)
    <3>1. k \in Keys
      BY <1>3, <2>2 DEF Literal, Names
    <3> QED
      BY <1>1, <1>2, <1>3, <2>2, <3>1, InsertKeepsSharing
  <2> QED
    BY <2>1, <2>2
<1>5. req[w].guarded /\ k \notin AllowHosts
  BY DEF Deny, Phases
<1> QED
  BY <1>1, <1>2, <1>3, <1>4, <1>5, ReturnIInv DEF Deny

(* What is granted was vetted, and is stored only when no exemption helped.*)
LEMMA GrantIInv ==
  ASSUME IInv, NEW w \in Workers, Grant(w)
  PROVE  IInv'
<1> USE DEF IInv, TypeOK
<1> DEFINE k == req[w].name
<1>1. answer[w] # <<>> /\ k \notin AllowHosts /\ answer[w] \in Seq(SocketAddrs)
  BY DEF Grant, Phases
<1>2. \A i \in DOMAIN answer[w] : ~Refused(answer[w][i], req[w])
  BY DEF Grant, RefusedAt
<1>3. CacheTypeOK' /\ SharedVerdictsHold' /\ vettedAt' \in [Keys -> Nat]
  <2>1. CASE Cacheable(w)
    <3>1. k \in Keys
      BY <2>1 DEF Cacheable, Literal, Names
    <3>2. Insert(k, "allowed", answer[w]) /\ vettedAt' = [vettedAt EXCEPT ![k] = now]
      BY <2>1 DEF Grant
    <3>3. \A i \in DOMAIN answer[w] : answer[w][i] \notin Forbidden
      BY <1>2, <2>1 DEF Cacheable, Refused
    <3>4. CacheTypeOK' /\ SharedVerdictsHold'
      BY <1>1, <3>1, <3>2, <3>3, InsertKeepsSharing DEF Grant
    <3> QED
      BY <3>1, <3>2, <3>4 DEF CacheTypeOK
  <2>2. CASE ~Cacheable(w)
    BY <2>2 DEF Grant, cacheVars, CacheTypeOK, SharedVerdictsHold
  <2> QED
    BY <2>1, <2>2
<1> QED
  BY <1>1, <1>2, <1>3, ReturnIInv DEF Grant

(* Every step of every thread keeps the invariant.                        *)
LEMMA NextIInv == IInv /\ [Next]_vars => IInv'
<1> SUFFICES ASSUME IInv, [Next]_vars PROVE IInv'
  OBVIOUS
<1>1. CASE Tick
  BY <1>1 DEF Tick, guardVars, IInv, TypeOK, CacheTypeOK, Phases,
              SharedVerdictsHold, VettedOnly, Refused, Exempt
<1>2. CASE UNCHANGED vars
  BY <1>2 DEF vars, IInv, TypeOK, CacheTypeOK, Phases,
              SharedVerdictsHold, VettedOnly, Refused, Exempt
<1>3. ASSUME NEW w \in Workers, Call(w) \/ Decide(w) PROVE IInv'
  BY <1>3, CallIInv, GetHitIInv, GetMissIInv, LookupOkIInv, LookupFailsIInv,
     UnguardedIInv, DenyIInv, GrantIInv DEF Decide
<1> QED
  BY <1>1, <1>2, <1>3 DEF Next

(* The inductive invariant holds in every reachable state of the guard.   *)
THEOREM Invariance == Spec => []IInv
  BY InitIInv, NextIInv, PTL DEF Spec

-----------------------------------------------------------------------------
(* Every variable keeps its type.                                          *)
THEOREM TypeCorrect == Spec => []TypeOK
<1>1. IInv => TypeOK
  BY DEF IInv
<1> QED
  BY <1>1, Invariance, PTL

(* The guard's core promise: what a guarded resolution hands out is clean  *)
(* or exempt for that very request, whoever resolved it and whenever.      *)
THEOREM OnlyVettedAddresses == Spec => []VettedOnly
<1>1. IInv => VettedOnly
  BY DEF IInv
<1> QED
  BY <1>1, Invariance, PTL

(* A verdict in the shared table never depends on the exemptions of the    *)
(* request it was stored for.                                              *)
THEOREM VerdictsAreShareable == Spec => []SharedVerdictsHold
<1>1. IInv => SharedVerdictsHold
  BY DEF IInv
<1> QED
  BY <1>1, Invariance, PTL

-----------------------------------------------------------------------------
(* What no step of Guard may do, and that Guard implements GuardPromise.   *)

(* All that any step of any thread does to the verdict of one name: evict  *)
(* it, leave it, or record a fresh one where no refusal was.               *)
LEMMA TableStep ==
  ASSUME IInv, [Next]_vars, NEW k \in Keys
  PROVE  \/ table'[k].kind = "absent"
         \/ /\ table'[k].kind = table[k].kind
            /\ table'[k].decidedAt = table[k].decidedAt
            /\ table[k].kind = "allowed" => vettedAt'[k] = vettedAt[k]
         \/ /\ table[k].kind # "denied"
            /\ table'[k].kind = "denied"
         \/ /\ table[k].kind # "denied"
            /\ table'[k].kind = "allowed"
            /\ table'[k].decidedAt = now
            /\ vettedAt'[k] = now
<1> DEFINE Effect ==
      \/ table'[k].kind = "absent"
      \/ /\ table'[k].kind = table[k].kind
         /\ table'[k].decidedAt = table[k].decidedAt
         /\ table[k].kind = "allowed" => vettedAt'[k] = vettedAt[k]
      \/ /\ table[k].kind # "denied"
         /\ table'[k].kind = "denied"
      \/ /\ table[k].kind # "denied"
         /\ table'[k].kind = "allowed"
         /\ table'[k].decidedAt = now
         /\ vettedAt'[k] = now
<1>0. TypeOK /\ CacheTypeOK
  BY DEF IInv, TypeOK
<1>1. CASE UNCHANGED <<table, vettedAt>>
  BY <1>1
<1>2. ASSUME NEW w \in Workers, GetHit(w) PROVE Effect
  <2>1. req[w].name \in Keys /\ Hit(req[w].name) /\ UNCHANGED vettedAt
    BY <1>2 DEF IInv, Phases, GetHit
  <2> QED
    BY <1>0, <2>1, HitKeepsVerdicts
<1>3. ASSUME NEW w \in Workers, Deny(w) PROVE Effect
  <2>1. PICK i \in RefusedAt(w) :
          IF Literal(req[w].name) THEN UNCHANGED cacheVars
          ELSE Insert(req[w].name, "denied", <<answer[w][i]>>)
    BY <1>3 DEF Deny
  <2>2. <<answer[w][i]>> \in Seq(SocketAddrs) /\ UNCHANGED vettedAt
    BY <1>0, <1>3 DEF RefusedAt, TypeOK, Deny
  <2>3. CASE Literal(req[w].name)
    BY <2>1, <2>2, <2>3 DEF cacheVars
  <2>4. CASE ~Literal(req[w].name)
    <3>1. req[w].name \in Keys
      BY <1>0, <2>4 DEF Literal, Names, TypeOK
    <3> DEFINE addrs == <<answer[w][i]>>
    <3>2. Insert(req[w].name, "denied", addrs) /\ addrs \in Seq(SocketAddrs)
      BY <2>1, <2>2, <2>4
    <3> HIDE DEF addrs
    <3>3. \/ table'[k].kind = "absent"
          \/ table'[k] = table[k]
          \/ table[k].kind # "denied" /\ table'[k].kind = "denied"
      BY <1>0, <3>1, <3>2, InsertEffect
    <3> QED
      BY <2>2, <3>3
  <2> QED
    BY <2>3, <2>4
<1>4. ASSUME NEW w \in Workers, Grant(w) PROVE Effect
  <2> DEFINE name == req[w].name
  <2>1. CASE Cacheable(w)
    <3>1. name \in Keys /\ answer[w] \in Seq(SocketAddrs)
      BY <1>0, <2>1 DEF Cacheable, Literal, Names, TypeOK
    <3>2. Insert(name, "allowed", answer[w]) /\ vettedAt' = [vettedAt EXCEPT ![name] = now]
      BY <1>4, <2>1 DEF Grant
    <3>3. k # name => vettedAt'[k] = vettedAt[k]
      BY <3>2
    <3>4. k = name => vettedAt'[k] = now
      BY <1>0, <3>2 DEF TypeOK
    <3> QED
      BY <1>0, <3>1, <3>2, <3>3, <3>4, InsertEffect
  <2>2. CASE ~Cacheable(w)
    BY <1>1, <1>4, <2>2 DEF Grant, cacheVars
  <2> QED
    BY <2>1, <2>2
<1>5. ASSUME NEW w \in Workers, Call(w) \/ Decide(w) PROVE Effect
  <2>1. CASE Call(w) \/ GetMiss(w) \/ LookupOk(w) \/ LookupFails(w) \/ Unguarded(w)
    BY <1>1, <2>1 DEF Call, GetMiss, Miss, LookupOk, LookupFails, Unguarded, cacheVars
  <2> QED
    BY <1>2, <1>3, <1>4, <1>5, <2>1 DEF Decide
<1>6. CASE Tick \/ UNCHANGED vars
  BY <1>1, <1>6 DEF Tick, guardVars, vars
<1> QED
  BY <1>5, <1>6 DEF Next

(* A refusal in the table is never overwritten by a permission, however    *)
(* late the thread that was permitted arrives.                             *)
THEOREM RefusalsWin == Spec => RefusalKept
<1>1. IInv /\ [Next]_vars =>
        [\A k \in Keys : table[k].kind = "denied" => table'[k].kind # "allowed"]_vars
  BY TableStep
<1> QED
  BY <1>1, Invariance, PTL DEF Spec, RefusalKept

-----------------------------------------------------------------------------
(* A resident permission is exactly as old as the answer that earned it.   *)
AgeKnown ==
  \A k \in Keys : table[k].kind = "allowed" => table[k].decidedAt = vettedAt[k]

(* Nothing renews a permission but a new resolution.                       *)
LEMMA AgeStep == IInv /\ AgeKnown /\ [Next]_vars => AgeKnown'
  BY TableStep DEF AgeKnown

(* An address is served from the table less than allow_ttl after it was    *)
(* vetted.                                                                 *)
THEOREM NothingStale == Spec => StaleNeverServed
<1>1. Init => AgeKnown
  BY DEF Init, CacheInit, Absent, AgeKnown
<1>2. IInv /\ AgeKnown /\ [Next]_vars =>
        [\A w \in Workers :
           pc[w] = "get" /\ pc'[w] = "idle" /\ reply'[w].kind = "ok"
             => now - vettedAt[req[w].name] < AllowTtl]_vars
  <2> SUFFICES ASSUME IInv, AgeKnown, Next, NEW w \in Workers,
                      pc[w] = "get", pc'[w] = "idle", reply'[w].kind = "ok"
               PROVE  now - vettedAt[req[w].name] < AllowTtl
    BY DEF IInv
  <2>1. pc \in [Workers -> {"idle", "get", "lookup", "settle"}] /\ reply \in [Workers -> Reply]
    BY DEF IInv, TypeOK
  <2>2. GetHit(w)
    BY <2>1 DEF Next, Tick, guardVars, Call, Decide, GetHit, GetMiss, LookupOk, LookupFails,
                Unguarded, Deny, Grant, Return
  <2>3. req[w].name \in Keys
    BY DEF IInv, Phases
  <2>4. Usable(req[w].name) /\ table[req[w].name].kind # "denied"
    BY <2>1, <2>2 DEF GetHit, Hit, Return
  <2> QED
    BY <2>3, <2>4 DEF Usable, AgeKnown
<1> QED
  BY <1>1, <1>2, AgeStep, Invariance, PTL DEF Spec, StaleNeverServed

-----------------------------------------------------------------------------
(* The table stays within its bound, and finite however many names there   *)
(* are to ask for.                                                         *)
TableInv == IsFiniteSet(Resident) /\ BoundedTable

(* An insertion into a full table takes the place of one verdict; into one *)
(* that is not full, or over a verdict for the same name, it fits.         *)
LEMMA InsertBounded ==
  ASSUME CacheTypeOK, TableInv, NEW k \in Keys, NEW kind \in {"allowed", "denied"},
         NEW addrs, Insert(k, kind, addrs)
  PROVE  TableInv'
<1> USE DEF TableInv, BoundedTable
<1>1. Cardinality(Resident) \in Nat /\ MaxEntries \in Nat
  BY FS_CardinalityType, CacheAssumption
<1>2. CASE UNCHANGED cacheVars
  BY <1>2 DEF cacheVars, Resident
<1>3. CASE Store(k, kind, addrs)
  <2>1. PICK gone \in Victims(k) :
          table' = [x \in Keys |->
                      IF x = k THEN [kind |-> kind, addrs |-> addrs,
                                     decidedAt |-> now, lastUsed |-> clock]
                      ELSE IF x \in gone THEN Absent
                      ELSE table[x]]
    BY <1>3 DEF Store
  <2>2. Resident' = (Resident \ gone) \cup {k}
    <3>1. \A x \in Keys :
            table'[x].kind # "absent" <=> (x = k \/ (table[x].kind # "absent" /\ x \notin gone))
      BY <2>1 DEF Absent
    <3> QED
      BY <3>1 DEF Resident
  <2> HIDE DEF Resident
  <2>3. CASE Cardinality(Resident) >= MaxEntries /\ k \notin Resident
    <3>1. PICK v \in Resident : gone = {v}
      BY <2>3 DEF Victims, Evictable
    <3>2. /\ IsFiniteSet(Resident \ {v})
          /\ Cardinality(Resident \ {v}) = Cardinality(Resident) - 1
      BY <3>1, FS_RemoveElement
    <3>3. k \notin Resident \ {v}
      BY <2>3
    <3>4. /\ IsFiniteSet((Resident \ {v}) \cup {k})
          /\ Cardinality((Resident \ {v}) \cup {k}) = Cardinality(Resident \ {v}) + 1
      BY <3>2, <3>3, FS_AddElement
    <3> QED
      BY <1>1, <2>2, <3>1, <3>2, <3>4
  <2>4. CASE Cardinality(Resident) < MaxEntries /\ k \notin Resident
    <3>1. Resident' = Resident \cup {k}
      BY <1>1, <2>2, <2>4 DEF Victims
    <3>2. /\ IsFiniteSet(Resident \cup {k})
          /\ Cardinality(Resident \cup {k}) = Cardinality(Resident) + 1
      BY <2>4, FS_AddElement
    <3> QED
      BY <1>1, <2>4, <3>1, <3>2
  <2>5. CASE k \in Resident
    BY <2>2, <2>5 DEF Victims
  <2> QED
    BY <1>1, <2>3, <2>4, <2>5
<1> QED
  BY <1>2, <1>3 DEF Insert

(* No step of any thread outgrows the table.                               *)
LEMMA StepBounded == IInv /\ TableInv /\ [Next]_vars => TableInv'
<1> SUFFICES ASSUME IInv, TableInv, [Next]_vars PROVE TableInv'
  OBVIOUS
<1>1. TypeOK /\ CacheTypeOK
  BY DEF IInv, TypeOK
<1>2. CASE UNCHANGED table
  BY <1>2 DEF TableInv, BoundedTable, Resident
<1>3. ASSUME NEW w \in Workers, GetHit(w) PROVE TableInv'
  <2>1. table' = [table EXCEPT ![req[w].name].lastUsed = clock]
    BY <1>3 DEF GetHit, Hit, Touch
  <2>2. \A k \in Keys : table'[k].kind = table[k].kind
    BY <1>1, <2>1 DEF CacheTypeOK
  <2>3. Resident' = Resident
    BY <2>2 DEF Resident
  <2> QED
    BY <2>3 DEF TableInv, BoundedTable
<1>4. ASSUME NEW w \in Workers, Deny(w) PROVE TableInv'
  <2>1. PICK i \in RefusedAt(w) :
          IF Literal(req[w].name) THEN UNCHANGED cacheVars
          ELSE Insert(req[w].name, "denied", <<answer[w][i]>>)
    BY <1>4 DEF Deny
  <2>2. CASE Literal(req[w].name)
    BY <1>2, <2>1, <2>2 DEF cacheVars
  <2>3. CASE ~Literal(req[w].name)
    <3>1. req[w].name \in Keys
      BY <1>1, <2>3 DEF Literal, Names, TypeOK
    <3> QED
      BY <1>1, <2>1, <2>3, <3>1, InsertBounded
  <2> QED
    BY <2>2, <2>3
<1>5. ASSUME NEW w \in Workers, Grant(w) PROVE TableInv'
  <2>1. CASE Cacheable(w)
    <3>1. req[w].name \in Keys
      BY <1>1, <2>1 DEF Cacheable, Literal, Names, TypeOK
    <3>2. Insert(req[w].name, "allowed", answer[w])
      BY <1>5, <2>1 DEF Grant
    <3> QED
      BY <1>1, <3>1, <3>2, InsertBounded
  <2>2. CASE ~Cacheable(w)
    BY <1>2, <1>5, <2>2 DEF Grant, cacheVars
  <2> QED
    BY <2>1, <2>2
<1>6. ASSUME NEW w \in Workers, Call(w) \/ Decide(w) PROVE TableInv'
  <2>1. CASE Call(w) \/ GetMiss(w) \/ LookupOk(w) \/ LookupFails(w) \/ Unguarded(w)
    BY <1>2, <2>1 DEF Call, GetMiss, Miss, LookupOk, LookupFails, Unguarded, cacheVars
  <2> QED
    BY <1>3, <1>4, <1>5, <1>6, <2>1 DEF Decide
<1>7. CASE Tick \/ UNCHANGED vars
  BY <1>2, <1>7 DEF Tick, guardVars, vars
<1> QED
  BY <1>6, <1>7 DEF Next

(* The table never holds more than max_entries verdicts, however many      *)
(* threads insert and whatever the samples evict_one draws.                *)
THEOREM TableIsBounded == Spec => []BoundedTable
<1>1. Init => TableInv
  <2> SUFFICES ASSUME Init PROVE TableInv
    OBVIOUS
  <2>1. Resident = {}
    BY DEF Init, CacheInit, Absent, Resident
  <2> QED
    BY <2>1, FS_EmptySet, CacheAssumption DEF TableInv, BoundedTable
<1>2. TableInv => BoundedTable
  BY DEF TableInv
<1> QED
  BY <1>1, <1>2, StepBounded, Invariance, PTL DEF Spec

-----------------------------------------------------------------------------
(* The guard starts where its promise starts.                              *)
LEMMA PromiseInit == Init => Promise!Init
<1> SUFFICES ASSUME Init PROVE Promise!Init
  OBVIOUS
<1>1. (CHOOSE r \in Requests : TRUE) \in Requests
  BY GuardAssumption
<1>2. req \in [Workers -> Requests]
  BY <1>1 DEF Init
<1>3. [w \in Workers |-> pc[w] # "idle"] = [w \in Workers |-> FALSE]
  BY DEF Init
<1> QED
  BY <1>2, <1>3 DEF Init, Promise!Init, NoReply

(* Returning from decide() is answering the thread that asked.             *)
LEMMA ReturnAnswers ==
  ASSUME TypeOK, NEW w \in Workers, pc[w] # "idle",
         NEW kind, NEW addrs, Return(w, kind, addrs), UNCHANGED req
  PROVE  /\ Promise!Answered(w)
         /\ reply'[w].kind = kind
         /\ reply'[w].addrs = addrs
<1>1. pc' = [pc EXCEPT ![w] = "idle"]
  BY DEF Return
<1>2. reply' = [reply EXCEPT ![w] = [kind |-> kind, addrs |-> addrs]]
  BY DEF Return
<1>3. reply'[w] = [kind |-> kind, addrs |-> addrs]
  BY <1>2 DEF TypeOK
<1>4. reply' = [reply EXCEPT ![w] = reply'[w]]
  BY <1>2, <1>3
<1>5. [v \in Workers |-> pc[v] # "idle"]'
        = [[v \in Workers |-> pc[v] # "idle"] EXCEPT ![w] = FALSE]
  BY <1>1 DEF TypeOK
<1>6. [v \in Workers |-> pc[v] # "idle"][w]
  OBVIOUS
<1>7. Promise!Answered(w)
  BY <1>4, <1>5, <1>6 DEF Promise!Answered
<1> QED
  BY <1>3, <1>7

(* A step that asks nothing, answers nothing and refuses nothing is        *)
(* invisible behind the promise.                                           *)
LEMMA Invisible ==
  ASSUME UNCHANGED <<req, reply, tainted>>,
         \A v \in Workers : (pc'[v] # "idle") = (pc[v] # "idle")
  PROVE  UNCHANGED Promise!promiseVars
BY DEF Promise!promiseVars

(* What the guard permits, its promise permits.                            *)
LEMMA PermitStep ==
  ASSUME IInv, NEW w \in Workers, pc[w] # "idle", NEW addrs,
         Return(w, "ok", addrs), UNCHANGED <<req, tainted>>, addrs # <<>>,
         req[w].guarded /\ req[w].name \notin AllowHosts
           => \A i \in DOMAIN addrs : ~Refused(addrs[i], req[w])
  PROVE  Promise!Permit(w)
<1>1. /\ Promise!Answered(w)
      /\ reply'[w].kind = "ok"
      /\ reply'[w].addrs = addrs
  BY ReturnAnswers DEF IInv
<1>2. Promise!Permitted(req[w], addrs)
  BY DEF Promise!Permitted, Promise!Reachable, Refused, Exempt
<1> QED
  BY <1>1, <1>2 DEF Promise!Permit

(* What the table permits, or refuses, the promise owes.                   *)
LEMMA GetHitPromised ==
  ASSUME IInv, NEW w \in Workers, GetHit(w)
  PROVE  Promise!Permit(w) \/ Promise!Refuse(w)
<1> DEFINE k == req[w].name
           entry == table[k]
<1>1. k \in Keys /\ req[w].guarded /\ k \notin AllowHosts /\ pc[w] # "idle"
  BY DEF IInv, Phases, GetHit
<1>2. /\ Return(w, IF entry.kind = "denied" THEN "denied" ELSE "ok", entry.addrs)
      /\ UNCHANGED <<req, tainted>>
      /\ entry.kind \in {"allowed", "denied"}
  BY DEF GetHit, Hit, Usable
<1>3. CASE entry.kind = "denied"
  <2>1. Return(w, "denied", entry.addrs) /\ k \in tainted
    BY <1>1, <1>2, <1>3 DEF IInv, SharedVerdictsHold
  <2>2. Promise!Answered(w) /\ reply'[w].kind = "denied"
    BY <1>1, <1>2, <2>1, ReturnAnswers DEF IInv
  <2> QED
    BY <1>1, <1>2, <2>1, <2>2 DEF Promise!Refuse
<1>4. CASE entry.kind = "allowed"
  <2>1. /\ Return(w, "ok", entry.addrs)
        /\ entry.addrs # <<>>
        /\ \A i \in DOMAIN entry.addrs : ~Refused(entry.addrs[i], req[w])
    BY <1>1, <1>2, <1>4 DEF IInv, SharedVerdictsHold, Refused
  <2> QED
    BY <1>1, <1>2, <2>1, PermitStep
<1> QED
  BY <1>2, <1>3, <1>4

(* A refusal is owed to the forbidden address the thread just resolved.    *)
LEMMA DenyPromised ==
  ASSUME IInv, NEW w \in Workers, Deny(w)
  PROVE  Promise!Refuse(w)
<1>1. PICK i \in RefusedAt(w) : Return(w, "denied", <<answer[w][i]>>)
  BY DEF Deny
<1>2. /\ pc[w] # "idle"
      /\ req[w].guarded
      /\ req[w].name \notin AllowHosts
      /\ tainted' = tainted \cup {req[w].name}
      /\ UNCHANGED req
  BY DEF Deny, IInv, Phases
<1>3. Promise!Answered(w) /\ reply'[w].kind = "denied"
  BY <1>1, <1>2, ReturnAnswers DEF IInv
<1> QED
  BY <1>2, <1>3 DEF Promise!Refuse

(* An answer of the resolver is visible only for an allow-listed name.     *)
LEMMA LookupOkPromised ==
  ASSUME IInv, NEW w \in Workers, LookupOk(w)
  PROVE  Promise!Permit(w) \/ UNCHANGED Promise!promiseVars
<1>1. PICK a \in Dns[req[w].name] \ {<<>>} :
        IF req[w].name \in AllowHosts
        THEN Return(w, "ok", a)
        ELSE pc' = [pc EXCEPT ![w] = "settle"] /\ UNCHANGED reply
  BY DEF LookupOk
<1>2. pc[w] = "lookup" /\ UNCHANGED <<req, tainted>>
  BY DEF LookupOk
<1>3. CASE req[w].name \in AllowHosts
  BY <1>1, <1>2, <1>3, PermitStep
<1>4. CASE req[w].name \notin AllowHosts
  BY <1>1, <1>2, <1>4, Invisible DEF IInv, TypeOK
<1> QED
  BY <1>3, <1>4

(* A resolution that starts is a question.                                 *)
LEMMA CallPromised ==
  ASSUME IInv, NEW w \in Workers, Call(w)
  PROVE  Promise!Ask(w)
<1>1. PICK r \in Requests : /\ req' = [req EXCEPT ![w] = r]
                            /\ pc' = [pc EXCEPT ![w] = FirstStep(r)]
  BY DEF Call
<1>2. FirstStep(r) # "idle"
  BY DEF FirstStep
<1>3. [v \in Workers |-> pc[v] # "idle"]'
        = [[v \in Workers |-> pc[v] # "idle"] EXCEPT ![w] = TRUE]
  BY <1>1, <1>2 DEF IInv, TypeOK
<1>4. ~[v \in Workers |-> pc[v] # "idle"][w]
  BY DEF Call
<1>5. reply' = [reply EXCEPT ![w] = [kind |-> "none", addrs |-> <<>>]]
  BY DEF Call, NoReply
<1>6. \E q \in Requests : req' = [req EXCEPT ![w] = q]
  BY <1>1
<1>7. UNCHANGED tainted
  BY DEF Call
<1> QED
  BY <1>3, <1>4, <1>5, <1>6, <1>7 DEF Promise!Ask

(* Every step of the guard is a step of its promise, or invisible there.   *)
LEMMA PromiseStep == IInv /\ [Next]_vars => [Promise!Next]_Promise!promiseVars
<1> SUFFICES ASSUME IInv, [Next]_vars
             PROVE  Promise!Next \/ UNCHANGED Promise!promiseVars
  OBVIOUS
<1>1. CASE Tick \/ UNCHANGED vars
  BY <1>1, Invisible DEF Tick, guardVars, vars
<1>2. ASSUME NEW w \in Workers, Call(w)
      PROVE  Promise!Next
  BY <1>2, CallPromised DEF Promise!Next
<1>3. ASSUME NEW w \in Workers, GetHit(w) \/ Deny(w) \/ LookupOk(w)
      PROVE  Promise!Next \/ UNCHANGED Promise!promiseVars
  BY <1>3, GetHitPromised, DenyPromised, LookupOkPromised DEF Promise!Next
<1>4. ASSUME NEW w \in Workers, GetMiss(w)
      PROVE  UNCHANGED Promise!promiseVars
  BY <1>4, Invisible DEF GetMiss, IInv, TypeOK
<1>5. ASSUME NEW w \in Workers, LookupFails(w)
      PROVE  Promise!Next
  <2>1. Promise!Answered(w) /\ reply'[w].kind = "failed" /\ UNCHANGED tainted
    BY <1>5, ReturnAnswers DEF LookupFails, IInv
  <2> QED
    BY <2>1 DEF Promise!Fail, Promise!Next
<1>6. ASSUME NEW w \in Workers, Unguarded(w) \/ Grant(w)
      PROVE  Promise!Next
  <2>1. /\ pc[w] = "settle" /\ answer[w] # <<>>
        /\ Return(w, "ok", answer[w])
        /\ UNCHANGED <<req, tainted>>
    BY <1>6 DEF Unguarded, Grant, IInv, Phases
  <2>2. req[w].guarded => \A i \in DOMAIN answer[w] : ~Refused(answer[w][i], req[w])
    BY <1>6 DEF Unguarded, Grant, RefusedAt
  <2>3. Promise!Permit(w)
    BY <2>1, <2>2, PermitStep
  <2> QED
    BY <2>3 DEF Promise!Next
<1> QED
  BY <1>1, <1>2, <1>3, <1>4, <1>5, <1>6 DEF Next, Decide

(* The guard with its table implements the promise that knows no table.    *)
THEOREM GuardKeepsPromise == Spec => KeepsPromise
<1> QED
  BY PromiseInit, PromiseStep, Invariance, PTL DEF Spec, KeepsPromise, Promise!Spec

-----------------------------------------------------------------------------
(* What the table holds is right for its key, and what a worker has in     *)
(* hand between two steps is right for its value.  A worker that serves a  *)
(* hit needs the entry to be there still, as nobody writes meanwhile.      *)
Entries ==
  /\ DOMAIN memo \subseteq Raws
  /\ \A r \in DOMAIN memo : memo[r] \in [verdict : {Classify(r.url)}, lastUsed : Nat]

InHand ==
  \A w \in Checkers :
    /\ checking[w] = "hit" => raw[w] \in DOMAIN memo
    /\ checking[w] = "record" => raw[w] \in Raws /\ verdict[w] = Classify(raw[w].url)
    /\ checking[w] = "idle" /\ raw[w] # NoRaw => verdict[w] = Classify(raw[w].url)

Threads ==
  /\ checking \in [Checkers -> {"idle", "hit", "record"}]
  /\ raw \in [Checkers -> Raws \cup {NoRaw}]
  /\ stamp \in [Checkers -> Nat]
  /\ verdict = [w \in Checkers |-> verdict[w]]
  /\ tick \in Nat

MemoInv == Threads /\ Entries /\ InHand

(* The table starts empty, and no worker has a verdict of any value.       *)
LEMMA InitMemoInv == MemoInit => MemoInv
<1>. SUFFICES ASSUME MemoInit PROVE MemoInv
  OBVIOUS
<1>1. Threads
  BY DEF MemoInit, Threads
<1>2. DOMAIN memo = {}
  BY DEF MemoInit
<1>3. Entries
  BY <1>2 DEF Entries
<1>4. InHand
  BY DEF MemoInit, InHand
<1>. QED
  BY <1>1, <1>3, <1>4 DEF MemoInv

(* A hit reads the table and takes a tick.                                 *)
LEMMA HitMemoInv ==
  ASSUME MemoInv, NEW w \in Checkers, NEW r \in Raws, MemoHit(w, r)
  PROVE  MemoInv'
<1>1. Threads'
  BY DEF MemoInv, Threads, MemoHit
<1>2. Entries'
  BY DEF MemoInv, Entries, MemoHit
<1>3. InHand'
  BY DEF MemoInv, Threads, InHand, MemoHit
<1>. QED
  BY <1>1, <1>2, <1>3 DEF MemoInv

(* Serving a hit changes the recency of an entry and not its verdict.      *)
LEMMA TouchMemoInv ==
  ASSUME MemoInv, NEW w \in Checkers, MemoTouch(w)
  PROVE  MemoInv'
<1>1. raw[w] \in DOMAIN memo /\ stamp[w] \in Nat
  BY DEF MemoInv, Threads, InHand, MemoTouch
<1>2. DOMAIN memo' = DOMAIN memo
  BY DEF MemoTouch
<1>3. ASSUME NEW r \in DOMAIN memo
      PROVE  memo'[r] \in [verdict : {Classify(r.url)}, lastUsed : Nat]
  <2>1. memo[r] \in [verdict : {Classify(r.url)}, lastUsed : Nat]
    BY DEF MemoInv, Entries
  <2>2. memo'[r] = IF r = raw[w] THEN [memo[r] EXCEPT !.lastUsed = stamp[w]] ELSE memo[r]
    BY <1>1 DEF MemoTouch
  <2>. QED
    BY <1>1, <2>1, <2>2
<1>4. Threads'
  BY DEF MemoInv, Threads, MemoTouch
<1>5. Entries'
  BY <1>2, <1>3 DEF MemoInv, Entries
<1>6. memo[raw[w]].verdict = Classify(raw[w].url)
  BY <1>1 DEF MemoInv, Entries
<1>7. InHand'
  BY <1>2, <1>6 DEF MemoInv, Threads, InHand, MemoTouch
<1>. QED
  BY <1>4, <1>5, <1>7 DEF MemoInv

(* A worker that misses classifies the value itself.                       *)
LEMMA MissMemoInv ==
  ASSUME MemoInv, NEW w \in Checkers, NEW r \in Raws, MemoMiss(w, r)
  PROVE  MemoInv'
<1>1. Threads'
  BY DEF MemoInv, Threads, MemoMiss
<1>2. Entries'
  BY DEF MemoInv, Entries, MemoMiss
<1>3. InHand'
  BY DEF MemoInv, Threads, InHand, MemoMiss
<1>. QED
  BY <1>1, <1>2, <1>3 DEF MemoInv

(* Whatever is evicted, the entry that comes in is right for its key, and  *)
(* nobody is in the middle of a hit.                                       *)
LEMMA RecordMemoInv ==
  ASSUME MemoInv, NEW w \in Checkers, Record(w)
  PROVE  MemoInv'
<1>1. /\ raw[w] \in Raws
      /\ verdict[w] = Classify(raw[w].url)
      /\ tick \in Nat
  BY DEF MemoInv, Threads, InHand, Record
<1>2. PICK kept \in Kept(raw[w]) :
        memo' = [q \in kept \cup {raw[w]} |->
                   IF q = raw[w] THEN [verdict |-> verdict[w], lastUsed |-> tick]
                   ELSE memo[q]]
  BY DEF Record, Enter
<1>3. kept \subseteq DOMAIN memo
  BY <1>2 DEF Kept
<1>4. Threads'
  BY DEF MemoInv, Threads, Record, Enter
<1>5. Entries'
  BY <1>1, <1>2, <1>3 DEF MemoInv, Entries
<1>6. InHand'
  BY DEF MemoInv, Threads, InHand, Record, Enter, WriteLock
<1>. QED
  BY <1>4, <1>5, <1>6 DEF MemoInv

LEMMA StepMemoInv == MemoInv /\ [MemoNext]_memoVars => MemoInv'
<1>. SUFFICES ASSUME MemoInv, [MemoNext]_memoVars PROVE MemoInv'
  OBVIOUS
<1>1. ASSUME NEW w \in Checkers, NEW r \in Raws, MemoHit(w, r) \/ MemoMiss(w, r)
      PROVE  MemoInv'
  BY <1>1, HitMemoInv, MissMemoInv
<1>2. ASSUME NEW w \in Checkers, MemoTouch(w) \/ Record(w)
      PROVE  MemoInv'
  BY <1>2, TouchMemoInv, RecordMemoInv
<1>3. CASE UNCHANGED memoVars
  BY <1>3 DEF memoVars, MemoInv, Threads, Entries, InHand
<1>. QED
  BY <1>1, <1>2, <1>3 DEF MemoNext

(* A check of an attribute value returns what classifying the value would, *)
(* whether it was cached, recorded by another worker or evicted meanwhile  *)
(* (UrlChecker::check over UrlCache).                                      *)
THEOREM MemoIsTransparent == MemoSpec => []MemoTransparent
<1>1. MemoInv => MemoTransparent
  <2>. SUFFICES ASSUME MemoInv PROVE MemoTransparent
    OBVIOUS
  <2>1. ASSUME NEW w \in Judged PROVE verdict[w] = Classify(raw[w].url)
    BY DEF MemoInv, Threads, InHand, Judged
  <2>2. ASSUME NEW r \in DOMAIN memo PROVE memo[r].verdict = Classify(r.url)
    BY DEF MemoInv, Entries
  <2>. QED
    BY <2>1, <2>2 DEF MemoTransparent
<1>. QED
  BY InitMemoInv, StepMemoInv, <1>1, PTL DEF MemoSpec

-----------------------------------------------------------------------------
(* A tick is in one place at most: taken by a hit that has not stored it   *)
(* yet, or stored in one entry.  That is why no two entries ever share     *)
(* one, although the hits that overlap store theirs in any order.          *)
Ticks ==
  /\ \A r \in DOMAIN memo : memo[r].lastUsed < tick
  /\ \A r, q \in DOMAIN memo : memo[r].lastUsed = memo[q].lastUsed => r = q
  /\ \A w \in Checkers : stamp[w] \in 0 .. tick
  /\ \A w \in Checkers : checking[w] = "hit" =>
       /\ stamp[w] < tick
       /\ \A r \in DOMAIN memo : memo[r].lastUsed # stamp[w]
       /\ \A v \in Checkers : checking[v] = "hit" /\ stamp[v] = stamp[w] => v = w

Sized == IsFiniteSet(DOMAIN memo) /\ Cardinality(DOMAIN memo) <= MemoSize

Counters ==
  /\ {served, missed} \subseteq Nat
  /\ \A w \in Checkers : verdict[w].label \in Label

RecencyInv == MemoInv /\ Ticks /\ Sized /\ Counters

(* Whatever the URL, classifying it answers with one of the labels.        *)
LEMMA ClassifyLabels ==
  ASSUME NEW url
  PROVE  Classify(url).label \in Label
BY DEF Classify, Plain, Rewritten, Label

(* Before the first check the table is empty and every tick is to come.    *)
LEMMA InitRecencyInv == MemoInit => RecencyInv
<1>. SUFFICES ASSUME MemoInit PROVE RecencyInv
  OBVIOUS
<1>1. DOMAIN memo = {}
  BY DEF MemoInit
<1>2. Ticks
  BY <1>1 DEF MemoInit, Ticks
<1>3. Sized
  <2>1. Cardinality(DOMAIN memo) = 0 /\ IsFiniteSet(DOMAIN memo)
    BY <1>1, FS_EmptySet
  <2>. QED
    BY <2>1, UrlAssumption DEF Sized
<1>4. Counters
  BY DEF MemoInit, Counters, Plain, Label
<1>. QED
  BY <1>2, <1>3, <1>4, InitMemoInv DEF RecencyInv

(* The tick a hit takes is one that nothing holds.                         *)
LEMMA HitRecencyInv ==
  ASSUME RecencyInv, NEW w \in Checkers, NEW r \in Raws, MemoHit(w, r)
  PROVE  RecencyInv'
<1>1. MemoInv'
  BY HitMemoInv DEF RecencyInv
<1>. USE DEF RecencyInv, MemoInv, Threads, MemoHit
<1>2. Ticks'
  <2>1. memo' = memo /\ tick' = tick + 1 /\ tick \in Nat
    OBVIOUS
  <2>2. \A v \in Checkers :
          /\ stamp'[v] = IF v = w THEN tick ELSE stamp[v]
          /\ checking'[v] = "hit" => v = w \/ checking[v] = "hit"
    OBVIOUS
  <2>3. \A q \in DOMAIN memo : memo[q].lastUsed \in Nat
    BY DEF Entries
  <2>. QED
    BY <2>1, <2>2, <2>3 DEF Ticks
<1>3. Sized'
  BY DEF Sized
<1>4. Counters'
  BY DEF Counters
<1>. QED
  BY <1>1, <1>2, <1>3, <1>4

(* The tick moves from the worker into the entry.                          *)
LEMMA TouchRecencyInv ==
  ASSUME RecencyInv, NEW w \in Checkers, MemoTouch(w)
  PROVE  RecencyInv'
<1>1. MemoInv'
  BY TouchMemoInv DEF RecencyInv
<1>. USE DEF RecencyInv, MemoInv, Threads
<1>2. DOMAIN memo' = DOMAIN memo /\ raw[w] \in DOMAIN memo
  BY DEF InHand, MemoTouch
<1>3. Ticks'
  <2>1. /\ tick' = tick
        /\ stamp' = stamp
        /\ checking[w] = "hit"
        /\ \A v \in Checkers : checking'[v] = "hit" => v # w /\ checking[v] = "hit"
    BY DEF MemoTouch
  <2>2. ASSUME NEW q \in DOMAIN memo
        PROVE  memo'[q].lastUsed = IF q = raw[w] THEN stamp[w] ELSE memo[q].lastUsed
    <3>1. memo[q] \in [verdict : {Classify(q.url)}, lastUsed : Nat]
      BY DEF Entries
    <3>2. memo'[q] = IF q = raw[w] THEN [memo[q] EXCEPT !.lastUsed = stamp[w]] ELSE memo[q]
      BY DEF MemoTouch
    <3>. QED
      BY <3>1, <3>2
  <2>. QED
    BY <1>2, <2>1, <2>2 DEF Ticks
<1>4. Sized'
  BY <1>2 DEF Sized
<1>5. Counters'
  <2>1. memo[raw[w]].verdict = Classify(raw[w].url)
    BY <1>2 DEF Entries
  <2>2. memo[raw[w]].verdict.label \in Label
    BY <2>1, ClassifyLabels
  <2>. QED
    BY <2>2 DEF Counters, MemoTouch
<1>. QED
  BY <1>1, <1>3, <1>4, <1>5

(* A miss takes no tick.                                                   *)
LEMMA MissRecencyInv ==
  ASSUME RecencyInv, NEW w \in Checkers, NEW r \in Raws, MemoMiss(w, r)
  PROVE  RecencyInv'
<1>1. MemoInv'
  BY MissMemoInv DEF RecencyInv
<1>. USE DEF RecencyInv, MemoInv, Threads, MemoMiss
<1>2. Ticks'
  BY DEF Ticks
<1>3. Sized'
  BY DEF Sized
<1>4. Counters'
  BY ClassifyLabels DEF Counters
<1>. QED
  BY <1>1, <1>2, <1>3, <1>4

(* What is kept leaves room for the entry that comes in.                   *)
LEMMA KeptIsSmall ==
  ASSUME Sized, NEW r, NEW kept \in Kept(r)
  PROVE  /\ kept \subseteq DOMAIN memo
         /\ IsFiniteSet(kept \cup {r})
         /\ Cardinality(kept \cup {r}) <= MemoSize
<1>. DEFINE D == DOMAIN memo
<1>1. IsFiniteSet(D) /\ Cardinality(D) \in Nat /\ Cardinality(D) <= MemoSize
  BY FS_CardinalityType DEF Sized
<1>2. CASE Cardinality(D) >= MemoSize /\ r \notin D
  <2>1. PICK v \in D : kept = D \ {v}
    BY <1>2 DEF Kept, MemoEvictable
  <2>2. IsFiniteSet(kept) /\ Cardinality(kept) = Cardinality(D) - 1
    BY <1>1, <2>1, FS_RemoveElement
  <2>3. r \notin kept
    BY <1>2, <2>1
  <2>4. IsFiniteSet(kept \cup {r}) /\ Cardinality(kept \cup {r}) = Cardinality(kept) + 1
    BY <2>2, <2>3, FS_AddElement
  <2>. QED
    BY <1>1, <2>1, <2>2, <2>4, UrlAssumption
<1>3. CASE r \in D
  <2>1. kept = D
    BY <1>3 DEF Kept
  <2>2. kept \cup {r} = D
    BY <1>3, <2>1
  <2>. QED
    BY <1>1, <2>1, <2>2
<1>4. CASE Cardinality(D) < MemoSize /\ r \notin D
  <2>1. kept = D
    BY <1>1, <1>4, UrlAssumption DEF Kept
  <2>2. IsFiniteSet(D \cup {r}) /\ Cardinality(D \cup {r}) = Cardinality(D) + 1
    BY <1>1, <1>4, FS_AddElement
  <2>. QED
    BY <1>1, <1>4, <2>1, <2>2, UrlAssumption
<1>. QED
  BY <1>1, <1>2, <1>3, <1>4, UrlAssumption

(* An insertion takes a tick of its own, while nobody holds one.           *)
LEMMA RecordRecencyInv ==
  ASSUME RecencyInv, NEW w \in Checkers, Record(w)
  PROVE  RecencyInv'
<1>1. MemoInv'
  BY RecordMemoInv DEF RecencyInv
<1>. USE DEF RecencyInv, MemoInv, Threads
<1>2. PICK kept \in Kept(raw[w]) :
        memo' = [q \in kept \cup {raw[w]} |->
                   IF q = raw[w] THEN [verdict |-> verdict[w], lastUsed |-> tick]
                   ELSE memo[q]]
  BY DEF Record, Enter
<1>3. DOMAIN memo' = kept \cup {raw[w]}
  BY <1>2
<1>4. Sized' /\ kept \subseteq DOMAIN memo
  BY <1>2, <1>3, KeptIsSmall DEF Sized
<1>5. Ticks'
  <2>1. /\ tick' = tick + 1 /\ tick \in Nat
        /\ stamp' = stamp
        /\ \A v \in Checkers : checking'[v] # "hit"
    BY DEF Record, Enter, WriteLock
  <2>2. \A q \in DOMAIN memo' :
          memo'[q].lastUsed = IF q = raw[w] THEN tick ELSE memo[q].lastUsed
    BY <1>2, <1>3
  <2>3. \A q \in DOMAIN memo : memo[q].lastUsed \in Nat
    BY DEF Entries
  <2>. QED
    BY <1>3, <1>4, <2>1, <2>2, <2>3 DEF Ticks
<1>6. Counters'
  BY DEF Counters, Record, Enter
<1>. QED
  BY <1>1, <1>4, <1>5, <1>6

(* Every step keeps each tick in its one place.                            *)
LEMMA StepRecencyInv == RecencyInv /\ [MemoNext]_memoVars => RecencyInv'
<1>. SUFFICES ASSUME RecencyInv, [MemoNext]_memoVars PROVE RecencyInv'
  OBVIOUS
<1>1. ASSUME NEW w \in Checkers, NEW r \in Raws, MemoHit(w, r) \/ MemoMiss(w, r)
      PROVE  RecencyInv'
  BY <1>1, HitRecencyInv, MissRecencyInv
<1>2. ASSUME NEW w \in Checkers, MemoTouch(w) \/ Record(w)
      PROVE  RecencyInv'
  BY <1>2, TouchRecencyInv, RecordRecencyInv
<1>3. CASE UNCHANGED memoVars
  <2>1. MemoInv'
    BY <1>3, StepMemoInv DEF RecencyInv
  <2>2. Ticks' /\ Sized' /\ Counters'
    BY <1>3 DEF memoVars, RecencyInv, Ticks, Sized, Counters
  <2>. QED
    BY <2>1, <2>2 DEF RecencyInv
<1>. QED
  BY <1>1, <1>2, <1>3 DEF MemoNext

(* The table of verdicts never outgrows max_entries, and although hits     *)
(* overlap, no two of its entries were last used at one tick, so the one   *)
(* that evict_one() drops from a sample is determined by the use made of   *)
(* the table (UrlCache::get, insert and evict_one).                        *)
THEOREM RecencyIsExact == MemoSpec => []RecencyExact
<1>1. RecencyInv => RecencyExact
  <2>. SUFFICES ASSUME RecencyInv PROVE RecencyExact
    OBVIOUS
  <2>1. MemoTypeOK
    <3>1. ASSUME NEW r \in DOMAIN memo
          PROVE  memo[r].verdict.label \in Label /\ memo[r].lastUsed \in 0 .. tick
      <4>1. memo[r].verdict = Classify(r.url) /\ memo[r].lastUsed \in Nat
        BY DEF RecencyInv, MemoInv, Entries
      <4>2. memo[r].lastUsed < tick /\ tick \in Nat
        BY DEF RecencyInv, MemoInv, Threads, Ticks
      <4>. QED
        BY <4>1, <4>2, ClassifyLabels
    <3>2. stamp \in [Checkers -> 0 .. tick]
      BY DEF RecencyInv, MemoInv, Threads, Ticks
    <3>. QED
      BY <3>1, <3>2 DEF MemoTypeOK, RecencyInv, MemoInv, Threads, Entries, InHand, Counters
  <2>. QED
    BY <2>1 DEF RecencyExact, RecencyInv, Ticks, Sized
<1>. QED
  BY InitRecencyInv, StepRecencyInv, <1>1, PTL DEF MemoSpec

-----------------------------------------------------------------------------
(* The questions are about the host, and stripping a URL of its            *)
(* credentials leaves the host alone: whatever replaced a value, only its  *)
(* label is left to be answered.                                           *)
LEMMA RewritesAreSettled ==
  ASSUME NEW r \in Raws, Classify(r.url).canonical # NoUrl
  PROVE  /\ Classify(Classify(r.url).canonical) \in {Plain("clean"), Plain("idn")}
         /\ Classify(r.url).canonical.host = r.url.host
<1>. DEFINE u == r.url
            c == Classify(u).canonical
<1>1. u \in [control : BOOLEAN, form : {"absolute", "relative", "invalid"},
             host : {u.host}, user : BOOLEAN, password : BOOLEAN, exact : BOOLEAN]
  BY RawsAssumption
<1>2. /\ c \in {Serialised(Strip(u)), Serialised(u)}
      /\ u.user \/ u.password => c = Serialised(Strip(u))
      /\ ~u.control /\ u.form \notin {"invalid", "relative"} /\ u.host # NoHost
      /\ ~(u.host.kind = "domain" /\ Blocked(Blocklist, u.host.labels))
      /\ ~(u.host.kind = "domain" /\ Confusable(Protected, Seen(u.host.labels)))
      /\ InternalRule(u.host) = NoRule
  BY DEF Classify, Plain, Rewritten
<1>3. /\ c.control = u.control /\ c.form = u.form /\ c.host = u.host
      /\ ~c.user /\ ~c.password /\ c.exact
  BY <1>1, <1>2 DEF Serialised, Strip
<1>. HIDE DEF c
<1>4. ~(c.control \/ c.form = "invalid") /\ ~(c.form = "relative" \/ c.host = NoHost)
  BY <1>2, <1>3
<1>5. /\ ~(c.host.kind = "domain" /\ Blocked(Blocklist, c.host.labels))
      /\ ~(c.host.kind = "domain" /\ Confusable(Protected, Seen(c.host.labels)))
      /\ InternalRule(c.host) = NoRule
  BY <1>2, <1>3
<1>6. Classify(c) \in {Plain("clean"), Plain("idn")}
  BY <1>3, <1>4, <1>5 DEF Classify
<1>. QED
  BY <1>3, <1>6 DEF c

(* What the checker has a document say in place of a URL would itself be   *)
(* let through, and names the host that was judged: neither stripping the  *)
(* credentials nor spelling a URL anew takes a reference elsewhere, and a  *)
(* second pass has nothing to add (UrlChecker::classify).                  *)
THEOREM EmissionsAreSettled == MemoSpec => []EmissionSettled
<1>1. MemoInv => EmissionSettled
  <2>. SUFFICES ASSUME MemoInv, NEW w \in Judged, verdict[w].canonical # NoUrl
       PROVE  /\ Classify(verdict[w].canonical) \in {Plain("clean"), Plain("idn")}
              /\ verdict[w].canonical.host = raw[w].url.host
    BY DEF EmissionSettled
  <2>1. raw[w] \in Raws /\ verdict[w] = Classify(raw[w].url)
    BY DEF MemoInv, Threads, InHand, Judged
  <2>. QED
    BY <2>1, RewritesAreSettled
<1>. QED
  BY InitMemoInv, StepMemoInv, <1>1, PTL DEF MemoSpec

-----------------------------------------------------------------------------
(* A list whose numbers are at most another's comes before it or is it.    *)
LEMMA AtMostPointwise ==
  ASSUME NEW n \in Nat, NEW s \in [1 .. n -> Nat], NEW t \in [1 .. n -> Nat],
         \A i \in 1 .. n : s[i] <= t[i]
  PROVE  AtMost(s, t)
<1>1. CASE s = t
  BY <1>1 DEF AtMost
<1>2. CASE s # t
  <2>. DEFINE Differ == {i \in 1 .. n : s[i] # t[i]}
              R == OpToRel(<, Nat)
  <2>1. Differ # {} /\ Differ \subseteq Nat
    BY <1>2
  <2>2. PICK i \in Differ : \A j \in Differ : ~(<<j, i>> \in R)
    <3>1. IsWellFoundedOn(R, Nat)
      BY NatLessThanWellFounded
    <3>. HIDE DEF R, Differ
    <3>. QED
      BY <2>1, <3>1, WFMin
  <2>3. \A j \in Differ : ~(j < i)
    BY <2>1, <2>2 DEF OpToRel
  <2>. HIDE DEF R
  <2>4. \A j \in 1 .. i - 1 : s[j] = t[j]
    BY <2>3
  <2>5. s[i] < t[i] /\ i \in DOMAIN s
    OBVIOUS
  <2>. QED
    BY <2>4, <2>5 DEF AtMost
<1>. QED
  BY <1>1, <1>2

SameBefore(m, s, t) == \A j \in 1 .. m - 1 : s[j] = t[j]

Enclosed(n, m, lo, d, hi) ==
  /\ n \in Nat /\ m \in 1 .. n
  /\ lo \in [1 .. n -> Nat] /\ d \in [1 .. n -> Nat] /\ hi \in [1 .. n -> Nat]
  /\ AtMost(lo, d) /\ AtMost(d, hi)
  /\ SameBefore(m, lo, hi) /\ lo[m] <= hi[m]

(* What lies between two lists that begin alike begins like them, and lies *)
(* between them where they first may differ.                               *)
LEMMA BetweenAlike ==
  ASSUME NEW n, NEW m, NEW lo, NEW d, NEW hi, Enclosed(n, m, lo, d, hi)
  PROVE  SameBefore(m, d, lo) /\ lo[m] <= d[m] /\ d[m] <= hi[m]
<1>. USE DEF SameBefore, Enclosed
<1>1. lo = d \/ \E i \in 1 .. n : lo[i] < d[i] /\ \A j \in 1 .. i - 1 : lo[j] = d[j]
  BY DEF AtMost
<1>2. d = hi \/ \E i \in 1 .. n : d[i] < hi[i] /\ \A j \in 1 .. i - 1 : d[j] = hi[j]
  BY DEF AtMost
<1>3. CASE lo = d
  BY <1>3
<1>4. CASE d = hi
  BY <1>4
<1>5. CASE lo # d /\ d # hi
  <2>1. PICK a \in 1 .. n : lo[a] < d[a] /\ \A j \in 1 .. a - 1 : lo[j] = d[j]
    BY <1>1, <1>5
  <2>2. PICK b \in 1 .. n : d[b] < hi[b] /\ \A j \in 1 .. b - 1 : d[j] = hi[j]
    BY <1>2, <1>5
  <2>3. a \in Nat /\ b \in Nat /\ m \in Nat
    OBVIOUS
  <2>4. a >= m
    <3>. SUFFICES ASSUME a < m PROVE FALSE
      BY <2>3
    <3>1. hi[a] = lo[a] /\ lo[a] < d[a] /\ d[a] \in Nat /\ lo[a] \in Nat
      BY <2>1
    <3>2. CASE b < a
      <4>1. b \in 1 .. m - 1 /\ b \in 1 .. a - 1
        BY <3>2
      <4>2. lo[b] = d[b] /\ hi[b] = lo[b] /\ d[b] < hi[b] /\ d[b] \in Nat
        BY <2>1, <2>2, <4>1
      <4>. QED
        BY <4>2
    <3>3. CASE b = a
      BY <2>2, <3>1, <3>3
    <3>4. CASE b > a
      <4>1. a \in 1 .. b - 1
        BY <3>4
      <4>. QED
        BY <2>2, <3>1, <4>1
    <3>. QED
      BY <2>3, <3>2, <3>3, <3>4
  <2>5. b >= m
    <3>. SUFFICES ASSUME b < m PROVE FALSE
      BY <2>3
    <3>1. b \in 1 .. m - 1 /\ b \in 1 .. a - 1
      BY <2>4
    <3>2. hi[b] = lo[b] /\ d[b] < hi[b] /\ lo[b] = d[b] /\ d[b] \in Nat
      BY <2>1, <2>2, <3>1
    <3>. QED
      BY <3>2
  <2>6. \A j \in 1 .. m - 1 : d[j] = lo[j]
    <3>1. \A j \in 1 .. m - 1 : j \in 1 .. a - 1
      BY <2>4
    <3>. QED
      BY <2>1, <3>1
  <2>7. lo[m] <= d[m]
    <3>1. m = a \/ m \in 1 .. a - 1
      BY <2>4
    <3>2. lo[m] \in Nat /\ d[m] \in Nat
      OBVIOUS
    <3>. QED
      BY <2>1, <3>1, <3>2
  <2>8. d[m] <= hi[m]
    <3>1. m = b \/ m \in 1 .. b - 1
      BY <2>5
    <3>2. hi[m] \in Nat /\ d[m] \in Nat
      OBVIOUS
    <3>. QED
      BY <2>2, <3>1, <3>2
  <2>. QED
    BY <2>6, <2>7, <2>8
<1>. QED
  BY <1>3, <1>4, <1>5

(* The first of the numbers that share a high part, and sharing one.       *)
FirstAlike(b, unit) == (b \div unit) * unit
Alike(a, b, unit) == a \div unit = b \div unit

LEMMA AlikeIsBetween ==
  ASSUME NEW a \in Nat, NEW b \in Nat, NEW unit \in Nat, unit # 0
  PROVE  Alike(a, b, unit)
           <=> FirstAlike(b, unit) <= a /\ a <= FirstAlike(b, unit) + unit - 1
BY DEF Alike, FirstAlike

LEMMA FirstAlikeType ==
  ASSUME NEW b \in Nat, NEW unit \in Nat, unit # 0
  PROVE  FirstAlike(b, unit) \in Nat
<1>1. b \div unit \in Nat
  OBVIOUS
<1>. QED
  BY <1>1 DEF FirstAlike

(* Numbers below a unit are alike, and of units of one only a number itself*)
(* is like it.                                                             *)
LEMMA AlikeBelow ==
  ASSUME NEW top \in Nat, top # 0, NEW a \in 0 .. top - 1, NEW b \in 0 .. top - 1
  PROVE  Alike(a, b, top)
<1>1. \A c \in 0 .. top - 1 : c \div top = 0
  OBVIOUS
<1>. QED
  BY <1>1 DEF Alike

LEMMA LastAlike ==
  ASSUME NEW low \in Nat, NEW unit \in Nat, unit # 0
  PROVE  low + unit - 1 \in Nat /\ low <= low + unit - 1
OBVIOUS

(* Units as a mask makes them: one, then any, then as much as a digit.     *)
Masking(n, m, top, unit) ==
  /\ n \in Nat /\ m \in 1 .. n /\ top \in Nat /\ top # 0
  /\ unit \in [1 .. n -> Nat \ {0}]
  /\ \A i \in 1 .. m - 1 : unit[i] = 1
  /\ \A i \in m + 1 .. n : unit[i] = top

LowEnd(n, base, unit) == [i \in 1 .. n |-> FirstAlike(base[i], unit[i])]
HighEnd(n, base, unit) == [i \in 1 .. n |-> LowEnd(n, base, unit)[i] + unit[i] - 1]

(* Agreeing above a digit, in the high part of that digit and on nothing   *)
(* below it is lying between the bounds that have all bits clear or set.   *)
LEMMA HighPartsAndBounds ==
  ASSUME NEW n, NEW m, NEW top, NEW unit, Masking(n, m, top, unit),
         NEW base \in [1 .. n -> 0 .. top - 1], NEW d \in [1 .. n -> 0 .. top - 1]
  PROVE  (\A i \in 1 .. n : Alike(d[i], base[i], unit[i]))
           <=> AtMost(LowEnd(n, base, unit), d) /\ AtMost(d, HighEnd(n, base, unit))
<1>. DEFINE lo == LowEnd(n, base, unit)
            hi == HighEnd(n, base, unit)
<1>. USE DEF Masking
<1>0. /\ lo = [i \in 1 .. n |-> FirstAlike(base[i], unit[i])]
      /\ hi = [i \in 1 .. n |-> lo[i] + unit[i] - 1]
  BY DEF LowEnd, HighEnd
<1>. HIDE DEF lo, hi
<1>1. \A i \in 1 .. n : d[i] \in Nat /\ base[i] \in Nat /\ unit[i] \in Nat /\ unit[i] # 0
  OBVIOUS
<1>2. \A i \in 1 .. n : lo[i] = FirstAlike(base[i], unit[i]) /\ lo[i] \in Nat
  BY <1>1, <1>0, FirstAlikeType
<1>3. \A i \in 1 .. n : hi[i] = lo[i] + unit[i] - 1 /\ hi[i] \in Nat /\ lo[i] <= hi[i]
  <2>. SUFFICES ASSUME NEW i \in 1 .. n
       PROVE  hi[i] = lo[i] + unit[i] - 1 /\ hi[i] \in Nat /\ lo[i] <= hi[i]
    OBVIOUS
  <2>1. hi[i] = lo[i] + unit[i] - 1
    BY <1>0
  <2>2. lo[i] \in Nat /\ unit[i] \in Nat /\ unit[i] # 0
    BY <1>1, <1>2
  <2>3. lo[i] + unit[i] - 1 \in Nat /\ lo[i] <= lo[i] + unit[i] - 1
    BY <2>2, LastAlike, Zenon
  <2>. QED
    BY <2>1, <2>3, Zenon
<1>4. ASSUME NEW i \in 1 .. n
      PROVE  Alike(d[i], base[i], unit[i]) <=> lo[i] <= d[i] /\ d[i] <= hi[i]
  BY <1>1, <1>2, <1>3, AlikeIsBetween
<1>5. ASSUME NEW i \in 1 .. m - 1
      PROVE  i \in 1 .. n /\ lo[i] = hi[i]
  <2>1. i \in 1 .. n /\ unit[i] = 1
    OBVIOUS
  <2>. QED
    BY <1>2, <1>3, <2>1
<1>6. ASSUME NEW i \in m + 1 .. n
      PROVE  Alike(d[i], base[i], unit[i])
  <2>1. i \in 1 .. n /\ unit[i] = top
    OBVIOUS
  <2>2. d[i] \in 0 .. top - 1 /\ base[i] \in 0 .. top - 1
    BY <2>1
  <2>. QED
    BY <2>1, <2>2, AlikeBelow
<1>7. lo \in [1 .. n -> Nat] /\ hi \in [1 .. n -> Nat] /\ d \in [1 .. n -> Nat]
  <2>1. /\ DOMAIN lo = 1 .. n /\ DOMAIN hi = 1 .. n /\ DOMAIN d = 1 .. n
        /\ lo = [i \in 1 .. n |-> lo[i]] /\ hi = [i \in 1 .. n |-> hi[i]]
    BY <1>0
  <2>. QED
    BY <1>1, <1>2, <1>3, <2>1
<1>8. ASSUME \A i \in 1 .. n : Alike(d[i], base[i], unit[i])
      PROVE  AtMost(lo, d) /\ AtMost(d, hi)
  <2>1. \A i \in 1 .. n : lo[i] <= d[i] /\ d[i] <= hi[i]
    BY <1>4, <1>8
  <2>2. AtMost(lo, d)
    BY <1>7, <2>1, AtMostPointwise
  <2>3. AtMost(d, hi)
    BY <1>7, <2>1, AtMostPointwise
  <2>. QED
    BY <2>2, <2>3
<1>9. ASSUME AtMost(lo, d), AtMost(d, hi), NEW k \in 1 .. n
      PROVE  Alike(d[k], base[k], unit[k])
  <2>1. /\ \A j \in 1 .. m - 1 : d[j] = lo[j]
        /\ lo[m] <= d[m] /\ d[m] <= hi[m]
    <3>1. lo[m] <= hi[m]
      BY <1>3
    <3>2. SameBefore(m, lo, hi)
      BY <1>5 DEF SameBefore
    <3>3. SameBefore(m, d, lo) /\ lo[m] <= d[m] /\ d[m] <= hi[m]
      <4>1. Enclosed(n, m, lo, d, hi)
        BY <1>7, <1>9, <3>1, <3>2 DEF Enclosed
      <4>. QED
        BY <4>1, BetweenAlike
    <3>. QED
      BY <3>3, Zenon DEF SameBefore
  <2>2. CASE k \in 1 .. m - 1
    <3>1. k \in 1 .. n /\ lo[k] = d[k] /\ d[k] = hi[k]
      BY <1>5, <2>1, <2>2
    <3>. QED
      <4>1. lo[k] \in Nat
        BY <1>2, <3>1
      <4>2. lo[k] <= d[k] /\ d[k] <= hi[k]
        BY <3>1, <4>1
      <4>. QED
        BY <1>4, <3>1, <4>2
  <2>3. CASE k = m
    BY <1>4, <2>1, <2>3
  <2>4. CASE k \in m + 1 .. n
    BY <1>6, <2>4
  <2>. QED
    BY <2>2, <2>3, <2>4
<1>. QED
  BY <1>8, <1>9 DEF lo, hi

(* The powers a mask is made of.                                           *)
LEMMA PowersOfTwo == \A k \in 0 .. 16 : 2 ^ k \in Nat /\ 2 ^ k # 0
<1>. DEFINE Power(k) == 2 ^ k \in Nat /\ 2 ^ k # 0
<1>1. Power(0) /\ Power(1) /\ Power(2) /\ Power(3) /\ Power(4) /\ Power(5) /\ Power(6)
  OBVIOUS
<1>2. Power(7) /\ Power(8) /\ Power(9) /\ Power(10) /\ Power(11) /\ Power(12)
  OBVIOUS
<1>3. Power(13) /\ Power(14) /\ Power(15) /\ Power(16)
  OBVIOUS
<1>. HIDE DEF Power
<1>4. ASSUME NEW k \in 0 .. 16
      PROVE  k \in {0, 1, 2, 3, 4, 5, 6, 7, 8, 9, 10, 11, 12, 13, 14, 15, 16}
  OBVIOUS
<1>5. ASSUME NEW k \in 0 .. 16 PROVE Power(k)
  BY <1>1, <1>2, <1>3, <1>4
<1>. QED
  BY <1>5 DEF Power

(* A mask leaves whole digits, part of one and nothing of the others.      *)
LEMMA UnitsOfMask ==
  ASSUME NEW family \in {"v4", "v6"}, NEW p \in 0 .. Width(family)
  PROVE  LET n == Width(family) \div Bits(family)
             top == 2 ^ Bits(family)
         IN  /\ \A i \in 1 .. n : Unit(family, p, i) \in Nat \ {0}
             /\ \E m \in 1 .. n : /\ \A i \in 1 .. m - 1 : Unit(family, p, i) = 1
                                  /\ \A i \in m + 1 .. n : Unit(family, p, i) = top
<1>. DEFINE w == Width(family)
            b == Bits(family)
            n == w \div b
            left(i) == b - Clamp(p - b * (i - 1), b)
<1>1. (b = 8 /\ w = 32 /\ n = 4) \/ (b = 16 /\ w = 128 /\ n = 8)
  BY DEF Width, Bits
<1>2. \A i : Unit(family, p, i) = 2 ^ left(i)
  BY DEF Unit
<1>3. p \in 0 .. w
  OBVIOUS
<1>. HIDE DEF w, b, n
<1>4. \A i \in 1 .. n : left(i) \in 0 .. 16
  BY <1>1, <1>3 DEF Clamp
<1>5. \E m \in 1 .. n : /\ \A i \in 1 .. m - 1 : left(i) = 0
                        /\ \A i \in m + 1 .. n : left(i) = b
  <2>. DEFINE m == IF p = w THEN n ELSE p \div b + 1
  <2>1. m \in 1 .. n
    BY <1>1, <1>3
  <2>2. ASSUME NEW i \in 1 .. m - 1 PROVE left(i) = 0
    BY <1>1, <1>3 DEF Clamp
  <2>3. ASSUME NEW i \in m + 1 .. n PROVE left(i) = b
    BY <1>1, <1>3 DEF Clamp
  <2>. HIDE DEF m, left
  <2>. QED
    BY <2>1, <2>2, <2>3
<1>. HIDE DEF left
<1>6. \A i \in 1 .. n : Unit(family, p, i) \in Nat \ {0}
  BY <1>2, <1>4, PowersOfTwo
<1>7. 2 ^ 0 = 1
  OBVIOUS
<1>8. \E m \in 1 .. n : /\ \A i \in 1 .. m - 1 : Unit(family, p, i) = 1
                        /\ \A i \in m + 1 .. n : Unit(family, p, i) = 2 ^ b
  BY <1>2, <1>5, <1>7
<1>. QED
  BY <1>6, <1>8 DEF n, w, b

(* For an address and a network of its family, under any prefix, comparing *)
(* what the mask leaves and comparing with the bounds say the same.        *)
LEMMA MaskIsRange ==
  ASSUME NEW ip, IsAddress(ip), NEW c, c.family = ip.family,
         c.base \in Digits(ip.family), c.prefix \in 0 .. Width(ip.family)
  PROVE  Covers(c, ip) <=> Between(c, ip)
<1>. DEFINE f == ip.family
            n == Width(f) \div Bits(f)
            top == 2 ^ Bits(f)
            unit == [i \in 1 .. n |-> Unit(f, c.prefix, i)]
            lo == LowEnd(n, c.base, unit)
            hi == HighEnd(n, c.base, unit)
<1>1. f \in {"v4", "v6"} /\ ip.digits \in Digits(f)
  BY DEF IsAddress
<1>2. n \in Nat /\ top \in Nat /\ top # 0
  BY <1>1 DEF Width, Bits
<1>3. c.base \in [1 .. n -> 0 .. top - 1] /\ ip.digits \in [1 .. n -> 0 .. top - 1]
  BY <1>1 DEF Digits
<1>4. DOMAIN c.base = 1 .. n /\ DOMAIN ip.digits = 1 .. n
  BY <1>3
<1>5. unit \in [1 .. n -> Nat \ {0}]
  BY <1>1, UnitsOfMask
<1>6. PICK m \in 1 .. n : /\ \A i \in 1 .. m - 1 : Unit(f, c.prefix, i) = 1
                          /\ \A i \in m + 1 .. n : Unit(f, c.prefix, i) = top
  BY <1>1, UnitsOfMask
<1>. HIDE DEF n, top
<1>7. /\ \A i \in 1 .. m - 1 : unit[i] = 1
      /\ \A i \in m + 1 .. n : unit[i] = top
  BY <1>2, <1>6
<1>8. Covers(c, ip) <=> \A i \in 1 .. n : Alike(ip.digits[i], c.base[i], unit[i])
  BY <1>4 DEF Covers, Alike
<1>9. Floor(c) = lo
  BY <1>4 DEF Floor, FirstAlike, LowEnd
<1>10. Ceiling(c) = hi
  BY <1>4, <1>9 DEF Ceiling, HighEnd
<1>11. Between(c, ip) <=> AtMost(lo, ip.digits) /\ AtMost(ip.digits, hi)
  BY <1>9, <1>10 DEF Between
<1>12. (\A i \in 1 .. n : Alike(ip.digits[i], c.base[i], unit[i]))
         <=> AtMost(lo, ip.digits) /\ AtMost(ip.digits, hi)
  <2>1. Masking(n, m, top, unit)
    BY <1>2, <1>5, <1>7 DEF Masking
  <2>. QED
    BY <1>3, <2>1, HighPartsAndBounds
<1>. QED
  BY <1>8, <1>11, <1>12

NetworksOf(family) == [family : {family}, base : Digits(family), prefix : Int]
Rules ==
  {"unspecified", "private", "cgnat", "loopback", "link_local", "protocol_assignments",
   "documentation", "benchmarking", "multicast", "reserved", "discard", "unique_local",
   "deny_extra"}
Rows == [cidr : NetworksOf("v4") \cup NetworksOf("v6"), rule : Rules]

(* The rows of the table are networks: those that are built in, and those  *)
(* an operator adds.                                                       *)
LEMMA RowIsNetwork ==
  ASSUME NEW ip, IsAddress(ip), NEW prefix \in Int, NEW rule \in Rules
  PROVE  Row(ip, prefix, rule) \in Rows
<1>1. ip.family \in {"v4", "v6"} /\ ip.digits \in Digits(ip.family)
  BY DEF IsAddress
<1>2. Cidr(ip, prefix) \in NetworksOf(ip.family)
  BY <1>1 DEF Cidr, NetworksOf
<1>. QED
  BY <1>1, <1>2 DEF Row, Rows

Bytes == 0 .. 255

LEMMA V4IsAddress ==
  ASSUME NEW a \in Bytes, NEW b \in Bytes, NEW c \in Bytes, NEW d \in Bytes
  PROVE  IsAddress(V4(a, b, c, d))
<1>1. Digits("v4") = [1 .. 4 -> Bytes]
  BY DEF Digits, Width, Bits, Bytes
<1>2. <<a, b, c, d>> \in [1 .. 4 -> Bytes]
  OBVIOUS
<1>. QED
  BY <1>1, <1>2 DEF IsAddress, V4

LastWord == 65535
Words == 0 .. LastWord

LEMMA WordsAreDigits == Digits("v6") = [1 .. 8 -> Words]
BY SMT DEF Digits, Width, Bits, Words, LastWord

LEMMA WordIsOne ==
  ASSUME NEW high \in Bytes, NEW low \in Bytes
  PROVE  Word(high, low) \in Words
<1>. DEFINE w == Word(high, low)
<1>1. high \in Nat /\ high <= 255 /\ low \in Nat /\ low <= 255
  BY DEF Bytes
<1>2. w \in Nat /\ w <= LastWord /\ LastWord \in Nat
  BY <1>1, SMT DEF Word, LastWord
<1>. HIDE DEF w
<1>3. w \in Words
  BY <1>2, SMT DEF Words
<1>. QED
  BY <1>3 DEF w

LEMMA ZeroIsOne == 0 \in Words /\ 1 \in Words
<1>1. LastWord \in Nat /\ 1 <= LastWord
  BY SMT DEF LastWord
<1>. QED
  BY <1>1, SMT DEF Words

LEMMA V6IsAddress ==
  ASSUME NEW digits \in [1 .. 8 -> Words]
  PROVE  IsAddress(V6(digits))
BY WordsAreDigits DEF IsAddress, V6

LEMMA AsFunction ==
  ASSUME NEW S, NEW n \in Nat, NEW s \in Seq(S), Len(s) = n
  PROVE  s \in [1 .. n -> S]
OBVIOUS

LEMMA LeadingIsAddress ==
  ASSUME NEW s \in Seq(Words), Len(s) <= 8
  PROVE  IsAddress(Leading(s))
<1>. DEFINE rest == [i \in 1 .. 8 - Len(s) |-> 0]
            whole == s \o rest
<1>1. rest \in Seq(Words) /\ Len(rest) = 8 - Len(s)
  BY ZeroIsOne
<1>2. Leading(s) = V6(whole)
  BY DEF Leading
<1>. HIDE DEF rest
<1>3. whole \in Seq(Words) /\ Len(whole) = 8
  BY <1>1
<1>. HIDE DEF whole
<1>4. whole \in [1 .. 8 -> Words]
  BY <1>3, AsFunction
<1>. QED
  BY <1>2, <1>4, V6IsAddress

(* An address that one word leads is an address.                           *)
LEMMA OneWordLeads ==
  ASSUME NEW w \in Words
  PROVE  IsAddress(Leading(<<w>>))
<1>. DEFINE s == <<w>>
<1>1. s \in Seq(Words) /\ Len(s) <= 8
  OBVIOUS
<1>. HIDE DEF s
<1>2. IsAddress(Leading(s))
  BY <1>1, LeadingIsAddress
<1>. QED
  BY <1>2 DEF s

LEMMA BuiltinV4IsTable == BuiltinV4 \in Seq(Rows)
<1>1. \A ip : IsAddress(ip) => \A prefix \in Int : \A rule \in Rules : Row(ip, prefix, rule) \in Rows
  BY RowIsNetwork
<1>. DEFINE S == Rows
<1>2. /\ IsAddress(V4(0, 0, 0, 0))
      /\ IsAddress(V4(10, 0, 0, 0))
      /\ IsAddress(V4(100, 64, 0, 0))
      /\ IsAddress(V4(127, 0, 0, 0))
      /\ IsAddress(V4(169, 254, 0, 0))
      /\ IsAddress(V4(172, 16, 0, 0))
      /\ IsAddress(V4(192, 0, 0, 0))
  <2>1. {0, 10, 16, 64, 100, 127, 169, 172, 192, 254} \subseteq Bytes
    BY DEF Bytes
  <2>. QED
    BY <2>1, V4IsAddress
<1>3. /\ IsAddress(V4(192, 0, 2, 0))
      /\ IsAddress(V4(192, 168, 0, 0))
      /\ IsAddress(V4(198, 18, 0, 0))
      /\ IsAddress(V4(198, 51, 100, 0))
      /\ IsAddress(V4(203, 0, 113, 0))
      /\ IsAddress(V4(224, 0, 0, 0))
      /\ IsAddress(V4(240, 0, 0, 0))
  <2>1. {0, 2, 18, 51, 100, 113, 168, 192, 198, 203, 224, 240} \subseteq Bytes
    BY DEF Bytes
  <2>. QED
    BY <2>1, V4IsAddress
<1>4. /\ Row(V4(0, 0, 0, 0), 8, "unspecified") \in S
      /\ Row(V4(10, 0, 0, 0), 8, "private") \in S
      /\ Row(V4(100, 64, 0, 0), 10, "cgnat") \in S
      /\ Row(V4(127, 0, 0, 0), 8, "loopback") \in S
      /\ Row(V4(169, 254, 0, 0), 16, "link_local") \in S
      /\ Row(V4(172, 16, 0, 0), 12, "private") \in S
      /\ Row(V4(192, 0, 0, 0), 24, "protocol_assignments") \in S
  BY <1>1, <1>2 DEF Rules
<1>5. /\ Row(V4(192, 0, 2, 0), 24, "documentation") \in S
      /\ Row(V4(192, 168, 0, 0), 16, "private") \in S
      /\ Row(V4(198, 18, 0, 0), 15, "benchmarking") \in S
      /\ Row(V4(198, 51, 100, 0), 24, "documentation") \in S
      /\ Row(V4(203, 0, 113, 0), 24, "documentation") \in S
      /\ Row(V4(224, 0, 0, 0), 4, "multicast") \in S
      /\ Row(V4(240, 0, 0, 0), 4, "reserved") \in S
  BY <1>1, <1>3 DEF Rules
<1>. HIDE DEF S
<1>6. BuiltinV4 \in Seq(S)
  BY <1>4, <1>5 DEF BuiltinV4
<1>. QED
  BY <1>6 DEF S

LEMMA BuiltinV6IsTable == BuiltinV6 \in Seq(Rows)
<1>1. IsAddress(Leading(<<>>))
  <2>1. <<>> \in Seq(Words) /\ Len(<<>>) <= 8
    OBVIOUS
  <2>. QED
    BY <2>1, LeadingIsAddress
<1>2. IsAddress(V6(<<0, 0, 0, 0, 0, 0, 0, 1>>))
  BY ZeroIsOne, V6IsAddress
<1>3. IsAddress(Leading(<<Word(32, 1), Word(13, 184)>>))
  <2>. DEFINE s == <<Word(32, 1), Word(13, 184)>>
  <2>1. {1, 13, 32, 184} \subseteq Bytes
    BY DEF Bytes
  <2>2. s \in Seq(Words) /\ Len(s) <= 8
    BY <2>1, WordIsOne
  <2>. HIDE DEF s
  <2>3. IsAddress(Leading(s))
    BY <2>2, LeadingIsAddress
  <2>. QED
    BY <2>3 DEF s
<1>4. /\ IsAddress(Leading(<<Word(1, 0)>>))
      /\ IsAddress(Leading(<<Word(252, 0)>>))
      /\ IsAddress(Leading(<<Word(254, 128)>>))
      /\ IsAddress(Leading(<<Word(255, 0)>>))
  <2>1. {0, 1, 128, 252, 254, 255} \subseteq Bytes
    BY DEF Bytes
  <2>. QED
    BY <2>1, WordIsOne, OneWordLeads
<1>5. \A ip : IsAddress(ip) => \A prefix \in Int : \A rule \in Rules : Row(ip, prefix, rule) \in Rows
  BY RowIsNetwork
<1>6. /\ Row(Leading(<<>>), 128, "unspecified") \in Rows
      /\ Row(V6(<<0, 0, 0, 0, 0, 0, 0, 1>>), 128, "loopback") \in Rows
      /\ Row(Leading(<<Word(32, 1), Word(13, 184)>>), 32, "documentation") \in Rows
  BY <1>1, <1>2, <1>3, <1>5 DEF Rules
<1>7. /\ Row(Leading(<<Word(1, 0)>>), 64, "discard") \in Rows
      /\ Row(Leading(<<Word(252, 0)>>), 7, "unique_local") \in Rows
      /\ Row(Leading(<<Word(254, 128)>>), 10, "link_local") \in Rows
      /\ Row(Leading(<<Word(255, 0)>>), 8, "multicast") \in Rows
  BY <1>4, <1>5 DEF Rules
<1>. QED
  BY <1>6, <1>7 DEF BuiltinV6

LEMMA NetworksAreNetworks ==
  \A i \in DOMAIN Networks :
    Networks[i].cidr.base \in Digits(Networks[i].cidr.family)
      /\ Networks[i].cidr \in NetworksOf(Networks[i].cidr.family)
<1>. DEFINE added == [i \in DOMAIN DenyExtra |->
                        [cidr |-> ParsedCidr(DenyExtra[i]), rule |-> "deny_extra"]]
<1>1. DOMAIN DenyExtra = 1 .. Len(DenyExtra) /\ Len(DenyExtra) \in Nat
  BY UrlAssumption
<1>2. ASSUME NEW i \in DOMAIN DenyExtra PROVE added[i] \in Rows
  <2>. DEFINE e == DenyExtra[i]
              prefix == IF e.prefix = NoPrefix THEN Width(e.ip.family) ELSE e.prefix
  <2>1. IsAddress(e.ip) /\ e.prefix \in Int
    BY UrlAssumption
  <2>2. prefix \in Int
    BY <2>1 DEF Width
  <2>3. added[i] = Row(e.ip, prefix, "deny_extra")
    BY DEF ParsedCidr, Row
  <2>4. "deny_extra" \in Rules
    BY DEF Rules
  <2>. QED
    BY <2>1, <2>2, <2>3, <2>4, RowIsNetwork
<1>3. added \in Seq(Rows)
  BY <1>1, <1>2
<1>4. Networks = BuiltinV4 \o BuiltinV6 \o added
  BY DEF Networks, DenyTable
<1>. HIDE DEF added
<1>5. Networks \in Seq(Rows)
  BY <1>3, <1>4, BuiltinV4IsTable, BuiltinV6IsTable
<1>6. \A i \in DOMAIN Networks : Networks[i] \in Rows
  BY <1>5
<1>. QED
  BY <1>6 DEF Rows, NetworksOf

(* Masking an address answers whether it lies between the first and the    *)
(* last of a network, for every address a URL may name, every network of   *)
(* the table, built in or added, and every prefix from the empty one to the*)
(* full one (Cidr::contains over the parsed and the built-in rows).        *)
THEOREM MasksAreExact == MemoSpec => []MasksExact
<1>1. MemoInv => MasksExact
  <2>. SUFFICES ASSUME MemoInv, NEW w \in Judged PROVE raw[w] \in Agreeing
    BY DEF MasksExact
  <2>1. raw[w] \in Raws
    BY DEF MemoInv, Threads, Judged
  <2>. DEFINE url == raw[w].url
              ip == url.host.ip
  <2>2. ASSUME url.form = "absolute", url.host.kind = "ip",
               NEW i \in DOMAIN Networks, NEW p \in 0 .. Width(ip.family),
               NEW net, net = [Networks[i].cidr EXCEPT !.prefix = p],
               net.family = ip.family
        PROVE  Covers(net, ip) <=> Between(net, ip)
    <3>1. IsAddress(ip)
      BY <2>1, <2>2, RawsAssumption
    <3>. DEFINE cidr == Networks[i].cidr
    <3>2. cidr.base \in Digits(cidr.family) /\ cidr \in NetworksOf(cidr.family)
      BY NetworksAreNetworks
    <3>3. net.family = cidr.family /\ net.base = cidr.base /\ net.prefix = p
      BY <2>2, <3>2 DEF NetworksOf
    <3>4. net.base \in Digits(ip.family) /\ net.prefix \in 0 .. Width(ip.family)
      BY <2>2, <3>2, <3>3
    <3>. HIDE DEF ip
    <3>. QED
      BY <2>2, <3>1, <3>4, MaskIsRange, Zenon
  <2>3. AgreesOnMasks(raw[w])
    BY <2>2 DEF AgreesOnMasks
  <2>. QED
    BY <2>1, <2>3 DEF Agreeing
<1>. QED
  BY InitMemoInv, StepMemoInv, <1>1, PTL DEF MemoSpec
=============================================================================
