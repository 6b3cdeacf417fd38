-------------------------------- MODULE Guard --------------------------------
(***************************************************************************)
(* The SSRF guard (fetch/guard/mod.rs): decide(), as the worker threads    *)
(* run it against the shared ResolveCache.  Consulting the table, asking   *)
(* the resolver and recording the verdict are three steps, and no lock     *)
(* spans them: two threads that miss on one name both resolve it, may get  *)
(* different answers, and record their verdicts in either order.           *)
(***************************************************************************)
EXTENDS ResolveCache

CONSTANTS
  Workers,               \* the threads
  Forbidden,             \* the endpoints whose address the deny table matches
  AllowAddrs,            \* the endpoints whose address a CIDR of allow_hosts holds
  AllowHosts,            \* the names (or literals) listed in allow_hosts
  SameOriginExemption,   \* same_origin_exemption
  Dns,                   \* name -> the answers the resolver can give
  Requests,              \* the resolutions ureq can ask for
  NoParent,              \* a scope without a parent endpoint
  MaxCalls,              \* bound: resolutions started
  MaxNow                 \* bound: units of time that pass

Names == Keys \cup SocketAddrs      \* a literal address is its own endpoint

ASSUME GuardAssumption ==
  /\ Keys \cap SocketAddrs = {}
  /\ NoParent \notin SocketAddrs
  /\ Forbidden \subseteq SocketAddrs
  /\ AllowAddrs \subseteq SocketAddrs
  /\ AllowHosts \subseteq Names
  /\ SameOriginExemption \in BOOLEAN
  /\ Dns \in [Names -> SUBSET Seq(SocketAddrs)]
  /\ Requests # {}
  /\ Requests \subseteq [name : Names, guarded : BOOLEAN,
                         parent : SocketAddrs \cup {NoParent}]
  /\ MaxCalls \in Nat
  /\ MaxNow \in Nat

VARIABLES
  pc,       \* Workers -> where decide() stands
  req,      \* Workers -> the resolution asked for, with the thread's scope
  answer,   \* Workers -> the addresses about to be vetted
  reply,    \* Workers -> what decide() returned last
  calls,    \* resolutions started
  tainted,  \* history: names a thread has refused after resolving them
  vettedAt  \* history: when a name's last positive verdict was offered for storing

guardVars == <<pc, req, answer, reply, calls, tainted, vettedAt>>
vars == <<table, clock, hits, misses, now,
          pc, req, answer, reply, calls, tainted, vettedAt>>

Literal(name) == name \in SocketAddrs

Reply == [kind : {"none", "ok", "denied", "failed"}, addrs : Seq(SocketAddrs)]

NoReply == [kind |-> "none", addrs |-> <<>>]

TypeOK ==
  /\ CacheTypeOK
  /\ pc \in [Workers -> {"idle", "get", "lookup", "settle"}]
  /\ req \in [Workers -> [name : Names, guarded : BOOLEAN,
                          parent : SocketAddrs \cup {NoParent}]]
  /\ answer \in [Workers -> Seq(SocketAddrs)]
  /\ reply \in [Workers -> Reply]
  /\ calls \in Nat
  /\ tainted \subseteq Names
  /\ vettedAt \in [Keys -> Nat]

Init ==
  /\ CacheInit
  /\ pc = [w \in Workers |-> "idle"]
  /\ req = [w \in Workers |-> CHOOSE r \in Requests : TRUE]
  /\ answer = [w \in Workers |-> <<>>]
  /\ reply = [w \in Workers |-> NoReply]
  /\ calls = 0
  /\ tainted = {}
  /\ vettedAt = [k \in Keys |-> 0]

-----------------------------------------------------------------------------
(* exempt(): reachable although the deny table may match.                  *)
Exempt(a, r) ==
  \/ a \in AllowAddrs
  \/ SameOriginExemption /\ r.parent = a

Refused(a, r) == a \in Forbidden /\ ~Exempt(a, r)

Return(w, kind, addrs) ==
  /\ pc' = [pc EXCEPT ![w] = "idle"]
  /\ answer' = [answer EXCEPT ![w] = <<>>]
  /\ reply' = [reply EXCEPT ![w] = [kind |-> kind, addrs |-> addrs]]

(* A bug in which an unguarded resolution consults the shared table too.   *)
FirstStepSharing(r) ==
  IF r.name \in AllowHosts THEN "lookup"
  ELSE IF Literal(r.name) THEN "settle" ELSE "get"

(* The branches at the top of decide(), local to the thread.               *)
FirstStep(r) ==
  IF r.name \in AllowHosts THEN "lookup"
  ELSE IF Literal(r.name) THEN "settle"
  ELSE IF r.guarded THEN "get" ELSE "lookup"

Call(w) ==
  /\ pc[w] = "idle"
  /\ calls < MaxCalls
  /\ calls' = calls + 1
  /\ \E r \in Requests :
       /\ req' = [req EXCEPT ![w] = r]
       /\ pc' = [pc EXCEPT ![w] = FirstStep(r)]
       /\ answer' = [answer EXCEPT ![w] =
                       IF FirstStep(r) = "settle" THEN <<r.name>> ELSE <<>>]
  /\ reply' = [reply EXCEPT ![w] = NoReply]
  /\ UNCHANGED <<cacheVars, tainted, vettedAt>>

(* A bug in which the table's verdict is handed on without translation.    *)
GetHitVerbatim(w) ==
  /\ pc[w] = "get"
  /\ Hit(req[w].name)
  /\ Return(w, table[req[w].name].kind, table[req[w].name].addrs)
  /\ UNCHANGED <<req, calls, tainted, vettedAt>>

(* A verdict in the table settles the matter, before any exemption is      *)
(* looked at.                                                              *)
GetHit(w) ==
  /\ pc[w] = "get"
  /\ Hit(req[w].name)
  /\ Return(w, IF table[req[w].name].kind = "denied" THEN "denied" ELSE "ok",
            table[req[w].name].addrs)
  /\ UNCHANGED <<req, calls, tainted, vettedAt>>

GetMiss(w) ==
  /\ pc[w] = "get"
  /\ Miss(req[w].name)
  /\ pc' = [pc EXCEPT ![w] = "lookup"]
  /\ UNCHANGED <<req, answer, reply, calls, tainted, vettedAt>>

(* The resolver answers.  An allow-listed name is not vetted at all.       *)
LookupOk(w) ==
  /\ pc[w] = "lookup"
  /\ \E a \in Dns[req[w].name] \ {<<>>} :
       IF req[w].name \in AllowHosts
       THEN Return(w, "ok", a)
       ELSE /\ answer' = [answer EXCEPT ![w] = a]
            /\ pc' = [pc EXCEPT ![w] = "settle"]
            /\ UNCHANGED reply
  /\ UNCHANGED <<cacheVars, req, calls, tainted, vettedAt>>

(* The resolver fails, or answers with no address at all.                  *)
LookupFails(w) ==
  /\ pc[w] = "lookup"
  /\ Return(w, "failed", <<>>)
  /\ UNCHANGED <<cacheVars, req, calls, tainted, vettedAt>>

-----------------------------------------------------------------------------
(* An unguarded resolution returns what it found and records nothing.      *)
Unguarded(w) ==
  /\ pc[w] = "settle"
  /\ ~req[w].guarded
  /\ Return(w, "ok", answer[w])
  /\ UNCHANGED <<cacheVars, req, calls, tainted, vettedAt>>

(* A bug in which only the first address of an answer is vetted.           *)
RefusedFirst(w) ==
  {i \in DOMAIN answer[w] : i = 1 /\ Refused(answer[w][i], req[w])}

RefusedAt(w) == {i \in DOMAIN answer[w] : Refused(answer[w][i], req[w])}

(* The vetting loop stops at the first address the table forbids.  The     *)
(* loop reads only the thread's own answer, so it is one step with the     *)
(* insertion that follows it.                                              *)
Deny(w) ==
  /\ pc[w] = "settle"
  /\ req[w].guarded
  /\ \E i \in RefusedAt(w) :
       /\ \A j \in RefusedAt(w) : i <= j
       /\ IF Literal(req[w].name)
          THEN UNCHANGED cacheVars
          ELSE Insert(req[w].name, "denied", <<answer[w][i]>>)
       /\ Return(w, "denied", <<answer[w][i]>>)
  /\ tainted' = tainted \cup {req[w].name}
  /\ UNCHANGED <<req, calls, vettedAt>>

(* A bug in which an answer is stored although an exemption let it pass.   *)
CacheableAlways(w) == ~Literal(req[w].name)

(* An answer that only an exemption lets through is never shared.          *)
Cacheable(w) ==
  /\ ~Literal(req[w].name)
  /\ \A i \in DOMAIN answer[w] : ~Exempt(answer[w][i], req[w])

Grant(w) ==
  /\ pc[w] = "settle"
  /\ req[w].guarded
  /\ RefusedAt(w) = {}
  /\ IF Cacheable(w)
     THEN /\ Insert(req[w].name, "allowed", answer[w])
          /\ vettedAt' = [vettedAt EXCEPT ![req[w].name] = now]
     ELSE UNCHANGED <<cacheVars, vettedAt>>
  /\ Return(w, "ok", answer[w])
  /\ UNCHANGED <<req, calls, tainted>>

Tick ==
  /\ now < MaxNow
  /\ now' = now + 1
  /\ UNCHANGED <<table, clock, hits, misses, guardVars>>

Decide(w) ==
  \/ GetHit(w)
  \/ GetMiss(w)
  \/ LookupOk(w)
  \/ LookupFails(w)
  \/ Unguarded(w)
  \/ Deny(w)
  \/ Grant(w)

Next == Tick \/ \E w \in Workers : Call(w) \/ Decide(w)

Spec == Init /\ [][Next]_vars

(* A thread inside decide() keeps running, and the platform resolver gives *)
(* up by itself.  Nothing obliges a new resolution to start.               *)
FairSpec == Spec /\ \A w \in Workers : WF_vars(Decide(w))

-----------------------------------------------------------------------------
(* A guarded resolution of a name that is not allow-listed hands out only  *)
(* addresses that are clean or exempt for this very request, whether they  *)
(* were just resolved or come from a verdict another thread stored for a   *)
(* request with other exemptions.                                          *)
VettedOnly ==
  \A w \in Workers :
    reply[w].kind = "ok" /\ req[w].guarded /\ req[w].name \notin AllowHosts
      => \A i \in DOMAIN reply[w].addrs : ~Refused(reply[w].addrs[i], req[w])

(* A stored verdict is one every request may use: what it allows is clean  *)
(* without any exemption, and what it refuses some thread did refuse.      *)
SharedVerdictsHold ==
  \A k \in Keys :
    /\ table[k].kind = "allowed" =>
         /\ table[k].addrs # <<>>
         /\ \A i \in DOMAIN table[k].addrs : table[k].addrs[i] \notin Forbidden
    /\ table[k].kind = "denied" => k \in tainted

(* How far a resolution got says what is known of it: only guarded names   *)
(* reach the table, an allow-listed one is never vetted, an answer is      *)
(* never empty, and no one is refused without a refusal on record.         *)
Phases ==
  \A w \in Workers :
    LET r == req[w] IN
    /\ pc[w] = "get" => r.name \in Keys /\ r.guarded /\ r.name \notin AllowHosts
    /\ pc[w] = "settle" => answer[w] # <<>> /\ r.name \notin AllowHosts
    /\ reply[w].kind = "ok" => reply[w].addrs # <<>>
    /\ reply[w].kind = "denied" =>
         r.guarded /\ r.name \in tainted /\ r.name \notin AllowHosts

(* The inductive invariant behind the theorems of GuardProofs.             *)
IInv == TypeOK /\ Phases /\ SharedVerdictsHold /\ VettedOnly

(* The table never outgrows its bound, whatever threads insert at once.    *)
BoundedTable == Cardinality(Resident) <= MaxEntries

(* No thread turns a resident refusal into a permission: the late answer   *)
(* of a thread that resolved before another one refused is dropped.        *)
RefusalKept ==
  [][\A k \in Keys : table[k].kind = "denied" => table'[k].kind # "allowed"]_vars

(* An address served from the table was vetted less than AllowTtl ago, no  *)
(* matter how often the entry was used in between.                         *)
StaleNeverServed ==
  [][\A w \in Workers :
       pc[w] = "get" /\ pc'[w] = "idle" /\ reply'[w].kind = "ok"
         => now - vettedAt[req[w].name] < AllowTtl]_vars

(* Every resolution that starts ends, in an answer, a refusal or a failure.*)
EveryCallReturns == \A w \in Workers : pc[w] # "idle" ~> pc[w] = "idle"

(* What the guard promises its callers, with the table hidden.             *)
Promise == INSTANCE GuardPromise WITH busy <- [w \in Workers |-> pc[w] # "idle"]

KeepsPromise == Promise!Spec

-----------------------------------------------------------------------------
(* policy/mod.rs:332 says of the table "Denies never expire."              *)
DeniesNeverExpire ==
  [][\A k \in Keys : table[k].kind = "denied" => table'[k].kind = "denied"]_vars

(* policy/mod.rs:326 says of same_origin_exemption "A sub-resource served  *)
(* by the parent's own endpoint stays reachable": a name that resolves to  *)
(* nothing but the parent's endpoint is not refused.                       *)
OwnEndpointReachable ==
  \A w \in Workers :
    /\ SameOriginExemption
    /\ req[w].guarded
    /\ \A a \in Dns[req[w].name] : a = <<req[w].parent>>
    => reply[w].kind # "denied"
=============================================================================
