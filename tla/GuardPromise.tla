---------------------------- MODULE GuardPromise ----------------------------
(***************************************************************************)
(* What the SSRF guard promises each thread that resolves a name, without  *)
(* the table: an answer is permitted for the scope it was asked in, and a  *)
(* refusal is owed to a forbidden address that some thread did resolve.    *)
(***************************************************************************)
EXTENDS Naturals, Sequences

CONSTANTS Workers, Keys, SocketAddrs, Forbidden, AllowAddrs, AllowHosts,
          SameOriginExemption, Requests

VARIABLES
  busy,     \* Workers -> a resolution is under way
  req,      \* Workers -> the resolution asked for last
  reply,    \* Workers -> what it returned
  tainted   \* names some thread has refused after resolving them

promiseVars == <<busy, req, reply, tainted>>

Reachable(a, r) ==
  \/ a \notin Forbidden
  \/ a \in AllowAddrs
  \/ SameOriginExemption /\ r.parent = a

Permitted(r, addrs) ==
  /\ addrs # <<>>
  /\ r.guarded /\ r.name \notin AllowHosts
       => \A i \in DOMAIN addrs : Reachable(addrs[i], r)

Init ==
  /\ busy = [w \in Workers |-> FALSE]
  /\ req \in [Workers -> Requests]
  /\ reply = [w \in Workers |-> [kind |-> "none", addrs |-> <<>>]]
  /\ tainted = {}

Ask(w) ==
  /\ ~busy[w]
  /\ busy' = [busy EXCEPT ![w] = TRUE]
  /\ \E r \in Requests : req' = [req EXCEPT ![w] = r]
  /\ reply' = [reply EXCEPT ![w] = [kind |-> "none", addrs |-> <<>>]]
  /\ UNCHANGED tainted

Answered(w) ==
  /\ busy[w]
  /\ busy' = [busy EXCEPT ![w] = FALSE]
  /\ reply' = [reply EXCEPT ![w] = reply'[w]]
  /\ UNCHANGED req

Permit(w) ==
  /\ Answered(w)
  /\ reply'[w].kind = "ok"
  /\ Permitted(req[w], reply'[w].addrs)
  /\ UNCHANGED tainted

Refuse(w) ==
  /\ Answered(w)
  /\ reply'[w].kind = "denied"
  /\ req[w].guarded
  /\ req[w].name \notin AllowHosts
  /\ tainted' \in {tainted, tainted \cup {req[w].name}}
  /\ req[w].name \in tainted'

Fail(w) ==
  /\ Answered(w)
  /\ reply'[w].kind = "failed"
  /\ UNCHANGED tainted

Next == \E w \in Workers : Ask(w) \/ Permit(w) \/ Refuse(w) \/ Fail(w)

Spec == Init /\ [][Next]_promiseVars
=============================================================================
