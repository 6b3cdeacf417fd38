------------------------------- MODULE MCGuard -------------------------------
(***************************************************************************)
(* Small instances of Guard.  intranet and rebound are names; the first    *)
(* resolves to the parent's own endpoint or to one that allow_hosts holds, *)
(* the second rebinds between a public address and a mixed answer; listed  *)
(* is allow-listed.                                                        *)
(***************************************************************************)
EXTENDS Guard

CONSTANTS intranet, rebound, listed, pub, priv, own, cidr

MCKeys == {intranet, rebound, listed}
MCSocketAddrs == {pub, priv, own, cidr}
MCForbidden == {priv, own, cidr}

MCDns ==
  [n \in MCKeys \cup MCSocketAddrs |->
     CASE n = intranet -> {<<own>>, <<cidr>>}
       [] n = rebound  -> {<<pub>>, <<pub, priv>>, <<>>}
       [] n = listed   -> {<<priv>>}
       [] OTHER        -> {<<n>>}]

Ask(name, guarded, parent) == [name |-> name, guarded |-> guarded, parent |-> parent]

MCRequests ==
  {Ask(intranet, TRUE, own), Ask(intranet, TRUE, NoParent),
   Ask(rebound, TRUE, NoParent), Ask(rebound, FALSE, NoParent),
   Ask(listed, TRUE, NoParent), Ask(own, TRUE, own), Ask(priv, TRUE, own)}

(* One host, one answer: nothing rebinds, and no policy entry exempts it.  *)
FixedDns ==
  [n \in MCKeys \cup MCSocketAddrs |->
     CASE n = intranet -> {<<own>>}
       [] n = rebound  -> {<<pub>>}
       [] n = listed   -> {<<priv>>}
       [] OTHER        -> {<<n>>}]
=============================================================================
