---------------------------- MODULE FetchPromise ----------------------------
(***************************************************************************)
(* What Fetcher::fetch promises the engine, with the hops hidden: at most  *)
(* one result per call, and a body only from an endpoint the guard permits *)
(* in the scope of the call, complete, and no longer than the call's cap.  *)
(***************************************************************************)
EXTENDS Naturals, FiniteSets

CONSTANTS
  Urls,          \* URLs, of any scheme
  Fetchable,     \* those with scheme http or https
  AllowListed,   \* those whose host is in allow_hosts
  SocketAddrs,   \* endpoints
  NoEndpoint,    \* no endpoint is known
  Forbidden,     \* endpoints the deny table refuses, allow_hosts considered
  SameOriginExemption

ASSUME FetchAssumption ==
  /\ Fetchable \subseteq Urls
  /\ AllowListed \subseteq Urls
  /\ NoEndpoint \notin SocketAddrs
  /\ Forbidden \subseteq SocketAddrs
  /\ SameOriginExemption \in BOOLEAN

VARIABLES
  busy,     \* a fetch is under way
  call,     \* what was asked for last
  result    \* what it returned, Pending while it runs

promiseVars == <<busy, call, result>>

Endpoint == SocketAddrs \cup {NoEndpoint}

(* The URL, the limits of FetchPolicy and the scope the guard works in.    *)
Call == [url : Urls, cap : Nat, timeout : Nat, limit : Nat,
         guarded : BOOLEAN, parent : Endpoint]

FetchError == {"scheme", "timeout", "redirects", "badredirect", "status",
               "toolarge", "ssrf", "transport"}

Fetched == [kind : {"ok"}, final : Fetchable, endpoint : Endpoint, length : Nat]

Error(kind) == [kind |-> kind]
Pending == Error("none")

Reachable(addr, url, guarded, parent) ==
  \/ ~guarded
  \/ url \in AllowListed
  \/ addr \notin Forbidden
  \/ SameOriginExemption /\ addr = parent

Delivers(c, r) ==
  /\ c.url \in Fetchable
  /\ r \in Fetched
  /\ r.endpoint \in SocketAddrs
  /\ Reachable(r.endpoint, r.final, c.guarded, c.parent)
  /\ r.length <= c.cap

-----------------------------------------------------------------------------
Begin(c) ==
  /\ ~busy
  /\ busy' = TRUE
  /\ call' = c
  /\ result' = Pending

Deliver(r) ==
  /\ busy
  /\ Delivers(call, r)
  /\ busy' = FALSE
  /\ result' = r
  /\ UNCHANGED call

(* Without a guard there is no one to block, and only a call for another   *)
(* scheme fails for its scheme.                                            *)
Fail(kind) ==
  /\ busy
  /\ kind \in FetchError
  /\ kind = "ssrf" => call.guarded
  /\ kind = "scheme" <=> call.url \notin Fetchable
  /\ busy' = FALSE
  /\ result' = Error(kind)
  /\ UNCHANGED call

FetchInit == busy = FALSE /\ call \in Call /\ result = Pending

FetchNext ==
  \/ Begin(call') /\ call' \in Call
  \/ Deliver(result')
  \/ Fail(result'.kind)

FetchSpec == FetchInit /\ [][FetchNext]_promiseVars
=============================================================================
