----------------------------- MODULE FetchClient -----------------------------
(***************************************************************************)
(* HttpFetcher::fetch (fetch/mod.rs) on one worker thread: the redirect    *)
(* loop, its deadline and its byte cap, and the two thread-locals through  *)
(* which a fetch and the guarded resolver ureq calls back talk to each     *)
(* other (fetch/guard/mod.rs).  Servers answer what Web allows, when they  *)
(* please, or never; names resolve to what Dns allows.                     *)
(***************************************************************************)
EXTENDS Naturals, Sequences, FiniteSets

CONSTANTS
  Urls, Fetchable, AllowListed, SocketAddrs, NoEndpoint, Forbidden,
  SameOriginExemption,   \* see FetchPromise
  NoUrl,                 \* a Location that is missing or does not parse
  Dns,                   \* URL -> the answers its host can resolve to
  Web,                   \* URL -> the responses its server can give
  Calls,                 \* the fetches the engine can ask for
  MaxNow                 \* bound: units of time that pass

Response == [status : {"ok", "redirect", "error"}, next : Urls \cup {NoUrl},
             length : Nat, declared : BOOLEAN, encoded : BOOLEAN]

Endpoint == SocketAddrs \cup {NoEndpoint}

Call == [url : Urls, cap : Nat, timeout : Nat, limit : Nat,
         guarded : BOOLEAN, parent : Endpoint]

ASSUME ClientAssumption ==
  /\ Fetchable \subseteq Urls
  /\ AllowListed \subseteq Urls
  /\ NoUrl \notin Urls
  /\ NoEndpoint \notin SocketAddrs
  /\ Forbidden \subseteq SocketAddrs
  /\ SameOriginExemption \in BOOLEAN
  /\ Dns \in [Fetchable -> SUBSET (Seq(SocketAddrs) \ {<<>>})]
  /\ Web \in [Fetchable -> SUBSET Response]
  /\ Calls \subseteq Call
  /\ MaxNow \in Nat

VARIABLES
  phase,          \* where fetch() stands
  call,           \* url, policy and context of the fetch
  current,        \* the URL of this hop
  hop,            \* redirects followed so far
  deadline,       \* of the whole fetch
  scope,          \* thread-local SCOPE
  saved,          \* what the ScopeGuard will restore
  lastEndpoint,   \* thread-local LAST_ENDPOINT
  response,       \* the response whose body is being read
  got,            \* bytes of it read so far
  result,         \* what fetch() returned
  now,            \* what Instant::now reads
  began,          \* history: when fetch() was called
  dials           \* history: the addresses handed to the connector, hop by hop

vars == <<phase, call, current, hop, deadline, scope, saved, lastEndpoint,
          response, got, result, now, began, dials>>

P == INSTANCE FetchPromise WITH busy <- phase # "idle"

Scope == [guarded : BOOLEAN, parent : Endpoint]
DefaultScope == [guarded |-> TRUE, parent |-> NoEndpoint]

NoResponse == [status |-> "error", next |-> NoUrl, length |-> 0,
               declared |-> FALSE, encoded |-> FALSE]

(* peer is the address the connector got through to.                       *)
Dial == [url : Fetchable, addrs : Seq(SocketAddrs), peer : SocketAddrs, scope : Scope]

TypeOK ==
  /\ phase \in {"idle", "hop", "resolve", "respond", "read"}
  /\ call \in Call
  /\ current \in Urls
  /\ hop \in Nat
  /\ deadline \in Nat
  /\ scope \in Scope
  /\ saved \in Scope
  /\ lastEndpoint \in Endpoint
  /\ response \in Response
  /\ got \in Nat
  /\ result \in P!Fetched \cup [kind : P!FetchError \cup {"none"}]
  /\ now \in Nat
  /\ began \in Nat
  /\ dials \in Seq(Dial)

Init ==
  /\ phase = "idle"
  /\ call \in Calls
  /\ current = call.url
  /\ hop = 0
  /\ deadline = 0
  /\ scope = DefaultScope
  /\ saved = DefaultScope
  /\ lastEndpoint = NoEndpoint
  /\ response = NoResponse
  /\ got = 0
  /\ result = P!Pending
  /\ now = 0
  /\ began = 0
  /\ dials = <<>>

-----------------------------------------------------------------------------
(* fetch() up to its loop, enter_scope() included.                         *)
Begin(c) ==
  /\ phase = "idle"
  /\ now + c.timeout <= MaxNow
  /\ phase' = "hop"
  /\ call' = c
  /\ current' = c.url
  /\ hop' = 0
  /\ deadline' = now + c.timeout
  /\ scope' = [guarded |-> c.guarded, parent |-> c.parent]
  /\ saved' = scope
  /\ lastEndpoint' = NoEndpoint
  /\ response' = NoResponse
  /\ got' = 0
  /\ result' = P!Pending
  /\ began' = now
  /\ dials' = <<>>
  /\ UNCHANGED now

hopVars == <<call, current, hop, deadline, saved, lastEndpoint, began, dials>>

(* A bug in which only a successful fetch restores the scope.              *)
ReturnOnSuccess(r) ==
  /\ phase' = "idle"
  /\ result' = r
  /\ scope' = IF r.kind = "ok" THEN saved ELSE scope
  /\ UNCHANGED <<hopVars, response, got, now>>

(* Every return drops the ScopeGuard, which restores the scope.            *)
Return(r) ==
  /\ phase' = "idle"
  /\ result' = r
  /\ scope' = saved
  /\ UNCHANGED <<hopVars, response, got, now>>

RefuseScheme ==
  /\ phase = "hop"
  /\ current \notin Fetchable
  /\ Return(P!Error("scheme"))

(* Any hop but the first starts only if time is left; so does the first.   *)
Request ==
  /\ phase = "hop"
  /\ current \in Fetchable
  /\ now < deadline
  /\ phase' = "resolve"
  /\ UNCHANGED <<hopVars, scope, response, got, result, now>>

(* The connector tries the addresses it is handed in turn.                 *)
Connected(addrs, peer) ==
  dials' = Append(dials, [url |-> current, addrs |-> addrs, peer |-> peer,
                          scope |-> scope])

(* A bug in which only the first hop of a fetch is vetted.                 *)
ResolvedTrusting ==
  /\ phase = "resolve"
  /\ \E addrs \in Dns[current] :
       /\ \A i \in DOMAIN addrs :
            hop = 0 => P!Reachable(addrs[i], current, scope.guarded, scope.parent)
       /\ lastEndpoint' = addrs[1]
       /\ \E i \in DOMAIN addrs : Connected(addrs, addrs[i])
  /\ phase' = "respond"
  /\ UNCHANGED <<call, current, hop, deadline, saved, began,
                 scope, response, got, result, now>>

(* ureq calls the resolver on this thread, and the guard permits what it   *)
(* finds in the thread's scope.  The resolver ignores the time limit.      *)
Resolved ==
  /\ phase = "resolve"
  /\ \E addrs \in Dns[current] :
       /\ \A i \in DOMAIN addrs :
            P!Reachable(addrs[i], current, scope.guarded, scope.parent)
       /\ lastEndpoint' = addrs[1]
       /\ \E i \in DOMAIN addrs : Connected(addrs, addrs[i])
  /\ phase' = "respond"
  /\ UNCHANGED <<call, current, hop, deadline, saved, began,
                 scope, response, got, result, now>>

(* The guard refuses the name, or the resolver does not know it.           *)
Denied ==
  /\ phase = "resolve"
  /\ scope.guarded
  /\ current \notin AllowListed
  /\ Return(P!Error("ssrf"))

Unresolved == phase = "resolve" /\ Return(P!Error("transport"))

-----------------------------------------------------------------------------
Redirects(r) == r.status = "redirect" /\ r.next \in Fetchable

(* A bug in which every hop gets a deadline of its own.                    *)
FollowAfresh(r) ==
  /\ Redirects(r)
  /\ hop < call.limit
  /\ current' = r.next
  /\ hop' = hop + 1
  /\ deadline' = now + call.timeout
  /\ phase' = "hop"
  /\ UNCHANGED <<call, saved, lastEndpoint, began, dials,
                 scope, response, got, result, now>>

(* A bug in which the limit counts requests and not redirects, from one.   *)
FollowOneMore(r) ==
  /\ Redirects(r)
  /\ hop <= call.limit
  /\ current' = r.next
  /\ hop' = hop + 1
  /\ phase' = "hop"
  /\ UNCHANGED <<call, deadline, saved, lastEndpoint, began, dials,
                 scope, response, got, result, now>>

Follow(r) ==
  /\ Redirects(r)
  /\ hop < call.limit
  /\ current' = r.next
  /\ hop' = hop + 1
  /\ phase' = "hop"
  /\ UNCHANGED <<call, deadline, saved, lastEndpoint, began, dials,
                 scope, response, got, result, now>>

TooMany(r) ==
  /\ Redirects(r)
  /\ hop = call.limit
  /\ Return(P!Error("redirects"))

BadRedirect(r) ==
  /\ r.status = "redirect"
  /\ r.next \notin Fetchable
  /\ Return(P!Error("badredirect"))

(* check_status, check_declared_length and check_content_encoding.         *)
Rejection(r) ==
  IF r.status = "error" THEN "status"
  ELSE IF r.declared /\ r.length > call.cap THEN "toolarge"
  ELSE IF r.encoded THEN "transport"
  ELSE "none"

Reject(r) ==
  /\ r.status # "redirect"
  /\ Rejection(r) # "none"
  /\ Return(P!Error(Rejection(r)))

Accept(r) ==
  /\ r.status # "redirect"
  /\ Rejection(r) = "none"
  /\ response' = r
  /\ got' = 0
  /\ phase' = "read"
  /\ UNCHANGED <<hopVars, scope, result, now>>

(* The response headers arrive while ureq still waits for them.            *)
Respond ==
  /\ phase = "respond"
  /\ now < deadline
  /\ \E r \in Web[current] :
       Follow(r) \/ TooMany(r) \/ BadRedirect(r) \/ Reject(r) \/ Accept(r)

-----------------------------------------------------------------------------
(* A bug in which the reader stops at the cap and not one byte after it.   *)
TakeCap == IF response.length < call.cap THEN response.length ELSE call.cap

(* read_capped() reads at most one byte more than the cap.                 *)
Limited == IF response.length < call.cap + 1 THEN response.length ELSE call.cap + 1

ReadChunk ==
  /\ phase = "read"
  /\ now < deadline
  /\ \E n \in got + 1 .. Limited : got' = n
  /\ UNCHANGED <<hopVars, phase, scope, response, result, now>>

ReadEnd ==
  /\ phase = "read"
  /\ now < deadline
  /\ got = Limited
  /\ Return(IF got > call.cap THEN P!Error("toolarge")
            ELSE [kind |-> "ok", final |-> current, endpoint |-> lastEndpoint,
                  length |-> got])

(* The connection fails, or one of ureq's shorter timeouts fires.          *)
Broken ==
  /\ phase \in {"respond", "read"}
  /\ \E kind \in {"transport", "timeout"} : Return(P!Error(kind))

(* A bug in which the body is read without looking at the clock.           *)
OutOfTimeUnread ==
  /\ phase \in {"hop", "respond"}
  /\ current \in Fetchable
  /\ now >= deadline
  /\ Return(P!Error("timeout"))

(* The deadline is noticed before a request, by ureq, or between two reads.*)
OutOfTime ==
  /\ phase \in {"hop", "respond", "read"}
  /\ current \in Fetchable
  /\ now >= deadline
  /\ Return(P!Error("timeout"))

Tick ==
  /\ now < MaxNow
  /\ now' = now + 1
  /\ UNCHANGED <<phase, hopVars, scope, response, got, result>>

Resolve == Resolved \/ Denied \/ Unresolved

Next ==
  \/ \E c \in Calls : Begin(c)
  \/ RefuseScheme
  \/ Request
  \/ Resolve
  \/ Respond
  \/ ReadChunk
  \/ ReadEnd
  \/ Broken
  \/ OutOfTime
  \/ Tick

Spec == Init /\ [][Next]_vars

(* Time passes, the client acts on its own behalf and the platform's       *)
(* resolver returns.  Nothing is asked of a server.                        *)
FairSpec ==
  /\ Spec
  /\ WF_vars(Tick)
  /\ WF_vars(RefuseScheme \/ Request \/ OutOfTime)
  /\ WF_vars(Resolve)

-----------------------------------------------------------------------------
(* Outside a fetch the thread resolves under the strict default, however   *)
(* the last fetch ended; inside, every hop was resolved in the scope of    *)
(* this fetch and of no other.                                             *)
ScopeHeld ==
  /\ phase = "idle" => scope = DefaultScope
  /\ \A i \in DOMAIN dials :
       dials[i].scope = [guarded |-> call.guarded, parent |-> call.parent]

(* No fetch dials more often than its policy's redirect limit plus one,    *)
(* and it dials anew for every hop.                                        *)
HopsBounded ==
  /\ TypeOK
  /\ Len(dials) <= call.limit + 1
  /\ phase \in {"respond", "read"} => Len(dials) = hop + 1

(* The endpoint a document's sub-resources are compared with is the first  *)
(* address vetted for the host that served it, not that of an earlier hop, *)
(* an earlier fetch or a host that merely redirected.                      *)
EndpointOfLastHop ==
  result.kind = "ok" =>
    LET last == dials[Len(dials)] IN
    last.url = result.final /\ last.addrs[1] = result.endpoint

(* What the client and the resolver callback leave each other in the       *)
(* thread's locals is this fetch's own: its scope, and its last endpoint.  *)
ThreadLocalsTrue == ScopeHeld /\ EndpointOfLastHop

(* A body that is returned is complete and within the cap; one that is too *)
(* long is never cut to fit.                                               *)
WholeBody ==
  result.kind = "ok" => result.length = response.length /\ result.length <= call.cap

(* The time limit spans the whole chain of redirects: no hop starts and    *)
(* no byte is accepted once it has passed.                                 *)
TotalDeadline ==
  [][\/ phase = "hop" /\ phase' = "resolve"
     \/ phase = "read" /\ got' > got
     \/ phase = "read" /\ result'.kind = "ok"
       => now < began + call.timeout]_vars

(* Every fetch ends, against servers that redirect in circles, trickle     *)
(* bytes or say nothing at all.                                            *)
FetchEnds == phase # "idle" ~> phase = "idle"

KeepsPromise == P!FetchSpec

-----------------------------------------------------------------------------
(* fetch/mod.rs:111 says of Fetched::endpoint "Vetted address the last hop *)
(* was made to".                                                           *)
EndpointIsPeer ==
  result.kind = "ok" => result.endpoint = dials[Len(dials)].peer
=============================================================================
