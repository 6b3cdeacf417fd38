-------------------------- MODULE FetchClientProofs --------------------------
(***************************************************************************)
(* Theorems about FetchClient, for every web, every resolver, every deny   *)
(* table and every set of fetches, and without a bound on time.            *)
(***************************************************************************)
EXTENDS FetchClient, TLAPS

Fetching == phase # "idle"

(* The thread works in the scope of its fetch and remembers the default    *)
(* for the time after; the fetch has no result yet and one deadline.       *)
OwnScope ==
  /\ ScopeHeld
  /\ Fetching => /\ scope = [guarded |-> call.guarded, parent |-> call.parent]
                 /\ saved = DefaultScope
                 /\ result = P!Pending
                 /\ deadline = began + call.timeout

(* A redirect never leads to another scheme, so only the URL asked for can *)
(* have one, and it is refused before anything is resolved.                *)
WebOnly ==
  /\ Fetching => (current \in Fetchable <=> call.url \in Fetchable)
  /\ phase \in {"resolve", "respond", "read"} => current \in Fetchable

(* One dial per hop, and as many hops as redirects followed.               *)
DialsCounted ==
  /\ Fetching => hop <= call.limit
  /\ phase \in {"hop", "resolve"} => Len(dials) = hop
  /\ phase \in {"respond", "read"} => Len(dials) = hop + 1
  /\ Len(dials) <= call.limit + 1

(* Between the resolver's answer and the end of the fetch, the endpoint    *)
(* the thread remembers is the one vetted first for the current host.      *)
LastDial == dials[Len(dials)]

Vetted(addr, url) == P!Reachable(addr, url, call.guarded, call.parent)

EndpointVetted ==
  /\ phase \in {"respond", "read"} =>
       /\ LastDial.url = current
       /\ LastDial.addrs[1] = lastEndpoint
       /\ lastEndpoint \in SocketAddrs
       /\ Vetted(lastEndpoint, current)
  /\ EndpointOfLastHop

FetchInv ==
  /\ TypeOK /\ OwnScope /\ WebOnly /\ DialsCounted /\ EndpointVetted
  /\ WholeBody

FetchErrors == [kind : P!FetchError]

-----------------------------------------------------------------------------
(* Before the first fetch nothing was dialled and nothing returned.        *)
LEMMA InitFetchInv == Init => FetchInv
<1> SUFFICES ASSUME Init PROVE FetchInv
  OBVIOUS
<1>1. P!Pending.kind = "none" /\ P!Pending \in [kind : P!FetchError \cup {"none"}]
  BY DEF P!Pending, P!Error
<1>2. DefaultScope \in Scope /\ NoResponse \in Response
  BY DEF DefaultScope, Scope, Endpoint, NoResponse, Response
<1>3. call \in Call /\ current \in Urls
  BY ClientAssumption DEF Init, Call
<1>4. dials = <<>> /\ dials \in Seq(Dial) /\ Len(dials) = 0
  BY DEF Init
<1>5. TypeOK
  BY <1>1, <1>2, <1>3, <1>4 DEF Init, TypeOK, Endpoint
<1>6. OwnScope /\ WebOnly
  BY <1>4 DEF Init, OwnScope, ScopeHeld, WebOnly, Fetching
<1>7. DialsCounted
  BY <1>3, <1>4 DEF Init, DialsCounted, Fetching, Call
<1>8. EndpointVetted /\ WholeBody
  BY <1>1 DEF Init, EndpointVetted, EndpointOfLastHop, WholeBody
<1> QED
  BY <1>5, <1>6, <1>7, <1>8 DEF FetchInv

(* A fetch that begins finds the default scope, and takes its own.         *)
LEMMA BeginFetchInv ==
  ASSUME FetchInv, NEW c \in Calls, Begin(c)
  PROVE  FetchInv'
<1> USE DEF FetchInv
<1>1. c \in Call
  BY ClientAssumption
<1>2. P!Pending.kind = "none" /\ P!Pending \in [kind : P!FetchError \cup {"none"}]
  BY DEF P!Pending, P!Error
<1>3. [guarded |-> c.guarded, parent |-> c.parent] \in Scope
  BY <1>1 DEF Call, Scope
<1>4. dials' = <<>> /\ dials' \in Seq(Dial) /\ Len(dials') = 0
  BY DEF Begin
<1>5. TypeOK'
  <2>1. phase' \in {"hop"} /\ call' \in Call /\ current' \in Urls /\ hop' \in Nat
    BY <1>1 DEF Begin, Call
  <2>2. deadline' \in Nat /\ now' \in Nat /\ began' \in Nat /\ got' \in Nat
    BY <1>1 DEF Begin, Call, TypeOK
  <2>3. scope' \in Scope /\ saved' \in Scope /\ lastEndpoint' \in Endpoint
    BY <1>3 DEF Begin, TypeOK, Endpoint
  <2>4. response' \in Response
    BY DEF Begin, NoResponse, Response
  <2>5. result' \in P!Fetched \cup [kind : P!FetchError \cup {"none"}]
    BY <1>2 DEF Begin
  <2> QED
    BY <1>4, <2>1, <2>2, <2>3, <2>4, <2>5 DEF TypeOK
<1>6. OwnScope'
  BY <1>4 DEF Begin, OwnScope, ScopeHeld, Fetching
<1>7. WebOnly'
  BY DEF Begin, WebOnly, Fetching
<1>8. DialsCounted'
  BY <1>1, <1>4 DEF Begin, DialsCounted, Fetching, Call
<1>9. EndpointVetted' /\ WholeBody'
  BY <1>2 DEF Begin, EndpointVetted, EndpointOfLastHop, WholeBody
<1> QED
  BY <1>5, <1>6, <1>7, <1>8, <1>9

(* Every exit restores the default scope.  Only an exit from reading may   *)
(* return a body, and then a whole one from the last endpoint.             *)
LEMMA ReturnFetchInv ==
  ASSUME FetchInv, Fetching, NEW r \in P!Fetched \cup FetchErrors, Return(r),
         r.kind = "ok" =>
           /\ phase = "read"
           /\ r.final = current
           /\ r.endpoint = lastEndpoint
           /\ r.length = response.length
           /\ r.length <= call.cap
  PROVE  FetchInv'
<1> USE DEF FetchInv
<1>1. phase' = "idle" /\ scope' = DefaultScope /\ result' = r
  BY DEF Return, OwnScope
<1>2. UNCHANGED <<call, current, hop, deadline, saved, lastEndpoint, began, dials,
                  response, got, now>>
  BY DEF Return, hopVars
<1>3. r \in P!Fetched \cup [kind : P!FetchError \cup {"none"}]
  BY DEF FetchErrors
<1>4. TypeOK'
  BY <1>1, <1>2, <1>3 DEF TypeOK, DefaultScope, Scope, Endpoint
<1>5. OwnScope' /\ WebOnly' /\ DialsCounted'
  BY <1>1, <1>2 DEF OwnScope, ScopeHeld, WebOnly, DialsCounted, Fetching
<1>6. EndpointVetted'
  BY <1>1, <1>2 DEF EndpointVetted, EndpointOfLastHop, LastDial
<1>7. WholeBody'
  BY <1>1, <1>2 DEF WholeBody
<1> QED
  BY <1>4, <1>5, <1>6, <1>7

(* An error is a result like any other.                                    *)
LEMMA ErrorFetchInv ==
  ASSUME FetchInv, Fetching, NEW kind \in P!FetchError, Return(P!Error(kind))
  PROVE  FetchInv'
<1>1. P!Error(kind) \in FetchErrors /\ P!Error(kind).kind # "ok"
  BY DEF P!Error, FetchErrors, P!FetchError
<1> QED
  BY <1>1, ReturnFetchInv

(* A request is made for a web URL only.                                   *)
LEMMA RequestFetchInv ==
  ASSUME FetchInv, Request
  PROVE  FetchInv'
<1> USE DEF FetchInv, Request, hopVars
<1>1. TypeOK'
  BY DEF TypeOK
<1>2. OwnScope' /\ WebOnly' /\ DialsCounted'
  BY DEF OwnScope, ScopeHeld, WebOnly, DialsCounted, Fetching
<1>3. EndpointVetted' /\ WholeBody'
  BY DEF EndpointVetted, EndpointOfLastHop, WholeBody, OwnScope, Fetching,
         P!Pending, P!Error
<1> QED
  BY <1>1, <1>2, <1>3

(* What the resolver hands over was vetted in the scope of this fetch, and *)
(* the thread remembers the first address of it.                           *)
LEMMA ResolvedFetchInv ==
  ASSUME FetchInv, Resolved
  PROVE  FetchInv'
<1> USE DEF FetchInv
<1>1. phase = "resolve" /\ phase' = "respond" /\ Fetching
  BY DEF Resolved, Fetching
<1>2. UNCHANGED <<call, current, hop, deadline, saved, began, scope, response,
                  got, result, now>>
  BY DEF Resolved
<1>3. current \in Fetchable
  BY <1>1 DEF WebOnly
<1>4. PICK addrs \in Dns[current] :
        /\ \A j \in DOMAIN addrs :
             P!Reachable(addrs[j], current, scope.guarded, scope.parent)
        /\ lastEndpoint' = addrs[1]
        /\ \E j \in DOMAIN addrs : Connected(addrs, addrs[j])
  BY DEF Resolved
<1> PICK i \in DOMAIN addrs : Connected(addrs, addrs[i])
  BY <1>4
<1>5. /\ addrs \in Seq(SocketAddrs)
      /\ 1 \in DOMAIN addrs
      /\ addrs[1] \in SocketAddrs
      /\ addrs[i] \in SocketAddrs
  <2>1. addrs \in Seq(SocketAddrs) \ {<<>>}
    BY <1>3, <1>4, ClientAssumption
  <2> QED
    BY <2>1
<1> DEFINE dial == [url |-> current, addrs |-> addrs, peer |-> addrs[i], scope |-> scope]
<1>6. dial \in Dial
  BY <1>3, <1>5 DEF Dial, TypeOK
<1>7. dials' = Append(dials, dial)
  BY DEF Connected
<1>8. dials \in Seq(Dial)
  BY DEF TypeOK
<1>9. /\ dial.url = current
      /\ dial.addrs[1] = lastEndpoint'
      /\ dial.scope = [guarded |-> call.guarded, parent |-> call.parent]
  BY <1>1, <1>4 DEF OwnScope
<1> HIDE DEF dial
<1>10. /\ dials' \in Seq(Dial)
       /\ Len(dials') = Len(dials) + 1
       /\ dials'[Len(dials')] = dial
       /\ \A n \in DOMAIN dials' :
            \/ dials'[n] = dial
            \/ n \in DOMAIN dials /\ dials'[n] = dials[n]
  BY <1>6, <1>7, <1>8
<1>11. TypeOK'
  BY <1>1, <1>2, <1>4, <1>5, <1>10 DEF TypeOK, Endpoint
<1>12. OwnScope'
  BY <1>1, <1>2, <1>9, <1>10 DEF OwnScope, ScopeHeld, Fetching
<1>13. WebOnly' /\ WholeBody'
  BY <1>1, <1>2, <1>3 DEF WebOnly, WholeBody, Fetching
<1>14. DialsCounted'
  <2>1. call \in Call /\ hop \in Nat /\ call.limit \in Nat
    BY DEF TypeOK, Call
  <2>2. Len(dials) = hop /\ hop <= call.limit
    BY <1>1 DEF DialsCounted
  <2> QED
    BY <1>1, <1>2, <1>10, <2>1, <2>2 DEF DialsCounted, Fetching
<1>15. EndpointVetted'
  <2>1. result'.kind # "ok"
    BY <1>1, <1>2 DEF OwnScope, P!Pending, P!Error
  <2>2. Vetted(lastEndpoint, current)'
    <3>1. P!Reachable(addrs[1], current, scope.guarded, scope.parent)
      BY <1>4, <1>5
    <3>2. scope.guarded = call.guarded /\ scope.parent = call.parent
      BY <1>1 DEF OwnScope
    <3> QED
      BY <1>2, <1>4, <3>1, <3>2 DEF Vetted, P!Reachable
  <2>3. LastDial' = dial
    BY <1>10 DEF LastDial
  <2> QED
    BY <1>1, <1>2, <1>4, <1>5, <1>9, <2>1, <2>2, <2>3
       DEF EndpointVetted, EndpointOfLastHop
<1> QED
  BY <1>11, <1>12, <1>13, <1>14, <1>15

(* A redirect is followed within the limit, in the same fetch.             *)
LEMMA FollowFetchInv ==
  ASSUME FetchInv, phase = "respond", NEW r \in Response, Follow(r)
  PROVE  FetchInv'
<1> USE DEF FetchInv
<1>1. r.next \in Fetchable /\ r.next \in Urls
  BY ClientAssumption DEF Follow, Redirects
<1>2. phase' = "hop" /\ current' = r.next /\ hop' = hop + 1
  BY DEF Follow
<1>3. UNCHANGED <<call, deadline, saved, lastEndpoint, began, dials, scope,
                  response, got, result, now>>
  BY DEF Follow
<1>4. TypeOK'
  BY <1>1, <1>2, <1>3 DEF TypeOK
<1>5. OwnScope' /\ WebOnly'
  BY <1>1, <1>2, <1>3 DEF OwnScope, ScopeHeld, WebOnly, Fetching
<1>6. DialsCounted'
  <2>1. hop \in Nat /\ call.limit \in Nat /\ hop < call.limit
    BY DEF Follow, TypeOK, Call
  <2> QED
    BY <1>2, <1>3, <2>1 DEF DialsCounted, Fetching
<1>7. EndpointVetted' /\ WholeBody'
  BY <1>2, <1>3 DEF EndpointVetted, EndpointOfLastHop, WholeBody, OwnScope, Fetching,
                    P!Pending, P!Error
<1> QED
  BY <1>4, <1>5, <1>6, <1>7

(* Reading a body changes nothing that was established before.             *)
LEMMA ReadingFetchInv ==
  ASSUME FetchInv, phase \in {"respond", "read"}, phase' = "read",
         response' \in Response, got' \in Nat,
         UNCHANGED <<hopVars, scope, result, now>>
  PROVE  FetchInv'
<1> USE DEF FetchInv, hopVars
<1>1. TypeOK'
  BY DEF TypeOK
<1>2. OwnScope' /\ WebOnly' /\ DialsCounted'
  BY DEF OwnScope, ScopeHeld, WebOnly, DialsCounted, Fetching
<1>3. EndpointVetted' /\ WholeBody'
  BY DEF EndpointVetted, EndpointOfLastHop, LastDial, Vetted, WholeBody, OwnScope,
         Fetching, P!Pending, P!Error
<1> QED
  BY <1>1, <1>2, <1>3

(* A response is followed, refused or read.                                *)
LEMMA RespondFetchInv ==
  ASSUME FetchInv, Respond
  PROVE  FetchInv'
<1>1. phase = "respond" /\ Fetching
  BY DEF Respond, Fetching
<1>2. PICK r \in Web[current] :
        Follow(r) \/ TooMany(r) \/ BadRedirect(r) \/ Reject(r) \/ Accept(r)
  BY DEF Respond
<1>3. r \in Response
  BY <1>1, <1>2, ClientAssumption DEF FetchInv, WebOnly
<1>4. CASE TooMany(r) \/ BadRedirect(r)
  BY <1>1, <1>4, ErrorFetchInv DEF TooMany, BadRedirect, P!FetchError
<1>5. CASE Reject(r)
  <2>1. Rejection(r) \in P!FetchError
    BY <1>5 DEF Reject, Rejection, P!FetchError
  <2> QED
    BY <1>1, <1>5, <2>1, ErrorFetchInv DEF Reject
<1>6. CASE Accept(r)
  BY <1>1, <1>3, <1>6, ReadingFetchInv DEF Accept
<1> QED
  BY <1>1, <1>2, <1>3, <1>4, <1>5, <1>6, FollowFetchInv

(* What is read to the end, within one byte more than the cap, is the      *)
(* whole body or too much.                                                 *)
LEMMA ReadEndFetchInv ==
  ASSUME FetchInv, ReadEnd
  PROVE  FetchInv'
<1> DEFINE body == [kind |-> "ok", final |-> current, endpoint |-> lastEndpoint,
                    length |-> got]
<1>1. phase = "read" /\ Fetching /\ got = Limited
  BY DEF ReadEnd, Fetching
<1>2. CASE got > call.cap
  BY <1>1, <1>2, ErrorFetchInv DEF ReadEnd, P!FetchError
<1>3. CASE ~(got > call.cap)
  <2>1. response.length \in Nat /\ call.cap \in Nat /\ got \in Nat
    BY DEF FetchInv, TypeOK, Response, Call
  <2>2. got = response.length /\ got <= call.cap
    BY <1>1, <1>3, <2>1 DEF Limited
  <2>3. body \in P!Fetched
    BY <1>1, <2>1 DEF FetchInv, TypeOK, WebOnly, P!Fetched, Endpoint, P!Endpoint
  <2> QED
    BY <1>1, <1>3, <2>2, <2>3, ReturnFetchInv DEF ReadEnd
<1> QED
  BY <1>2, <1>3

(* Time changes nothing but the time.                                      *)
LEMMA TickFetchInv ==
  ASSUME FetchInv, Tick
  PROVE  FetchInv'
<1> USE DEF FetchInv, Tick, hopVars
<1>1. TypeOK'
  BY ClientAssumption DEF TypeOK
<1>2. OwnScope' /\ WebOnly' /\ DialsCounted'
  BY DEF OwnScope, ScopeHeld, WebOnly, DialsCounted, Fetching
<1>3. EndpointVetted' /\ WholeBody'
  BY DEF EndpointVetted, EndpointOfLastHop, LastDial, Vetted, WholeBody
<1> QED
  BY <1>1, <1>2, <1>3

(* Every step of the client keeps the invariant.                           *)
LEMMA NextFetchInv == FetchInv /\ [Next]_vars => FetchInv'
<1> SUFFICES ASSUME FetchInv, [Next]_vars PROVE FetchInv'
  OBVIOUS
<1>1. CASE RefuseScheme \/ Denied \/ Unresolved \/ Broken \/ OutOfTime
  BY <1>1, ErrorFetchInv DEF RefuseScheme, Denied, Unresolved, Broken, OutOfTime,
                             Fetching, P!FetchError
<1>2. CASE ReadChunk
  <2>1. got' \in Nat
    BY <1>2 DEF ReadChunk, FetchInv, TypeOK
  <2> QED
    BY <1>2, <2>1, ReadingFetchInv DEF ReadChunk, FetchInv, TypeOK
<1>3. CASE UNCHANGED vars
  BY <1>3 DEF vars, FetchInv, TypeOK, OwnScope, ScopeHeld, WebOnly, DialsCounted,
              Fetching, EndpointVetted, EndpointOfLastHop, LastDial, Vetted, WholeBody
<1> QED
  BY <1>1, <1>2, <1>3, BeginFetchInv, RequestFetchInv, ResolvedFetchInv,
     RespondFetchInv, ReadEndFetchInv, TickFetchInv DEF Next, Resolve

(* The inductive invariant holds in every reachable state of the client.   *)
THEOREM ClientInvariance == Spec => []FetchInv
  BY InitFetchInv, NextFetchInv, PTL DEF Spec

(* The redirect limit bounds the dials of a fetch, whatever the servers    *)
(* answer, and every hop is dialled once.                                  *)
THEOREM HopsAreBounded == Spec => []HopsBounded
<1>1. FetchInv => HopsBounded
  BY DEF FetchInv, DialsCounted, HopsBounded
<1> QED
  BY <1>1, ClientInvariance, PTL

(* What fetch() and the resolver leave each other in the thread-locals is  *)
(* of this fetch, on every path through it and after every way it ends.    *)
THEOREM ThreadLocalsAreTrue == Spec => []ThreadLocalsTrue
<1>1. FetchInv => ThreadLocalsTrue
  BY DEF FetchInv, OwnScope, EndpointVetted, ThreadLocalsTrue
<1> QED
  BY <1>1, ClientInvariance, PTL

(* A body that is returned is whole and within its cap.                    *)
THEOREM BodiesAreWhole == Spec => []WholeBody
<1>1. FetchInv => WholeBody
  BY DEF FetchInv
<1> QED
  BY <1>1, ClientInvariance, PTL

-----------------------------------------------------------------------------
(* A fetch under way that only returns an error accepts nothing.           *)
LEMMA ErrorAcceptsNothing ==
  ASSUME NEW kind \in P!FetchError, Return(P!Error(kind))
  PROVE  phase' = "idle" /\ got' = got /\ result'.kind = kind /\ kind # "ok"
BY DEF Return, P!Error, P!FetchError

(* The deadline of a fetch under way is fixed when it begins.              *)
LEMMA DeadlineFixed ==
  ASSUME FetchInv, Fetching
  PROVE  deadline = began + call.timeout
BY DEF FetchInv, OwnScope

(* No step but a request leaves for the resolver, none but a read takes    *)
(* bytes, and none but the end of the reading returns a body.              *)
LEMMA DeadlineStep ==
  ASSUME FetchInv, [Next]_vars,
         \/ phase = "hop" /\ phase' = "resolve"
         \/ phase = "read" /\ got' > got
         \/ phase = "read" /\ result'.kind = "ok"
  PROVE  now < began + call.timeout
<1> DEFINE Watched == \/ phase = "hop" /\ phase' = "resolve"
                      \/ phase = "read" /\ got' > got
                      \/ phase = "read" /\ result'.kind = "ok"
<1>1. Fetching /\ got \in Nat /\ result.kind # "ok"
  BY DEF Fetching, FetchInv, TypeOK, OwnScope, P!Pending, P!Error
<1>2. CASE Request \/ ReadChunk \/ ReadEnd
  BY <1>1, <1>2, DeadlineFixed DEF Request, ReadChunk, ReadEnd
<1>3. CASE RefuseScheme \/ Denied \/ Unresolved \/ Broken \/ OutOfTime
  <2>1. PICK kind \in P!FetchError : Return(P!Error(kind))
    BY <1>3 DEF RefuseScheme, Denied, Unresolved, Broken, OutOfTime, P!FetchError
  <2>2. ~Watched
    BY <1>1, <2>1, ErrorAcceptsNothing
  <2> QED
    BY <2>2
<1>4. CASE Tick \/ UNCHANGED vars
  <2>1. ~Watched
    BY <1>1, <1>4 DEF Tick, hopVars, vars
  <2> QED
    BY <2>1
<1>5. CASE (\E c \in Calls : Begin(c)) \/ Resolved \/ Respond
  <2>1. ~Watched
    BY <1>1, <1>5 DEF Begin, Resolved, Respond
  <2> QED
    BY <2>1
<1> QED
  BY <1>2, <1>3, <1>4, <1>5 DEF Next, Resolve

(* One deadline spans the whole chain of redirects.                        *)
THEOREM DeadlineIsTotal == Spec => TotalDeadline
<1>1. FetchInv /\ [Next]_vars =>
        [\/ phase = "hop" /\ phase' = "resolve"
         \/ phase = "read" /\ got' > got
         \/ phase = "read" /\ result'.kind = "ok"
           => now < began + call.timeout]_vars
  BY DeadlineStep
<1> QED
  BY <1>1, ClientInvariance, PTL DEF Spec, TotalDeadline

-----------------------------------------------------------------------------
(* A step that neither begins nor ends a fetch is invisible behind the     *)
(* promise.                                                                *)
LEMMA HopsHidden ==
  ASSUME (phase' # "idle") = (phase # "idle"), UNCHANGED <<call, result>>
  PROVE  UNCHANGED P!promiseVars
BY DEF P!promiseVars

(* An error is one the promise allows for this call.                       *)
LEMMA ErrorPromised ==
  ASSUME FetchInv, Fetching, NEW kind \in P!FetchError, Return(P!Error(kind)),
         kind = "ssrf" => call.guarded,
         kind = "scheme" <=> call.url \notin Fetchable
  PROVE  P!FetchNext
<1>1. result' = P!Error(kind) /\ result'.kind = kind /\ phase' = "idle" /\ call' = call
  BY DEF Return, hopVars, P!Error
<1>2. P!Fail(kind)
  BY <1>1 DEF P!Fail, Fetching
<1> QED
  BY <1>1, <1>2 DEF P!FetchNext

(* A call for another scheme fails at once, any other never for its scheme.*)
LEMMA SchemePromised ==
  ASSUME FetchInv, RefuseScheme
  PROVE  P!FetchNext
<1>1. Fetching /\ call.url \notin Fetchable /\ "scheme" \in P!FetchError
  BY DEF RefuseScheme, Fetching, FetchInv, WebOnly, P!FetchError
<1> QED
  BY <1>1, ErrorPromised DEF RefuseScheme

(* Whatever goes wrong after the scheme was accepted is not the scheme.    *)
LEMMA FailurePromised ==
  ASSUME FetchInv, Fetching, current \in Fetchable,
         NEW kind \in P!FetchError \ {"scheme"}, Return(P!Error(kind)),
         kind = "ssrf" => scope.guarded
  PROVE  P!FetchNext
<1>1. call.url \in Fetchable /\ scope.guarded = call.guarded
  BY DEF FetchInv, OwnScope, WebOnly
<1> QED
  BY <1>1, ErrorPromised

(* A response that is not read on is followed, unseen, or refused.         *)
LEMMA RespondPromised ==
  ASSUME FetchInv, Respond
  PROVE  P!FetchNext \/ UNCHANGED P!promiseVars
<1>1. phase = "respond" /\ Fetching /\ current \in Fetchable
  BY DEF Respond, Fetching, FetchInv, WebOnly
<1>2. PICK r \in Web[current] :
        Follow(r) \/ TooMany(r) \/ BadRedirect(r) \/ Reject(r) \/ Accept(r)
  BY DEF Respond
<1>3. CASE Follow(r) \/ Accept(r)
  BY <1>1, <1>3, HopsHidden DEF Follow, Accept, hopVars
<1>4. CASE TooMany(r) \/ BadRedirect(r)
  BY <1>1, <1>4, FailurePromised DEF TooMany, BadRedirect, P!FetchError
<1>5. CASE Reject(r)
  <2>1. Rejection(r) \in P!FetchError \ {"scheme", "ssrf"}
    BY <1>5 DEF Reject, Rejection, P!FetchError
  <2> QED
    BY <1>1, <1>5, <2>1, FailurePromised DEF Reject
<1> QED
  BY <1>2, <1>3, <1>4, <1>5

(* The body the client returns is the one the promise owes: from an        *)
(* endpoint permitted in the scope of the call, and within its cap.        *)
LEMMA ReadEndPromised ==
  ASSUME FetchInv, ReadEnd
  PROVE  P!FetchNext
<1> DEFINE body == [kind |-> "ok", final |-> current, endpoint |-> lastEndpoint,
                    length |-> got]
<1>1. phase = "read" /\ Fetching /\ current \in Fetchable
  BY DEF ReadEnd, Fetching, FetchInv, WebOnly
<1>2. CASE got > call.cap
  BY <1>1, <1>2, FailurePromised DEF ReadEnd, P!FetchError
<1>3. CASE ~(got > call.cap)
  <2>1. Return(body)
    BY <1>3 DEF ReadEnd
  <2>2. call.cap \in Nat /\ got \in Nat /\ call.url \in Fetchable
    BY <1>1 DEF FetchInv, TypeOK, WebOnly, Call
  <2>3. body \in P!Fetched
    BY <1>1, <2>2 DEF FetchInv, TypeOK, P!Fetched, Endpoint, P!Endpoint
  <2>4. lastEndpoint \in SocketAddrs /\ Vetted(lastEndpoint, current)
    BY <1>1 DEF FetchInv, EndpointVetted
  <2>5. P!Delivers(call, body)
    BY <1>3, <2>2, <2>3, <2>4 DEF P!Delivers, Vetted
  <2>6. P!Deliver(body) /\ result' = body
    BY <1>1, <2>1, <2>5 DEF P!Deliver, Return, hopVars, Fetching
  <2> QED
    BY <2>6 DEF P!FetchNext
<1> QED
  BY <1>2, <1>3

(* Every step of the client is a step of the promise, or invisible there.  *)
LEMMA FetchStep == FetchInv /\ [Next]_vars => [P!FetchNext]_P!promiseVars
<1> SUFFICES ASSUME FetchInv, [Next]_vars
             PROVE  P!FetchNext \/ UNCHANGED P!promiseVars
  OBVIOUS
<1>1. CASE Request \/ Resolved \/ ReadChunk \/ Tick \/ UNCHANGED vars
  BY <1>1, HopsHidden DEF Request, Resolved, ReadChunk, Tick, hopVars, vars
<1>2. ASSUME NEW c \in Calls, Begin(c) PROVE P!FetchNext
  BY <1>2, ClientAssumption DEF Begin, P!FetchNext, P!Begin, Call, P!Call,
                                Endpoint, P!Endpoint
<1>3. CASE Denied \/ Unresolved \/ Broken \/ OutOfTime
  <2>1. Fetching /\ current \in Fetchable
    BY <1>3 DEF Denied, Unresolved, Broken, OutOfTime, Fetching, FetchInv, WebOnly
  <2>2. PICK kind \in P!FetchError \ {"scheme"} :
          /\ Return(P!Error(kind))
          /\ kind = "ssrf" => scope.guarded
    BY <1>3 DEF Denied, Unresolved, Broken, OutOfTime, P!FetchError
  <2> QED
    BY <2>1, <2>2, FailurePromised
<1> QED
  BY <1>1, <1>2, <1>3, SchemePromised, RespondPromised, ReadEndPromised
     DEF Next, Resolve

(* The client, with its hops, deadlines and thread-locals, implements the  *)
(* promise the sub-resource loop is built on.                              *)
THEOREM ClientKeepsPromise == Spec => KeepsPromise
<1>1. Init => P!FetchInit
  BY ClientAssumption DEF Init, P!FetchInit, Call, P!Call, Endpoint, P!Endpoint
<1> QED
  BY <1>1, FetchStep, ClientInvariance, PTL DEF Spec, KeepsPromise, P!FetchSpec
=============================================================================
