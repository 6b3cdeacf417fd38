--------------------------- MODULE SubresourceLoop ---------------------------
(***************************************************************************)
(* The sub-resource loop of one parent document (engine/subresource.rs):   *)
(* it turns the references the HTML pass collected into requests, holds    *)
(* them to budgets they share (requests, bytes, the parent's time), routes *)
(* each body through the sanitiser and decides what the parent's reference *)
(* should point at.  A fetch is what FetchPromise says it is, and takes    *)
(* time.                                                                   *)
(***************************************************************************)
EXTENDS FetchPromise, Sequences, FiniteSetsExt

CONSTANTS
  Raws,              \* reference strings as written in the document
  Absolute,          \* raw -> the URL it resolves to, or NoUrl
  NoUrl,
  RefusedUrls,       \* URLs the checker blocks before any request
  Documents,         \* sequences of references a document can hold
  ParentEndpoint,    \* the endpoint of the parent document
  Policies,          \* the SubresourcesRules a document can be processed under
  MaxRequests, MaxTotalBytes,
  MaxResponseBytes, TotalTimeout, RedirectLimit,         \* FetchPolicy
  MaxInputBytes, MaxTime,              \* Budgets
  MaxNow             \* bound: units of time that pass

(* defang_refused says that action_refused is not Allow.                   *)
SubresourcesRules ==
  [fetch_subresources : BOOLEAN, max_depth : Nat, rewrite_refs : BOOLEAN,
   defang_refused : BOOLEAN]

ASSUME LoopAssumption ==
  /\ Urls # {}
  /\ NoUrl \notin Urls
  /\ Absolute \in [Raws -> Urls \cup {NoUrl}]
  /\ RefusedUrls \subseteq Fetchable
  /\ Documents \subseteq Seq(Raws)
  /\ ParentEndpoint \in Endpoint
  /\ Policies \subseteq SubresourcesRules
  /\ {MaxRequests, MaxTotalBytes, MaxResponseBytes, TotalTimeout,
      RedirectLimit, MaxInputBytes, MaxTime, MaxNow} \subseteq Nat

VARIABLES
  rules,        \* the policy, which nothing changes
  references,   \* what the document holds
  next,         \* the reference to look at next
  seen,         \* URLs dealt with
  requests,     \* Spent::requests
  bytes,        \* Spent::bytes
  reports,      \* one per reference acted on
  assets,       \* bodies to be written next to the parent
  rewrites,     \* raw -> what it will point at
  actions,      \* references reported as defanged
  now,          \* what Instant::now reads, 0 when the parent was taken up
  started,      \* history: the calls made, with the time each started
  sources       \* history: where delivered bodies came from

vars == <<busy, call, result, rules, references, next, seen, requests, bytes, reports,
          assets, rewrites, actions, now, started, sources>>

InputStatus == {"Clean", "Sanitised", "Refused", "BudgetExceeded", "SsrfBlocked",
                "UnsupportedScheme", "FetchError"}

SubresourceReport == [url : Fetchable, status : InputStatus, bytes : Nat]

Asset == [url : Fetchable, slot : Nat]      \* <asset_dir>/asset-<slot>

Target == [kind : {"kept", "placeholder", "asset"}, slot : Nat]
Kept == [kind |-> "kept", slot |-> 0]
Placeholder == [kind |-> "placeholder", slot |-> 0]

TypeOK ==
  /\ busy \in BOOLEAN
  /\ call \in Call
  /\ result \in Fetched \cup [kind : FetchError \cup {"none"}]
  /\ rules \in Policies
  /\ references \in Documents
  /\ next \in 1 .. Len(references) + 1
  /\ seen \subseteq Fetchable
  /\ requests \in Nat
  /\ bytes \in Nat
  /\ reports \in Seq(SubresourceReport)
  /\ assets \in Seq(Asset)
  /\ rewrites \in [Raws -> Target]
  /\ actions \in Seq(Raws)
  /\ now \in Nat
  /\ started \in Seq([call : Call, at : Nat])
  /\ sources \subseteq [final : Fetchable, endpoint : SocketAddrs]

NoCall == [url |-> CHOOSE u \in Urls : TRUE, cap |-> 0, timeout |-> 0,
           limit |-> 0, guarded |-> TRUE, parent |-> NoEndpoint]

(* The loop starts once the parent is sanitised, which took until now.     *)
Init ==
  /\ busy = FALSE
  /\ call = NoCall
  /\ result = Pending
  /\ rules \in Policies
  /\ references \in Documents
  /\ next = 1
  /\ seen = {}
  /\ requests = 0
  /\ bytes = 0
  /\ reports = <<>>
  /\ assets = <<>>
  /\ rewrites = [r \in Raws |-> Kept]
  /\ actions = <<>>
  /\ now \in 0..MaxNow
  /\ started = <<>>
  /\ sources = {}

-----------------------------------------------------------------------------
Enabled == rules.fetch_subresources /\ rules.max_depth # 0

(* The loop looks at a reference when it is done with the one before.      *)
Looking == Enabled /\ ~busy /\ next <= Len(references)

Finished == ~busy /\ (Enabled => next > Len(references))

Raw == references[next]
Url == Absolute[Raw]

Smaller(m, n) == IF m < n THEN m ELSE n

(* A bug in which references are told apart by how they are written.       *)
FreshSpelling ==
  Url \in Fetchable /\ \A n \in 1 .. next - 1 : references[n] # Raw

(* An absolute web URL that no earlier reference named.                    *)
Fresh == Url \in Fetchable \ seen

Skip ==
  /\ Looking
  /\ ~Fresh
  /\ next' = next + 1
  /\ UNCHANGED <<busy, call, result, rules, references, seen, requests, bytes, reports,
                 assets, rewrites, actions, now, started, sources>>

(* A bug in which assets are counted where reports number them.            *)
TargetByAssets(status, kept) ==
  IF ~rules.rewrite_refs THEN Kept
  ELSE IF kept THEN [kind |-> "asset", slot |-> Len(assets)]
  ELSE IF status \in {"Refused", "BudgetExceeded", "SsrfBlocked"} /\ rules.defang_refused
       THEN Placeholder
  ELSE Kept

(* rewrite_target(): what the reference should point at after the report.  *)
TargetFor(status, kept) ==
  IF ~rules.rewrite_refs THEN Kept
  ELSE IF kept THEN [kind |-> "asset", slot |-> Len(reports)]
  ELSE IF status \in {"Refused", "BudgetExceeded", "SsrfBlocked"} /\ rules.defang_refused
       THEN Placeholder
  ELSE Kept

Record(status, length, kept) ==
  LET to == TargetFor(status, kept) IN
  /\ reports' = Append(reports, [url |-> Url, status |-> status, bytes |-> length])
  /\ assets' = IF kept THEN Append(assets, [url |-> Url, slot |-> Len(reports)])
                       ELSE assets
  /\ rewrites' = IF to = Kept THEN rewrites ELSE [rewrites EXCEPT ![Raw] = to]
  /\ actions' = IF to = Placeholder THEN Append(actions, Raw) ELSE actions
  /\ next' = next + 1
  /\ UNCHANGED <<rules, references>>

(* A bug in which one request too many is let through.                     *)
RefusalLate ==
  IF Url \in RefusedUrls THEN "Refused"
  ELSE IF requests > MaxRequests \/ bytes >= MaxTotalBytes \/ now >= MaxTime
       THEN "BudgetExceeded"
  ELSE "none"

(* The refusals that need no request, in the order they are looked for.    *)
Refusal ==
  IF Url \in RefusedUrls THEN "Refused"
  ELSE IF requests >= MaxRequests \/ bytes >= MaxTotalBytes \/ now >= MaxTime
       THEN "BudgetExceeded"
  ELSE "none"

(* A bug in which a reference over budget is passed over without a report. *)
TurnAwaySilently ==
  /\ Looking
  /\ Fresh
  /\ Refusal # "none"
  /\ seen' = seen \cup {Url}
  /\ next' = next + 1
  /\ UNCHANGED <<busy, call, result, rules, references, requests, bytes, reports,
                 assets, rewrites, actions, now, started, sources>>

TurnAway ==
  /\ Looking
  /\ Fresh
  /\ Refusal # "none"
  /\ seen' = seen \cup {Url}
  /\ Record(Refusal, 0, FALSE)
  /\ UNCHANGED <<busy, call, result, requests, bytes, now, started, sources>>

(* A bug in which a sub-resource is fetched in the context of an input.    *)
FetchPolicyOfInput ==
  [url |-> Url, cap |-> Smaller(MaxResponseBytes, MaxTotalBytes - bytes),
   timeout |-> Smaller(TotalTimeout, MaxTime - now),
   limit |-> RedirectLimit, guarded |-> FALSE, parent |-> NoEndpoint]

(* fetch_policy(): never more than what is left of the joint budgets.      *)
FetchPolicy ==
  [url |-> Url,
   cap |-> Smaller(MaxResponseBytes, MaxTotalBytes - bytes),
   timeout |-> Smaller(TotalTimeout, MaxTime - now),
   limit |-> RedirectLimit,
   guarded |-> TRUE,
   parent |-> ParentEndpoint]

Request ==
  /\ Looking
  /\ Fresh
  /\ Refusal = "none"
  /\ seen' = seen \cup {Url}
  /\ requests' = requests + 1
  /\ Begin(FetchPolicy)
  /\ started' = Append(started, [call |-> FetchPolicy, at |-> now])
  /\ UNCHANGED <<rules, references, next, bytes, reports, assets, rewrites, actions,
                 now, sources>>

-----------------------------------------------------------------------------
FetchFailed(kind) ==
  /\ Fail(kind)
  /\ Record(CASE kind = "ssrf"     -> "SsrfBlocked"
              [] kind = "toolarge" -> "BudgetExceeded"
              [] kind = "scheme"   -> "UnsupportedScheme"
              [] OTHER             -> "FetchError", 0, FALSE)
  /\ UNCHANGED <<seen, requests, bytes, now, started, sources>>

(* What sniffing, the configured set of types and route() can make of a    *)
(* body; one that is over max_input_bytes is not even sniffed.             *)
Judgements(length) ==
  IF length > MaxInputBytes THEN {"BudgetExceeded"}
                            ELSE {"Refused", "Clean", "Sanitised"}

Bodies ==
  [kind : {"ok"}, final : Fetchable, endpoint : SocketAddrs, length : 0..call.cap]

(* A body over which route() panics ends the document with the loop        *)
(* (Pipeline!Unwind): here the loop stops.                                 *)
Settle(body, status) ==
  /\ Deliver(body)
  /\ bytes' = bytes + body.length
  /\ status \in Judgements(body.length)
  /\ Record(status, body.length, status \in {"Clean", "Sanitised"})
  /\ sources' = sources \cup {[final |-> body.final, endpoint |-> body.endpoint]}
  /\ UNCHANGED <<seen, requests, now, started>>

Tick ==
  /\ now < MaxNow
  /\ now' = now + 1
  /\ UNCHANGED <<busy, call, result, rules, references, next, seen, requests, bytes,
                 reports, assets, rewrites, actions, started, sources>>

Next ==
  \/ Skip
  \/ TurnAway
  \/ Request
  \/ \E kind \in FetchError : FetchFailed(kind)
  \/ \E body \in Bodies, status \in InputStatus : Settle(body, status)
  \/ Tick

Spec == Init /\ [][Next]_vars

-----------------------------------------------------------------------------
(* The budgets are joint: however the references and their failures mix,   *)
(* the document costs at most MaxRequests requests and MaxTotalBytes bytes *)
(* of delivered bodies.                                                    *)
JointBudget ==
  /\ Len(started) <= MaxRequests
  /\ MapThenSumSet(LAMBDA i : reports[i].bytes, DOMAIN reports) <= MaxTotalBytes

(* No request is allowed to outlive the parent's time budget.              *)
WithinParentTime ==
  \A i \in DOMAIN started : started[i].at + started[i].call.timeout <= MaxTime

(* A document's requests, bytes and time together stay within what its     *)
(* policy grants, whichever of its references use them up.                 *)
WithinBudgets == JointBudget /\ WithinParentTime

(* One URL costs one request, however often and however it is spelt.       *)
OncePerUrl ==
  \A i, j \in DOMAIN started :
    started[i].call.url = started[j].call.url => i = j

(* A document reaches an internal endpoint through its references only if  *)
(* that is where the document itself came from.                            *)
InternalOnlyOwn ==
  /\ TypeOK
  /\ \A s \in sources :
       s.endpoint \in Forbidden
         => \/ s.final \in AllowListed
            \/ SameOriginExemption /\ s.endpoint = ParentEndpoint

Reported(url, statuses) ==
  \E i \in DOMAIN reports : reports[i].url = url /\ reports[i].status \in statuses

(* A reference that was rewritten points at the sanitised copy of its own  *)
(* URL, in a file of its own, or at the placeholder because its URL was    *)
(* refused; and if rewriting is on, every copy is pointed at.              *)
RewritesTrue ==
  /\ \A r \in Raws :
       /\ rewrites[r].kind = "asset" =>
            \E a \in DOMAIN assets :
              /\ assets[a] = [url |-> Absolute[r], slot |-> rewrites[r].slot]
              /\ \A b \in DOMAIN assets : assets[b].slot = rewrites[r].slot => a = b
              /\ Reported(Absolute[r], {"Clean", "Sanitised"})
       /\ rewrites[r].kind = "placeholder" =>
            Reported(Absolute[r], {"Refused", "BudgetExceeded", "SsrfBlocked"})
  /\ \A a \in DOMAIN assets :
       rules.rewrite_refs =>
         \E r \in Raws : rewrites[r] = [kind |-> "asset", slot |-> assets[a].slot]

(* Every URL the document refers to is accounted for exactly once, in      *)
(* document order, whatever became of the ones before it.                  *)
AccountedFor ==
  Finished /\ Enabled =>
    LET first == {n \in DOMAIN references :
                    /\ Absolute[references[n]] \in Fetchable
                    /\ \A m \in 1 .. n - 1 :
                         Absolute[references[m]] # Absolute[references[n]]}
    IN  /\ Len(reports) = Cardinality(first)
        /\ \A n \in first :
             reports[Cardinality({m \in first : m <= n})].url = Absolute[references[n]]

-----------------------------------------------------------------------------
(* policy/mod.rs:280 says of rewrite_refs "Point the sanitised parent at   *)
(* the local sanitised copies": of one URL, every reference.               *)
EveryReferenceLocal ==
  Finished /\ rules.rewrite_refs =>
    \A n \in DOMAIN references, a \in DOMAIN assets :
      Absolute[references[n]] = assets[a].url
        => rewrites[references[n]].kind = "asset"
=============================================================================
