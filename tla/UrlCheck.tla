------------------------------ MODULE UrlCheck ------------------------------
(***************************************************************************)
(* The URL checker (urlcheck/mod.rs) and the memo of verdicts its workers  *)
(* share (urlcheck/cache.rs).  A hit holds the read lock while it takes a  *)
(* tick and stores it, so several hits may overlap; an insertion holds the *)
(* write lock.  A worker that misses classifies with no lock held.         *)
(***************************************************************************)
EXTENDS Addresses, HostLists, FiniteSets, FiniteSetsExt

CONSTANTS
  Checkers,      \* the worker threads
  Raws,          \* attribute values: their text, and what Url::parse makes of it
  BlockFiles,    \* url_rules.blocklists
  Protected,     \* url_rules.protected_domains
  DenyExtra,     \* ssrf.deny_extra
  MemoSize,      \* max_entries
  MemoSample,    \* evict_sample_rate
  MaxChecks      \* bound: checks started

NoHost == [kind |-> "none"]
NoUrl == [form |-> "none"]
NoRaw == [text |-> "none"]

ASSUME UrlAssumption ==
  /\ MemoSize \in Nat \ {0}
  /\ MemoSample \in Nat \ {0}
  /\ MaxChecks \in Nat
  /\ BlockSetLoads(BlockFiles)
  /\ DenyTableOk(DenyExtra)
  /\ DenyExtra \in Seq(ToSet(DenyExtra))
  /\ \A i \in DOMAIN DenyExtra : IsAddress(DenyExtra[i].ip) /\ DenyExtra[i].prefix \in Int

(* What Url::parse may make of a value; a reference without an authority   *)
(* has no host.                                                            *)
ASSUME RawsAssumption ==
  \A r \in Raws :
    /\ r.url \in [control : BOOLEAN, form : {"absolute", "relative", "invalid"},
                  host : {r.url.host}, user : BOOLEAN, password : BOOLEAN, exact : BOOLEAN]
    /\ r.url.host.kind = "ip" => IsAddress(r.url.host.ip)

VARIABLES
  memo,      \* raw -> its verdict and last_used, for the raws in the table
  tick,      \* clock
  served,    \* hits
  missed,    \* misses
  checking,  \* worker -> where check() stands
  raw,       \* worker -> the value it checks
  stamp,     \* worker -> the tick it took for a hit
  verdict    \* worker -> what check() returned, or is about to record

memoVars == <<memo, tick, served, missed, checking, raw, stamp, verdict>>

Label == {"clean", "idn", "blocked", "homograph", "malformed", "userinfo", "internal"}

Plain(label) == [label |-> label, canonical |-> NoUrl]

Rewritten(label, url) == [label |-> label, canonical |-> url]

(* serialise(): the text of a parsed URL spells its authority as parsed.   *)
Serialised(url) == [url EXCEPT !.exact = TRUE]

(* A bug in which the password is left in place.                           *)
StripUserOnly(url) == [url EXCEPT !.user = FALSE]

Strip(url) == [url EXCEPT !.user = FALSE, !.password = FALSE]

(* What the engine compiles from the policy, once.                         *)
Networks == DenyTable(DenyExtra)
Blocklist == BlockSet(BlockFiles)

InternalRule(host) ==
  IF host.kind = "ip" THEN ForbiddenBy(Networks, host.ip) ELSE NoRule

(* classify(): the questions in their order; the first that applies        *)
(* answers.  A reference without a host has none to be judged.             *)
Classify(url) ==
  IF url.control \/ url.form = "invalid" THEN Plain("malformed")
  ELSE IF url.form = "relative" \/ url.host = NoHost THEN Plain("clean")
  ELSE IF url.host.kind = "domain" /\ Blocked(Blocklist, url.host.labels)
       THEN Plain("blocked")
  ELSE IF url.host.kind = "domain" /\ Confusable(Protected, Seen(url.host.labels))
       THEN Plain("homograph")
  ELSE IF InternalRule(url.host) # NoRule THEN Plain("internal")
  ELSE IF url.user \/ url.password THEN Rewritten("userinfo", Serialised(Strip(url)))
  ELSE LET label == IF url.host.kind = "domain" /\ IsIdn(url.host.labels)
                    THEN "idn" ELSE "clean"
       IN  IF url.exact THEN Plain(label) ELSE Rewritten(label, Serialised(url))

MemoInit ==
  /\ memo = <<>>
  /\ tick = 0
  /\ served = 0
  /\ missed = 0
  /\ checking = [w \in Checkers |-> "idle"]
  /\ raw = [w \in Checkers |-> NoRaw]
  /\ stamp = [w \in Checkers |-> 0]
  /\ verdict = [w \in Checkers |-> Plain("clean")]

-----------------------------------------------------------------------------
(* check() with the verdict in the table: the read lock is taken, and      *)
(* the tick with it.                                                       *)
MemoHit(w, r) ==
  /\ checking[w] = "idle"
  /\ served + missed + Cardinality({v \in Checkers : checking[v] = "hit"}) < MaxChecks
  /\ r \in DOMAIN memo
  /\ raw' = [raw EXCEPT ![w] = r]
  /\ stamp' = [stamp EXCEPT ![w] = tick]
  /\ tick' = tick + 1
  /\ checking' = [checking EXCEPT ![w] = "hit"]
  /\ UNCHANGED <<memo, served, missed, verdict>>

(* The tick is stored and the lock released.                               *)
MemoTouch(w) ==
  /\ checking[w] = "hit"
  /\ memo' = [memo EXCEPT ![raw[w]].lastUsed = stamp[w]]
  /\ served' = served + 1
  /\ verdict' = [verdict EXCEPT ![w] = memo[raw[w]].verdict]
  /\ checking' = [checking EXCEPT ![w] = "idle"]
  /\ UNCHANGED <<tick, missed, raw, stamp>>

(* check() with no verdict in the table: the read lock is released, and    *)
(* the value is classified.                                                *)
MemoMiss(w, r) ==
  /\ checking[w] = "idle"
  /\ served + missed + Cardinality({v \in Checkers : checking[v] = "hit"}) < MaxChecks
  /\ r \in Raws \ DOMAIN memo
  /\ raw' = [raw EXCEPT ![w] = r]
  /\ missed' = missed + 1
  /\ verdict' = [verdict EXCEPT ![w] = Classify(r.url)]
  /\ checking' = [checking EXCEPT ![w] = "record"]
  /\ UNCHANGED <<memo, tick, served, stamp>>

Samples ==
  kSubset(IF Cardinality(DOMAIN memo) < MemoSample THEN Cardinality(DOMAIN memo)
                                                   ELSE MemoSample, DOMAIN memo)

(* evict_one(): the least recently used of a random sample.                *)
MemoEvictable ==
  {v \in DOMAIN memo : \E s \in Samples :
     v \in s /\ \A x \in s : memo[v].lastUsed <= memo[x].lastUsed}

(* What stays in the table when r comes in.                                *)
Kept(r) ==
  IF Cardinality(DOMAIN memo) >= MemoSize /\ r \notin DOMAIN memo
  THEN {DOMAIN memo \ {v} : v \in MemoEvictable}
  ELSE {DOMAIN memo}

(* r enters the table with the verdict w has in hand.                      *)
Enter(w, r) ==
  /\ \E kept \in Kept(r) :
       memo' = [q \in kept \cup {r} |->
                  IF q = r THEN [verdict |-> verdict[w], lastUsed |-> tick] ELSE memo[q]]
  /\ checking' = [checking EXCEPT ![w] = "idle"]
  /\ UNCHANGED <<served, missed, raw, stamp, verdict>>

WriteLock == \A v \in Checkers : checking[v] # "hit"

(* A bug in which the table is keyed by what the value stands for.         *)
RecordByHost(w) ==
  /\ checking[w] = "record"
  /\ WriteLock
  /\ Enter(w, CHOOSE r \in Raws : r.url.host = raw[w].url.host)
  /\ tick' = tick + 1

(* A bug in which an insertion does not take a tick of its own.            *)
RecordWithoutTick(w) ==
  /\ checking[w] = "record"
  /\ WriteLock
  /\ Enter(w, raw[w])
  /\ UNCHANGED tick

(* insert(): nobody reads while the write lock is held.                    *)
Record(w) ==
  /\ checking[w] = "record"
  /\ WriteLock
  /\ Enter(w, raw[w])
  /\ tick' = tick + 1

MemoNext ==
  \E w \in Checkers :
    \/ \E r \in Raws : MemoHit(w, r) \/ MemoMiss(w, r)
    \/ MemoTouch(w)
    \/ Record(w)

MemoSpec == MemoInit /\ [][MemoNext]_memoVars

-----------------------------------------------------------------------------
(* A hit holds on to an entry that is there.                               *)
MemoTypeOK ==
  /\ DOMAIN memo \subseteq Raws
  /\ \A r \in DOMAIN memo :
       memo[r].verdict.label \in Label /\ memo[r].lastUsed \in 0 .. tick
  /\ {tick, served, missed} \subseteq Nat
  /\ checking \in [Checkers -> {"idle", "hit", "record"}]
  /\ raw \in [Checkers -> Raws \cup {NoRaw}]
  /\ stamp \in [Checkers -> 0 .. tick]
  /\ \A w \in Checkers : verdict[w].label \in Label
  /\ \A w \in Checkers : checking[w] = "hit" => raw[w] \in DOMAIN memo

Judged == {w \in Checkers : raw[w] # NoRaw /\ checking[w] # "hit"}

(* Whether it was cached, recorded by another worker or evicted meanwhile, *)
(* the verdict a check returns is the one its own text deserves.           *)
MemoTransparent ==
  /\ \A w \in Judged : verdict[w] = Classify(raw[w].url)
  /\ \A r \in DOMAIN memo : memo[r].verdict = Classify(r.url)

(* The table stays within its bound, and no two entries were last used at  *)
(* one tick, so the victim of an eviction is never a matter of hash order. *)
RecencyExact ==
  /\ MemoTypeOK
  /\ Cardinality(DOMAIN memo) <= MemoSize
  /\ \A r, q \in DOMAIN memo : memo[r].lastUsed = memo[q].lastUsed => r = q

(* What the checker has a document say instead of its own text is settled: *)
(* it is judged harmless as it stands, and names the host that was judged. *)
EmissionSettled ==
  \A w \in Judged :
    verdict[w].canonical # NoUrl =>
      /\ Classify(verdict[w].canonical) \in {Plain("clean"), Plain("idn")}
      /\ verdict[w].canonical.host = raw[w].url.host

AgreesOnMasks(r) ==
  r.url.form = "absolute" /\ r.url.host.kind = "ip" =>
    \A i \in DOMAIN Networks, p \in 0 .. Width(r.url.host.ip.family) :
      LET net == [Networks[i].cidr EXCEPT !.prefix = p] IN
      net.family = r.url.host.ip.family
        => (Covers(net, r.url.host.ip) <=> Between(net, r.url.host.ip))

Agreeing == {r \in Raws : AgreesOnMasks(r)}

(* Masking an address answers the question whether it lies between the     *)
(* first and the last of a network, from the empty prefix to the full one. *)
MasksExact == \A w \in Judged : raw[w] \in Agreeing
=============================================================================
