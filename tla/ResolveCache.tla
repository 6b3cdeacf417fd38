---------------------------- MODULE ResolveCache ----------------------------
(***************************************************************************)
(* The table of resolution verdicts that every worker thread shares        *)
(* (fetch/guard/cache.rs).  It holds at most MaxEntries verdicts, one per  *)
(* host:port.  A positive verdict is usable for AllowTtl units of time; a  *)
(* negative one is usable as long as it is resident.  Insertion into a     *)
(* full table first evicts the least recently used of a random sample.     *)
(*                                                                         *)
(* This module has no Next of its own: Get and Insert are the critical     *)
(* sections the guard's threads execute, each under the table's lock.      *)
(***************************************************************************)
EXTENDS Naturals, Sequences, FiniteSets

CONSTANTS
  Keys,          \* the host:port pairs that can be asked for
  SocketAddrs,   \* the endpoints a name can resolve to
  MaxEntries,    \* max_entries
  EvictSample,   \* evict_sample_rate
  AllowTtl       \* allow_ttl, in units of now

ASSUME CacheAssumption ==
  /\ MaxEntries \in Nat \ {0}
  /\ EvictSample \in Nat \ {0}
  /\ AllowTtl \in Nat

VARIABLES
  table,   \* Keys -> Entry, absent where the hash map holds nothing
  clock,   \* the tick counter behind last_used
  hits,    \* lookups served from the table
  misses,  \* lookups the guard had to resolve
  now      \* what Instant::now reads

cacheVars == <<table, clock, hits, misses, now>>

Entry ==
  [kind : {"absent", "allowed", "denied"},
   addrs : Seq(SocketAddrs), decidedAt : Nat, lastUsed : Nat]

Absent == [kind |-> "absent", addrs |-> <<>>, decidedAt |-> 0, lastUsed |-> 0]

CacheTypeOK ==
  /\ table \in [Keys -> Entry]
  /\ clock \in Nat
  /\ hits \in Nat
  /\ misses \in Nat
  /\ now \in Nat

CacheInit ==
  /\ table = [k \in Keys |-> Absent]
  /\ clock = 0
  /\ hits = 0
  /\ misses = 0
  /\ now = 0

-----------------------------------------------------------------------------
Resident == {k \in Keys : table[k].kind # "absent"}

Usable(k) ==
  \/ table[k].kind = "denied"
  \/ table[k].kind = "allowed" /\ now - table[k].decidedAt < AllowTtl

(* A bug in which a hit renews the verdict instead of its recency only.  *)
RenewingTouch(k) ==
  table' = [table EXCEPT ![k].lastUsed = clock, ![k].decidedAt = now]

Touch(k) == table' = [table EXCEPT ![k].lastUsed = clock]

(* The table's half of get(): one critical section under the read lock. *)
Hit(k) ==
  /\ Usable(k)
  /\ Touch(k)
  /\ clock' = clock + 1
  /\ hits' = hits + 1
  /\ UNCHANGED <<misses, now>>

(* A bug in which an expired verdict is neither served nor resolved anew.  *)
MissWhenAbsent(k) ==
  /\ table[k].kind = "absent"
  /\ misses' = misses + 1
  /\ UNCHANGED <<table, clock, hits, now>>

Miss(k) ==
  /\ ~Usable(k)
  /\ misses' = misses + 1
  /\ UNCHANGED <<table, clock, hits, now>>

-----------------------------------------------------------------------------
SampleSize ==
  IF Cardinality(Resident) < EvictSample THEN Cardinality(Resident)
                                         ELSE EvictSample

(* v is the least recently used key of some sample of SampleSize keys.     *)
Evictable(v) ==
  /\ v \in Resident
  /\ Cardinality({x \in Resident \ {v} : table[x].lastUsed >= table[v].lastUsed})
       >= SampleSize - 1

(* A bug in which the table is allowed to overshoot its bound by one.      *)
LateVictims(k) ==
  IF Cardinality(Resident) > MaxEntries /\ k \notin Resident
  THEN {{v} : v \in {x \in Keys : Evictable(x)}}
  ELSE {{}}

(* What evict_one may remove to make room for k: one key, or none.         *)
Victims(k) ==
  IF Cardinality(Resident) >= MaxEntries /\ k \notin Resident
  THEN {{v} : v \in {x \in Keys : Evictable(x)}}
  ELSE {{}}

Store(k, kind, addrs) ==
  /\ \E gone \in Victims(k) :
       table' = [x \in Keys |->
                   IF x = k THEN [kind |-> kind, addrs |-> addrs,
                                  decidedAt |-> now, lastUsed |-> clock]
                   ELSE IF x \in gone THEN Absent
                   ELSE table[x]]
  /\ clock' = clock + 1
  /\ UNCHANGED <<hits, misses, now>>

(* A bug in which the last writer wins even over a refusal.                *)
InsertAnyway(k, kind, addrs) == Store(k, kind, addrs)

(* insert(): one critical section under the write lock.  A refusal that is *)
(* already resident is never overwritten.                                  *)
Insert(k, kind, addrs) ==
  \/ table[k].kind = "denied" /\ UNCHANGED cacheVars
  \/ table[k].kind # "denied" /\ Store(k, kind, addrs)
=============================================================================
