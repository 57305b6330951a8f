----------------------------- MODULE QuickForecasts -----------------------------
(***************************************************************************)
(* POST /forecast and GET /trends of futuris/api/app.py behind the TTL and *)
(* LRU cache of infra/cache.py.  Requests of one key that miss together    *)
(* all compute; each commits its forecast before it caches the answer.     *)
(***************************************************************************)
EXTENDS Naturals, Sequences, FiniteSets, SequencesExt, FiniteSetsExt

CONSTANTS
  Requests,     (* 1 .. n, numbered as they arrive                         *)
  CacheKeys,    (* target and horizon, or a limit                          *)
  TrendKeys,    (* the keys of GET /trends                                 *)
  MaxSize,      (* max_size                                                *)
  Ttl,          (* default_ttl_seconds, in ticks                           *)
  MaxTicks,     (* bound of the instance                                   *)
  NoKey

ASSUME CacheAssumption ==
  /\ {MaxSize, Ttl, MaxTicks} \cup Requests \subseteq Nat /\ MaxSize > 0
  /\ TrendKeys \subseteq CacheKeys /\ NoKey \notin CacheKeys

VARIABLES
  tick,
  cache,        (* entries in LRU order: key, forecasts, time of expiry    *)
  ask,          (* per request: phase, key, forecasts it is told           *)
  stored,       (* requests whose forecast is committed                    *)
  used          (* per key: its last use (0: none), the expiry of its set  *)

cacheVars == <<tick, cache, ask, stored, used>>

CacheInit ==
  /\ tick = 1 /\ cache = <<>> /\ stored = {}
  /\ ask = [r \in Requests |-> [phase |-> "off", key |-> NoKey, tells |-> {}]]
  /\ used = [k \in CacheKeys |-> [last |-> 0, expires |-> 0]]

Cached(k) == {e \in ToSet(cache) : e.key = k}
Without(k) ==
  IF Cached(k) = {} THEN cache ELSE RemoveAt(cache, CHOOSE i \in DOMAIN cache : cache[i].key = k)
Expired(e) == tick > e.expires
Touch(k) == used' = [used EXCEPT ![k].last = tick]
TouchNew(k) == used' = [used EXCEPT ![k] = [last |-> tick, expires |-> tick + Ttl]]

\* Time passes.  Two uses at one instant are told apart by letting every use take a tick.
Tick == tick' = tick + 1

\* Requests come in the order of their numbers; nothing is awaited before the lookup.
Arrives(r) == ask[r].phase = "off" /\ \A s \in Requests : s < r => ask[s].phase # "off"

Wait ==
  /\ tick < MaxTicks /\ Tick
  /\ UNCHANGED <<cache, ask, stored, used>>

\* get: a valid entry is used, and becomes the most recent.
Hit(r) ==
  /\ Arrives(r)
  /\ \E k \in CacheKeys : \E e \in Cached(k) :
       /\ ~Expired(e) /\ ask' = [ask EXCEPT ![r] = [phase |-> "told", key |-> NoKey, tells |-> e.tells]]
       /\ Touch(k) /\ cache' = Append(Without(k), e)
  /\ tick < MaxTicks /\ Tick /\ UNCHANGED stored

\* No entry, or an expired one, which is deleted.
Miss(r) ==
  /\ Arrives(r)
  /\ \E k \in CacheKeys :
       /\ \A e \in Cached(k) : Expired(e)
       /\ cache' = Without(k)
       /\ ask' = [ask EXCEPT ![r].key = k, ![r].phase = IF k \in TrendKeys THEN "list" ELSE "compute"]
  /\ UNCHANGED <<tick, stored, used>>

MutantCommitUnchecked(r) ==
  /\ ask[r].phase = "compute" /\ stored' \in {stored, stored \cup {r}}
  /\ ask' = [ask EXCEPT ![r].phase = "set", ![r].tells = {r}]
  /\ UNCHANGED <<tick, cache, used>>

\* orchestrate, create and commit; a failure of any is an error answer.
CommitForecast(r) ==
  /\ ask[r].phase = "compute"
  /\ \/ /\ stored' = stored \cup {r}
        /\ ask' = [ask EXCEPT ![r].phase = "set", ![r].tells = {r}]
     \/ ask' = [ask EXCEPT ![r].phase = "error", ![r].key = NoKey] /\ UNCHANGED stored
  /\ UNCHANGED <<tick, cache, used>>

\* list_recent.
ListRecent(r) ==
  /\ ask[r].phase = "list"
  /\ ask' = [ask EXCEPT ![r].phase = "set", ![r].tells = stored]
  /\ UNCHANGED <<tick, cache, stored, used>>

\* set: the entry is replaced, or added after the least recent one has gone.
SetEntry(r) ==
  /\ ask[r].phase = "set" /\ tick < MaxTicks
  /\ LET k == ask[r].key
         rest == IF Cached(k) = {} /\ Len(cache) >= MaxSize THEN Tail(cache) ELSE Without(k) IN
     /\ cache' = Append(rest, [key |-> k, expires |-> tick + Ttl, tells |-> ask[r].tells])
     /\ TouchNew(k)
  /\ ask' = [ask EXCEPT ![r].phase = "told", ![r].key = NoKey]
  /\ Tick /\ UNCHANGED stored

CacheNext ==
  \/ \E r \in Requests :
       \/ Hit(r) \/ Miss(r) \/ CommitForecast(r)
       \/ ListRecent(r) \/ SetEntry(r)
  \/ Wait

CacheSpec == CacheInit /\ [][CacheNext]_cacheVars

-----------------------------------------------------------------------------
(* Properties.                                                              *)

\* An answer, cached or not, names committed forecasts only.
TellsStoredForecasts ==
  /\ \A r \in Requests : ask[r].phase = "told" => ask[r].tells \subseteq stored
  /\ \A e \in ToSet(cache) : e.tells \subseteq stored

\* The cache is a least-recently-used one: a key that was used is still there unless it
\* has expired or at least MaxSize keys were used after it ("move_to_end", "popitem").
RecentKeysStay ==
  /\ Len(cache) <= MaxSize
  /\ \A k \in CacheKeys : used[k].last > 0 /\ Cached(k) = {} =>
       \/ tick > used[k].expires
       \/ Cardinality({l \in CacheKeys : used[l].last > used[k].last}) >= MaxSize

\* The response cache tells the truth, and keeps what is asked for.
CacheIsSound == TellsStoredForecasts /\ RecentKeysStay
=============================================================================
