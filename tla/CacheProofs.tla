---------------------------- MODULE CacheProofs ----------------------------
(* Theorems about the cache and its callers, for all constants.            *)
EXTENDS CacheClient, KVCacheProofs

(***************************************************************************)
(* The type invariant.                                                     *)
(***************************************************************************)
LEMMA InitType == Init => ClientTypeOK
BY CacheInitType DEF Init, ClientTypeOK

LEMMA NextType == ClientTypeOK /\ [Next]_vars => ClientTypeOK'
<1>1. SUFFICES ASSUME ClientTypeOK, [Next]_vars
               PROVE  TypeOK' /\ req' \in [Models -> Request \cup {None}]
  BY DEF ClientTypeOK
<1>2. TypeOK /\ req \in [Models -> Request \cup {None}]
  BY <1>1 DEF ClientTypeOK
<1>3. ASSUME NEW u \in Uses, Begin(u[1], u[2], u[3])
      PROVE  TypeOK' /\ req' \in [Models -> Request \cup {None}]
  <2>1. u[1] \in Models /\ u[2] \in Keys /\ u[3] \in Hashes
    BY UsesAssumption
  <2>2. TypeOK'
    BY <1>2, <1>3, <2>1, LoadType DEF Begin
  <2>3. req' \in [Models -> Request \cup {None}]
    BY <1>2, <1>3, <2>1 DEF Begin, Hold, Release, Request, Phases
  <2>4. QED BY <2>2, <2>3
<1>4. ASSUME NEW m \in Models, Evaluate(m)
      PROVE  TypeOK' /\ req' \in [Models -> Request \cup {None}]
  <2>1. req[m] \in Request
    BY <1>2, <1>4 DEF Evaluate
  <2>2. ctx' \in [Models -> Snapshot]
    BY <1>2, <1>4, <2>1 DEF Evaluate, TypeOK, Snapshot, Request
  <2>3. req' \in [Models -> Request \cup {None}]
    BY <1>2, <1>4, <2>1 DEF Evaluate, Request, Phases
  <2>4. QED BY <1>2, <1>4, <2>2, <2>3 DEF Evaluate, TypeOK
<1>5. ASSUME NEW m \in Models, Declare(m)
      PROVE  TypeOK' /\ req' \in [Models -> Request \cup {None}]
  <2>1. req[m] \in Request
    BY <1>2, <1>5 DEF Declare
  <2>2. req' \in [Models -> Request \cup {None}]
    BY <1>2, <1>5, <2>1 DEF Declare, Request, Phases
  <2>3. QED BY <1>2, <1>5, <2>2 DEF Declare, mark_context_dirty, TypeOK
<1>6. ASSUME NEW m \in Models, Finish(m)
      PROVE  TypeOK' /\ req' \in [Models -> Request \cup {None}]
  BY <1>2, <1>6 DEF Finish, Release, cacheVars, TypeOK
<1>7. ASSUME NEW m \in Models, NEW r \in Roles, Save(m, r)
      PROVE  TypeOK' /\ req' \in [Models -> Request \cup {None}]
  <2>1. req[m] \in Request
    BY <1>2, <1>7 DEF Save
  <2>2. req[m].key \in Keys /\ req[m].hash \in Hashes
    BY <2>1 DEF Request
  <2>3. TypeOK'
    BY <1>2, <1>7, <2>2, SaveType, SaveFailsType DEF Save
  <2>4. req' \in [Models -> Request \cup {None}]
    BY <1>2, <1>7, <2>1 DEF Save, Request, Phases
  <2>5. QED BY <2>3, <2>4
<1>8. ASSUME Crash PROVE TypeOK' /\ req' \in [Models -> Request \cup {None}]
  BY <1>2, <1>8, RestartType DEF Crash
<1>9. ASSUME Time PROVE TypeOK' /\ req' \in [Models -> Request \cup {None}]
  BY <1>2, <1>9, BoundsAssumption DEF Time, Tick, TypeOK
<1>10. ASSUME UNCHANGED vars
       PROVE  TypeOK' /\ req' \in [Models -> Request \cup {None}]
  BY <1>2, <1>10 DEF vars, TypeOK
<1>11. QED
  BY <1>1, <1>3, <1>4, <1>5, <1>6, <1>7, <1>8, <1>9, <1>10 DEF Next

\* Every variable keeps its type, whatever fails: no operation stores a torn
\* file in RAM or a state without its lock holder.
THEOREM TypeCorrect == Spec => []ClientTypeOK
BY InitType, NextType, PTL DEF Spec

(***************************************************************************)
(* The invariants that hold whatever fails.                                *)
(***************************************************************************)
LEMMA NextRamInv == ClientTypeOK /\ RamInv /\ [Next]_vars => RamInv'
<1>1. SUFFICES ASSUME ClientTypeOK, RamInv, [Next]_vars PROVE RamInv'
  OBVIOUS
<1>2. TypeOK /\ req \in [Models -> Request \cup {None}]
  BY <1>1 DEF ClientTypeOK
<1>3. ASSUME NEW u \in Uses, Begin(u[1], u[2], u[3]) PROVE RamInv'
  <2>1. u[1] \in Models /\ u[2] \in Keys /\ u[3] \in Hashes
    BY UsesAssumption
  <2>2. QED BY <1>1, <1>2, <1>3, <2>1, LoadRamInv DEF Begin
<1>4. ASSUME NEW m \in Models, NEW r \in Roles, Save(m, r) PROVE RamInv'
  <2>1. req[m].key \in Keys /\ req[m].hash \in Hashes
    BY <1>2, <1>4 DEF Save, Request
  <2>2. QED BY <1>1, <1>2, <1>4, <2>1, SaveRamInv, SaveFailsRamInv DEF Save
<1>5. CASE \/ \E m \in Models : Evaluate(m) \/ Declare(m) \/ Finish(m)
           \/ Time \/ UNCHANGED vars
  BY <1>1, <1>5, StillRamInv
  DEF Evaluate, Declare, mark_context_dirty, Finish, cacheVars, Time, Tick, vars
<1>6. CASE Crash
  BY <1>6, EmptyRamInv DEF Crash
<1>7. QED BY <1>1, <1>3, <1>4, <1>5, <1>6 DEF Next

LEMMA RamCorrect == Spec => []RamInv
<1>1. Init => RamInv
  BY EmptyRamInv DEF Init
<1>2. QED BY <1>1, NextRamInv, TypeCorrect, PTL DEF Spec

\* The RAM tier never outgrows max_ram_states, although a failed restore, a
\* failed eviction or a crash may strike in the middle of any save or load.
THEOREM StandbyCorrect == Spec => []StandbyBounded
BY RamCorrect, PTL DEF RamInv

\* No state is in RAM without metadata, so the drop in evict_standby_to_cold
\* never happens and every evicted state is written.
THEOREM NothingDropped == Spec => []StandbyHasMetadata
BY RamCorrect, PTL DEF RamInv

\* A HOT answer is always preceded by a comparison of model and prompt.
THEOREM HotChecked == Spec => []HotIsValidated
BY RamCorrect, PTL DEF RamInv

(***************************************************************************)
(* Eviction.                                                               *)
(***************************************************************************)
LEMMA NextClock == ClientTypeOK /\ ClockInv /\ [Next]_vars => ClockInv'
<1>1. SUFFICES ASSUME ClientTypeOK, ClockInv, [Next]_vars PROVE ClockInv'
  OBVIOUS
<1>2. TypeOK /\ req \in [Models -> Request \cup {None}]
  BY <1>1 DEF ClientTypeOK
<1>3. ASSUME NEW u \in Uses, Begin(u[1], u[2], u[3]) PROVE ClockInv'
  <2>1. u[1] \in Models /\ u[2] \in Keys /\ u[3] \in Hashes
    BY UsesAssumption
  <2>2. QED BY <1>1, <1>2, <1>3, <2>1, LoadDated DEF Begin
<1>4. ASSUME NEW m \in Models, NEW r \in Roles, Save(m, r) PROVE ClockInv'
  <2>1. req[m].key \in Keys /\ req[m].hash \in Hashes
    BY <1>2, <1>4 DEF Save, Request
  <2>2. QED BY <1>1, <1>2, <1>4, <2>1, SaveDated DEF Save
<1>5. CASE \/ \E m \in Models : Evaluate(m) \/ Declare(m) \/ Finish(m)
           \/ Time \/ UNCHANGED vars
  <2>1. UNCHANGED <<metadata_store, json>> /\ now' \in {now, now + 1}
    BY <1>5
    DEF Evaluate, Declare, mark_context_dirty, Finish, cacheVars, Time, Tick, vars
  <2>2. QED BY <1>1, <1>2, <2>1, RestDated
<1>6. CASE Crash
  BY <1>1, <1>2, <1>6, RestDated DEF Crash
<1>7. QED BY <1>1, <1>3, <1>4, <1>5, <1>6 DEF Next

\* What takes one state out of RAM and leaves it its metadata is an eviction.
LEMMA NextEvicts ==
  ClientTypeOK /\ RamInv /\ ClockInv /\ [Next]_vars => EvictsByPriority
<1>1. SUFFICES ASSUME ClientTypeOK, RamInv, ClockInv, [Next]_vars,
                      NEW v \in Resident, NEW x \in Resident,
                      standby_cache'[v] = None, standby_cache'[x] # None,
                      metadata_store'[v] # None
               PROVE  Score(x) <= Score(v)
  <2>1. ASSUME ClientTypeOK, RamInv, ClockInv, NEW v \in Resident, NEW x \in Resident,
               Score(x) <= Score(v)
        PROVE  \/ Weight(metadata_store[x].agent_role) = 10
               \/ Weight(metadata_store[v].agent_role)
                    < Weight(metadata_store[x].agent_role)
               \/ metadata_store[v].last_accessed <= metadata_store[x].last_accessed
    BY <2>1, ScoresCompare DEF ClientTypeOK, RamInv, StandbyHasMetadata, Resident
  <2>2. QED BY <2>1 DEF EvictsByPriority
<1>2. /\ TypeOK /\ StandbyHasMetadata /\ req \in [Models -> Request \cup {None}]
      /\ v \in Keys /\ x \in Keys /\ standby_cache[v] # None
  BY <1>1 DEF ClientTypeOK, RamInv, Resident
<1>3. standby_cache' # standby_cache
  BY <1>1, <1>2
<1>4. ASSUME NEW k \in Keys, NEW state \in Snapshot, NEW meta,
             promote_to_standby(k, state, meta)
      PROVE  Score(x) <= Score(v)
  BY <1>1, <1>2, <1>4, PromoteEvicts
<1>5. ASSUME NEW u \in Uses, Begin(u[1], u[2], u[3]) PROVE Score(x) <= Score(v)
  <2>1. u[1] \in Models /\ u[2] \in Keys /\ u[3] \in Hashes
    BY UsesAssumption
  <2>2. CASE LoadCold(u[1], u[2], u[3])
    BY <1>4, <2>1, <2>2 DEF LoadCold, ColdMatches, load_from_ssd_accepts
  <2>3. CASE LoadStandbyFails(u[1], u[2], u[3])
    BY <1>1, <1>2, <2>1, <2>3 DEF LoadStandbyFails, TypeOK
  <2>4. QED
    BY <1>3, <1>5, <2>2, <2>3
    DEF Begin, LoadHits, LoadMisses, LoadRaises, LoadHot, LoadStandby, LoadMismatch,
        LoadAbsent, LoadColdNoRoom, LoadColdFails, LoadColdRejected,
        promote_to_standby_fails, cacheVars
<1>6. ASSUME NEW m \in Models, NEW r \in Roles, Save(m, r) PROVE Score(x) <= Score(v)
  <2>1. req[m].key \in Keys /\ ctx[m] \in Snapshot
    BY <1>2, <1>6 DEF Save, Request, TypeOK
  <2>2. save_cache(m, req[m].key, req[m].hash, r)
    BY <1>3, <1>6 DEF Save, save_cache_fails, promote_to_standby_fails
  <2>3. QED BY <1>4, <2>1, <2>2 DEF save_cache
<1>7. ~ Crash
  BY <1>1, <1>2 DEF Crash, Restart
<1>8. QED
  BY <1>1, <1>3, <1>5, <1>6, <1>7
  DEF Next, Evaluate, Declare, mark_context_dirty, Finish, cacheVars, Time, Tick, vars

\* PW-LRU as the weights are meant: no state leaves RAM before one that was used
\* earlier and weighs no more, whatever fails in between; only states of the full
\* weight 10 have no order, as their scores are all 0.  The dates must not be
\* ahead of the clock, or the scores of others would be 0 as well.
THEOREM EvictionCorrect == Spec => EvictionRespectsPriority
<1>1. Init => ClockInv
  BY RestDated DEF Init
<1>2. ClientTypeOK /\ RamInv /\ ClockInv /\ [Next]_vars => [EvictsByPriority]_vars
  BY NextEvicts
<1>3. QED
  BY <1>1, <1>2, NextClock, TypeCorrect, RamCorrect, PTL
  DEF Spec, EvictionRespectsPriority

=============================================================================
