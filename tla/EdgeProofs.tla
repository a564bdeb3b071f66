----------------------------- MODULE EdgeProofs -----------------------------
(***************************************************************************)
(* The local path for any number of requests, models and keys.             *)
(*                                                                         *)
(* Exclusion comes first: a step is taken by the one request that holds    *)
(* its model (Alone), so everyone else finds the context as it was         *)
(* (OthersStay).  Then prefixes are pure; then the dispatcher is a client  *)
(* of the cache (ContractStep), so that HotInv, proved of any client, is   *)
(* an invariant here too (CacheIsKept); and a request that is served finds *)
(* its own state (HitIsServed), which is what answers rest on (OwnInv).    *)
(***************************************************************************)
EXTENDS EdgeDispatch, KVCacheProofs

LEMMA TaskType ==
  ASSUME NEW r \in Requests
  PROVE  /\ model(r) \in Models /\ key(r) \in Keys /\ hash(r) \in Hashes
         /\ Task[r].prefix \in BOOLEAN /\ r # None
BY EdgeAssumption DEF model, key, hash

LEMMA FreshType ==
  ASSUME NEW r \in Requests, NEW b \in SUBSET Requests
  PROVE  Fresh(r, b) \in Snapshot
BY TaskType, EdgeAssumption DEF Fresh, Snapshot

LEMMA ExtendedType ==
  ASSUME TypeOK, NEW r \in Requests
  PROVE  Extended(r) \in Snapshot
BY TaskType, EdgeAssumption DEF Extended, Snapshot, TypeOK

----------------------------------------------------------------------------
(* Types.                                                                  *)

LEMMA ContextType ==
  ASSUME EdgeTypeOK, NEW r \in Requests, NEW s \in Snapshot, OnlyContext(r, s),
         NEW t \in ThreadStates, Moves(r, t),
         UNCHANGED answer \/ answer' = [answer EXCEPT ![r] = ctx[model(r)]]
  PROVE  EdgeTypeOK'
BY TaskType DEF EdgeTypeOK, TypeOK, OnlyContext, Moves

LEMMA EdgeNextType == EdgeTypeOK /\ [Next]_edgeVars => EdgeTypeOK'
<1>1. SUFFICES ASSUME EdgeTypeOK, [Next]_edgeVars PROVE EdgeTypeOK'
  OBVIOUS
<1>2. /\ TypeOK
      /\ lock \in [Models -> Requests \cup {None}]
      /\ caller \in [Requests -> CallerStates]
      /\ thread \in [Requests -> ThreadStates]
      /\ answer \in [Requests -> Snapshot \cup {None}]
  BY <1>1 DEF EdgeTypeOK
<1> USE DEF CallerStates, ThreadStates
<1>3. ASSUME NEW r \in Requests, Enter(r) PROVE EdgeTypeOK'
  <2>1. TypeOK'
    BY <1>2, <1>3, TaskType, LoadType DEF Enter
  <2>2. QED BY <1>2, <1>3, <2>1, TaskType DEF Enter, CallerIs, Moves, EdgeTypeOK
<1>4. ASSUME NEW r \in Requests, Join(r) PROVE EdgeTypeOK'
  <2>1. TypeOK'
    <3>1. CASE \/ \E role \in Roles : save_cache(model(r), key(r), hash(r), role)
               \/ save_cache_fails(key(r))
      BY <1>2, <3>1, TaskType, SaveType, SaveFailsType
    <3>2. CASE UNCHANGED cacheVars
      BY <1>2, <3>2 DEF cacheVars, TypeOK
    <3>3. QED BY <1>4, <3>1, <3>2 DEF Join
  <2>2. QED BY <1>2, <1>4, <2>1 DEF Join, CallerIs, EdgeTypeOK
<1>5. ASSUME NEW r \in Requests, TimeOut(r) \/ Leave(r) PROVE EdgeTypeOK'
  BY <1>2, <1>5, TaskType DEF TimeOut, Leave, CallerIs, EdgeTypeOK, cacheVars, TypeOK
<1>6. ASSUME NEW r \in Requests, Prefill(r) PROVE EdgeTypeOK'
  BY <1>1, <1>6, FreshType, ContextType DEF Prefill
<1>7. ASSUME NEW r \in Requests, SavePrefix(r) PROVE EdgeTypeOK'
  <2>1. TypeOK'
    BY <1>2, <1>7, TaskType, SaveType, SaveFailsType DEF SavePrefix
  <2>2. QED BY <1>2, <1>7, <2>1 DEF SavePrefix, Moves, EdgeTypeOK
<1>8. ASSUME NEW r \in Requests, Suffix(r) PROVE EdgeTypeOK'
  BY <1>1, <1>2, <1>8, ExtendedType, ContextType DEF Suffix
<1>9. ASSUME NEW r \in Requests, EvalRaises(r) PROVE EdgeTypeOK'
  BY <1>1, <1>2, <1>9, FreshType, ExtendedType, ContextType DEF EvalRaises
<1>10. ASSUME NEW r \in Requests, MarkDirty(r) PROVE EdgeTypeOK'
  BY <1>2, <1>10 DEF MarkDirty, mark_context_dirty, Moves, EdgeTypeOK, TypeOK
<1>11. ASSUME NEW r \in Requests, Generate(r) PROVE EdgeTypeOK'
  BY <1>1, <1>2, <1>11, ExtendedType, ContextType DEF Generate
<1>12. CASE UNCHANGED edgeVars
  BY <1>2, <1>12 DEF edgeVars, EdgeTypeOK, TypeOK
<1>13. QED
  BY <1>1, <1>3, <1>4, <1>5, <1>6, <1>7, <1>8, <1>9, <1>10, <1>11, <1>12
  DEF Next, Caller, Thread, Quiet

LEMMA EdgeInitType == Init => EdgeTypeOK
BY CacheInitType DEF Init, EdgeTypeOK, CallerStates, ThreadStates

\* Every variable of the dispatcher and of the cache keeps its type, whatever
\* raises and however often the watchdog fires.
THEOREM EdgeTypeCorrect == Spec => []EdgeTypeOK
BY EdgeInitType, EdgeNextType, PTL DEF Spec

----------------------------------------------------------------------------
(* Exclusion.                                                              *)

Holding == {"running", "leaving", "failing"}
Active  == {"fresh", "hit", "prefixed", "saved", "evaluated", "marked"}

LocksHeld ==
  /\ \A m \in Models : lock[m] # None =>
       model(lock[m]) = m /\ caller[lock[m]] \in Holding
  /\ \A r \in Requests : caller[r] \in Holding => lock[model(r)] = r

\* A thread is only at work while its caller waits for it.
ThreadsJoined ==
  \A r \in Requests :
    /\ caller[r] = "waiting" => thread[r] = "none"
    /\ caller[r] = "running" => thread[r] # "none"
    /\ caller[r] \in {"leaving", "returned"} => thread[r] = "finished"
    /\ thread[r] \in Active => caller[r] = "running"

NoWatchdog == "timeout" \notin EdgeFaults

\* What a step of one request may not touch.
Local(r) ==
  /\ \A q \in Requests \ {r} :
       caller'[q] = caller[q] /\ thread'[q] = thread[q] /\ answer'[q] = answer[q]
  /\ \A m \in Models \ {model(r)} : lock'[m] = lock[m] /\ ctx'[m] = ctx[m]

LEMMA LocalSteps ==
  ASSUME EdgeTypeOK, NEW r \in Requests, Caller(r) \/ Thread(r)
  PROVE  Local(r)
<1>1. model(r) \in Models /\ key(r) \in Keys /\ hash(r) \in Hashes /\ TypeOK
  BY TaskType DEF EdgeTypeOK
<1> USE DEF EdgeTypeOK, Local, CallerIs, Moves
<1>2. CASE Enter(r)
  BY <1>1, <1>2, LoadContext DEF Enter
<1>3. CASE Join(r)
  <2>1. ctx' = ctx
    BY <1>3 DEF Join, save_cache, save_cache_fails, cacheVars
  <2>2. QED BY <1>3, <2>1 DEF Join
<1>4. CASE TimeOut(r) \/ Leave(r)
  BY <1>4 DEF TimeOut, Leave, cacheVars
<1>5. CASE SavePrefix(r)
  BY <1>5 DEF SavePrefix, save_cache, save_cache_fails
<1>6. CASE Prefill(r) \/ Suffix(r) \/ EvalRaises(r) \/ Generate(r)
  <2>1. UNCHANGED <<lock, caller>> /\ \E s : ctx' = [ctx EXCEPT ![model(r)] = s]
    BY <1>6 DEF Prefill, Suffix, EvalRaises, Generate, OnlyContext
  <2>2. QED BY <1>1, <1>6, <2>1 DEF Prefill, Suffix, EvalRaises, Generate, TypeOK
<1>7. CASE MarkDirty(r)
  BY <1>7 DEF MarkDirty, mark_context_dirty
<1>8. QED BY <1>2, <1>3, <1>4, <1>5, <1>6, <1>7 DEF Caller, Thread

\* The lock keeps everyone else away from the model.
LEMMA Excluded ==
  ASSUME LocksHeld, ThreadsJoined, NEW r \in Requests, caller[r] \in Holding,
         NEW q \in Requests \ {r}, model(q) = model(r)
  PROVE  caller[q] \notin Holding /\ thread[q] \notin Active
BY DEF LocksHeld, ThreadsJoined, Holding

LEMMA LocksStep ==
  ASSUME EdgeTypeOK, LocksHeld, NEW r \in Requests, Caller(r) \/ Thread(r)
  PROVE  LocksHeld'
<1>1. Local(r) /\ model(r) \in Models /\ r # None
  BY LocalSteps, TaskType
<1> USE DEF EdgeTypeOK, Holding
<1>2. CASE Enter(r)
  <2>1. lock[model(r)] = None /\ lock'[model(r)] = r /\ caller'[r] \in Holding
    BY <1>1, <1>2 DEF Enter, CallerIs
  <2>2. \A q \in Requests \ {r} : caller'[q] \in Holding => lock'[model(q)] = q
    BY <1>1, <2>1, TaskType DEF LocksHeld, Local
  <2>3. QED BY <1>1, <2>1, <2>2 DEF LocksHeld, Local
<1>3. CASE Leave(r)
  BY <1>1, <1>3 DEF Leave, CallerIs, LocksHeld
<1>4. ASSUME UNCHANGED lock,
             caller[r] \in Holding <=> caller'[r] \in Holding
      PROVE  LocksHeld'
  BY <1>1, <1>4 DEF Local, LocksHeld
<1>5. CASE Join(r) \/ TimeOut(r)
  BY <1>4, <1>5 DEF Join, TimeOut, CallerIs
<1>6. CASE Thread(r)
  BY <1>4, <1>6 DEF Thread, Prefill, SavePrefix, Suffix, EvalRaises, MarkDirty,
                    Generate, OnlyContext
<1>7. QED BY <1>2, <1>3, <1>5, <1>6 DEF Caller

LEMMA ThreadsStep ==
  ASSUME NoWatchdog, EdgeTypeOK, ThreadsJoined, NEW r \in Requests,
         Caller(r) \/ Thread(r)
  PROVE  ThreadsJoined'
<1>1. /\ \A q \in Requests \ {r} : caller'[q] = caller[q] /\ thread'[q] = thread[q]
      /\ caller[r] \in CallerStates /\ thread[r] \in ThreadStates
      /\ caller \in [Requests -> CallerStates] /\ thread \in [Requests -> ThreadStates]
  BY LocalSteps DEF Local, EdgeTypeOK
<1>2. SUFFICES /\ caller'[r] = "waiting" => thread'[r] = "none"
               /\ caller'[r] = "running" => thread'[r] # "none"
               /\ caller'[r] \in {"leaving", "returned"} => thread'[r] = "finished"
               /\ thread'[r] \in Active => caller'[r] = "running"
  BY <1>1 DEF ThreadsJoined
<1> USE DEF ThreadsJoined, Active, CallerStates, ThreadStates
<1>3. CASE Enter(r)
  BY <1>1, <1>3 DEF Enter, CallerIs, Moves
<1>4. CASE Join(r)
  BY <1>1, <1>4 DEF Join, CallerIs
<1>5. CASE Leave(r)
  BY <1>1, <1>5 DEF Leave, CallerIs
<1>6. CASE Thread(r)
  <2>1. thread[r] \in Active /\ UNCHANGED caller
    BY <1>6 DEF Thread, Prefill, SavePrefix, Suffix, EvalRaises, MarkDirty,
                Generate, OnlyContext
  <2>2. thread'[r] # "none"
    BY <1>1, <1>6 DEF Thread, Prefill, SavePrefix, Suffix, EvalRaises, MarkDirty,
                      Generate, Moves
  <2>3. QED BY <1>1, <2>1, <2>2
<1>7. ~ TimeOut(r)
  BY DEF TimeOut, NoWatchdog
<1>8. QED BY <1>3, <1>4, <1>5, <1>6, <1>7 DEF Caller

LEMMA LocksCorrect == Spec => []LocksHeld
<1>1. Init => LocksHeld
  BY DEF Init, LocksHeld, Holding
<1>2. EdgeTypeOK /\ LocksHeld /\ [Next]_edgeVars => LocksHeld'
  BY LocksStep DEF Next, Quiet, edgeVars, LocksHeld
<1>3. QED BY <1>1, <1>2, EdgeTypeCorrect, PTL DEF Spec

LEMMA ThreadsCorrect == ASSUME NoWatchdog PROVE Spec => []ThreadsJoined
<1>1. Init => ThreadsJoined
  BY DEF Init, ThreadsJoined, Active
<1>2. EdgeTypeOK /\ ThreadsJoined /\ [Next]_edgeVars => ThreadsJoined'
  BY ThreadsStep DEF Next, Quiet, edgeVars, ThreadsJoined
<1>3. QED BY <1>1, <1>2, EdgeTypeCorrect, PTL DEF Spec

\* Two inference threads never work on one model, whatever raises, as long as
\* the watchdog does not give up a thread that is still running.
OneThreadPerModel ==
  \A q, r \in Requests :
    q # r /\ model(q) = model(r) => ~ (thread[q] \in Active /\ thread[r] \in Active)

THEOREM ThreadsExclude == ASSUME NoWatchdog PROVE Spec => []OneThreadPerModel
<1>1. LocksHeld /\ ThreadsJoined => OneThreadPerModel
  BY Excluded DEF OneThreadPerModel, ThreadsJoined, Holding
<1>2. QED BY <1>1, LocksCorrect, ThreadsCorrect, PTL

----------------------------------------------------------------------------
(* What is stored under the key of a prefix.                               *)

\* Whoever takes a step has the model for itself.
LEMMA Alone ==
  ASSUME LocksHeld, ThreadsJoined, NEW r \in Requests, Caller(r) \/ Thread(r),
         NEW q \in Requests \ {r}, caller[q] \in Holding
  PROVE  model(q) # model(r)
<1>1. CASE Enter(r)
  <2>1. lock[model(q)] = q /\ lock[model(r)] = None /\ q # None
    BY <1>1, TaskType DEF Enter, LocksHeld
  <2>2. QED BY <2>1
<1>2. CASE ~ Enter(r)
  <2>1. caller[r] \in Holding
    BY <1>2 DEF Caller, Thread, Join, TimeOut, Leave, Prefill, SavePrefix, Suffix,
                EvalRaises, MarkDirty, Generate, ThreadsJoined, Active, Holding
  <2>2. QED BY <2>1, Excluded
<1>3. QED BY <1>1, <1>2

\* ... so the others find their contexts as they left them.
LEMMA OthersStay ==
  ASSUME EdgeTypeOK, LocksHeld, ThreadsJoined, NEW r \in Requests,
         Caller(r) \/ Thread(r), NEW q \in Requests \ {r}
  PROVE  /\ caller'[q] = caller[q] /\ thread'[q] = thread[q]
         /\ answer'[q] = answer[q]
         /\ caller[q] \in Holding => ctx'[model(q)] = ctx[model(q)]
BY LocalSteps, Alone, TaskType DEF Local

\* A thread that has evaluated its prefix has nothing else in its context.
PrefixFresh ==
  \A r \in Requests :
    thread[r] = "prefixed" => Task[r].prefix /\ ctx[model(r)] = Fresh(r, {})

PureInv == PrefixFresh /\ SnapshotsArePure

LEMMA FreshStep ==
  ASSUME NoWatchdog, EdgeTypeOK, LocksHeld, ThreadsJoined, PrefixFresh,
         NEW r \in Requests, Caller(r) \/ Thread(r)
  PROVE  PrefixFresh'
<1> DEFINE Ok(q) == thread[q] = "prefixed" =>
                      Task[q].prefix /\ ctx[model(q)] = Fresh(q, {})
<1>1. \A q \in Requests \ {r} : Ok(q)'
  <2>1. \A q \in Requests : thread[q] = "prefixed" => caller[q] \in Holding
    BY DEF ThreadsJoined, Active, Holding
  <2>2. QED BY <2>1, OthersStay DEF PrefixFresh, Fresh
<1>2. Ok(r)'
  <2>1. /\ model(r) \in Models /\ ctx \in [Models -> Snapshot]
        /\ thread \in [Requests -> ThreadStates]
    BY TaskType DEF EdgeTypeOK, TypeOK
  <2>2. CASE Prefill(r)
    BY <2>1, <2>2 DEF Prefill, OnlyContext, Moves, Fresh
  <2>3. CASE ~ Prefill(r)
    <3>1. thread'[r] # "prefixed"
      BY <2>1, <2>3
      DEF Caller, Thread, Enter, Join, TimeOut, Leave, SavePrefix, Suffix,
          EvalRaises, MarkDirty, Generate, Moves, ThreadsJoined, Active, NoWatchdog
    <3>2. QED BY <3>1
  <2>4. QED BY <2>2, <2>3
<1>3. QED BY <1>1, <1>2 DEF PrefixFresh

LEMMA ShiftsPure ==
  ASSUME SnapshotsArePure, NEW K \in SUBSET Keys, \A j \in K : Shifts(j),
         NEW q \in Requests, Task[q].prefix, key(q) \in K,
         NEW s \in {standby_cache'[key(q)], bin'[key(q)]}, s \in Snapshot
  PROVE  s.body = {} /\ s.hash = hash(q) /\ s.model = model(q)
BY NullLemma DEF SnapshotsArePure, Shifts

LEMMA PureStep ==
  ASSUME EdgeTypeOK, PrefixFresh, SnapshotsArePure,
         NEW r \in Requests, Caller(r) \/ Thread(r)
  PROVE  SnapshotsArePure'
<1>1. model(r) \in Models /\ key(r) \in Keys /\ hash(r) \in Hashes /\ TypeOK
  BY TaskType DEF EdgeTypeOK
<1>2. ASSUME \A j \in Keys : Shifts(j) PROVE SnapshotsArePure'
  BY <1>2, ShiftsPure, TaskType DEF SnapshotsArePure, model, key, hash
<1>3. ASSUME NEW role \in Roles, save_cache(model(r), key(r), hash(r), role),
             Task[r].prefix => ctx[model(r)] = Fresh(r, {})
      PROVE  SnapshotsArePure'
  <2>1. /\ \A j \in Keys \ {key(r)} : Shifts(j)
        /\ standby_cache'[key(r)] = ctx[model(r)] /\ bin'[key(r)] = bin[key(r)]
    BY <1>1, <1>3, SaveShifts
  <2>2. SUFFICES ASSUME NEW q \in Requests, Task[q].prefix,
                        NEW s \in {standby_cache'[key(q)], bin'[key(q)]}, s \in Snapshot
                 PROVE  s.body = {} /\ s.hash = hash(q) /\ s.model = model(q)
    BY DEF SnapshotsArePure, model, key, hash
  <2>3. CASE key(q) # key(r)
    BY <2>1, <2>2, <2>3, ShiftsPure, TaskType
  <2>4. CASE key(q) = key(r)
    <3>1. Task[q] = Task[r]
      BY <2>2, <2>4, PrefixKeyAssumption DEF key
    <3>2. Task[r].prefix /\ hash(q) = hash(r) /\ model(q) = model(r)
      BY <2>2, <3>1 DEF hash, model
    <3>3. CASE s = bin[key(q)]
      BY <2>2, <3>3 DEF SnapshotsArePure
    <3>4. CASE s = ctx[model(r)]
      BY <1>3, <3>2, <3>4 DEF Fresh
    <3>5. QED BY <2>1, <2>2, <2>4, <3>3, <3>4
  <2>5. QED BY <2>3, <2>4
<1>4. CASE Enter(r)
  BY <1>1, <1>2, <1>4, LoadShifts DEF Enter
<1>5. CASE Join(r) /\ ~ UNCHANGED cacheVars
  <2>1. CASE save_cache_fails(key(r))
    BY <1>1, <1>2, <2>1, SaveFailsShifts
  <2>2. CASE ~ save_cache_fails(key(r))
    BY <1>3, <1>5, <2>2 DEF Join
  <2>3. QED BY <2>1, <2>2
<1>6. CASE SavePrefix(r)
  <2>1. CASE save_cache_fails(key(r))
    BY <1>1, <1>2, <2>1, SaveFailsShifts
  <2>2. CASE ~ save_cache_fails(key(r))
    BY <1>3, <1>6, <2>2 DEF SavePrefix, PrefixFresh
  <2>3. QED BY <2>1, <2>2
<1>7. ASSUME UNCHANGED <<standby_cache, bin>> PROVE SnapshotsArePure'
  BY <1>7, <1>2 DEF Shifts
<1>8. CASE \/ UNCHANGED cacheVars \/ TimeOut(r) \/ Leave(r) \/ MarkDirty(r)
           \/ Prefill(r) \/ Suffix(r) \/ EvalRaises(r) \/ Generate(r)
  BY <1>7, <1>8 DEF TimeOut, Leave, MarkDirty, mark_context_dirty, Prefill, Suffix,
                    EvalRaises, Generate, OnlyContext, cacheVars
<1>9. QED BY <1>4, <1>5, <1>6, <1>8 DEF Caller, Thread

LEMMA PureCorrect == ASSUME NoWatchdog PROVE Spec => []PureInv
<1>1. Init => PureInv
  BY TaskType, NullLemma
  DEF Init, CacheInit, PureInv, PrefixFresh, SnapshotsArePure
<1>2. /\ EdgeTypeOK /\ LocksHeld /\ ThreadsJoined /\ PureInv /\ [Next]_edgeVars
      => PureInv'
  <2>1. UNCHANGED edgeVars /\ PureInv => PureInv'
    BY DEF edgeVars, PureInv, PrefixFresh, SnapshotsArePure, Fresh, model, key, hash
  <2>2. QED BY <2>1, FreshStep, PureStep DEF Next, Quiet, PureInv
<1>3. QED
  BY <1>1, <1>2, EdgeTypeCorrect, LocksCorrect, ThreadsCorrect, PTL DEF Spec

\* What is found under the key of a prefix is this prefix alone, although saves
\* and restores may fail at any point, evaluations raise and sessions are saved
\* in between: all it takes is that no running thread is given up.
THEOREM PrefixesPure == ASSUME NoWatchdog PROVE Spec => []SnapshotsArePure
<1>1. Spec => []PureInv
  BY PureCorrect
<1>2. QED BY <1>1, PTL DEF PureInv

----------------------------------------------------------------------------
(* The RAM tier under the dispatcher.                                      *)

LEMMA EdgeRamStep == EdgeTypeOK /\ RamInv /\ [Next]_edgeVars => RamInv'
<1>1. SUFFICES ASSUME EdgeTypeOK, RamInv, [Next]_edgeVars PROVE RamInv'
  OBVIOUS
<1>2. TypeOK
  BY <1>1 DEF EdgeTypeOK
<1>3. ASSUME NEW r \in Requests, Enter(r) PROVE RamInv'
  BY <1>1, <1>2, <1>3, TaskType, LoadRamInv DEF Enter
<1>4. ASSUME NEW r \in Requests,
             \/ \E role \in Roles : save_cache(model(r), key(r), hash(r), role)
             \/ save_cache_fails(key(r))
      PROVE  RamInv'
  BY <1>1, <1>2, <1>4, TaskType, SaveRamInv, SaveFailsRamInv
<1>5. ASSUME UNCHANGED cacheVars PROVE RamInv'
  BY <1>1, <1>5, StillRamInv DEF cacheVars
<1>6. ASSUME NEW r \in Requests, Join(r) \/ SavePrefix(r) PROVE RamInv'
  BY <1>4, <1>5, <1>6 DEF Join, SavePrefix
<1>7. ASSUME NEW r \in Requests, TimeOut(r) \/ Leave(r) PROVE RamInv'
  BY <1>5, <1>7 DEF TimeOut, Leave
<1>8. ASSUME NEW r \in Requests,
             Prefill(r) \/ Suffix(r) \/ EvalRaises(r) \/ MarkDirty(r) \/ Generate(r)
      PROVE  RamInv'
  BY <1>1, <1>8, StillRamInv
  DEF Prefill, Suffix, EvalRaises, MarkDirty, mark_context_dirty, Generate, OnlyContext
<1>9. CASE UNCHANGED edgeVars
  BY <1>5, <1>9 DEF edgeVars, cacheVars
<1>10. QED
  BY <1>1, <1>3, <1>6, <1>7, <1>8, <1>9 DEF Next, Caller, Thread, Quiet

\* Even when the watchdog leaves threads behind that go on using their models,
\* RAM stays bounded, no state is in it without metadata, and no key is served
\* HOT without a comparison of model and prompt.
THEOREM EdgeRamCorrect ==
  Spec => [](StandbyBounded /\ StandbyHasMetadata /\ HotIsValidated)
<1>1. Init => RamInv
  BY EmptyRamInv DEF Init
<1>2. QED BY <1>1, EdgeRamStep, EdgeTypeCorrect, PTL DEF Spec, RamInv

----------------------------------------------------------------------------
(* The contract of the cache, step by step.                                *)

\* The operations the contract speaks of are the operations of the dispatcher.
LEMMA SameOperations ==
  ASSUME NEW m, NEW k, NEW h, NEW role
  PROVE  /\ Contract!LoadHits(m, k, h) <=> LoadHits(m, k, h)
         /\ Contract!LoadMisses(m, k, h) <=> LoadMisses(m, k, h)
         /\ Contract!LoadRaises(m, k, h) <=> LoadRaises(m, k, h)
         /\ Contract!save_cache(m, k, h, role) <=> save_cache(m, k, h, role)
         /\ Contract!mark_context_dirty <=> mark_context_dirty
         /\ Contract!CacheInit <=> CacheInit
         /\ Contract!cacheVars = cacheVars
BY DEF Snapshot, Contract!Snapshot, CacheStateMetadata,
       Contract!CacheStateMetadata, len, Contract!len, cacheVars,
       Contract!cacheVars, files, Contract!files, Resident, Contract!Resident,
       ROLE_PRIORITIES, Contract!ROLE_PRIORITIES, Weight, Contract!Weight,
       compute_eviction_score, Contract!compute_eviction_score, Score,
       Contract!Score, select_eviction_victim, Contract!select_eviction_victim,
       MustEvict, Contract!MustEvict, save_to_ssd, Contract!save_to_ssd,
       save_to_ssd_fails, Contract!save_to_ssd_fails, promote_to_standby,
       Contract!promote_to_standby, promote_to_standby_fails,
       Contract!promote_to_standby_fails, Cardinality, Contract!Cardinality,
       BecomesHot, Contract!BecomesHot, load_from_ssd_accepts,
       Contract!load_from_ssd_accepts, ColdMatches, Contract!ColdMatches, Touch,
       Contract!Touch, Mismatch, Contract!Mismatch, ServesHot, Contract!ServesHot,
       LoadMismatch, Contract!LoadMismatch, LoadHot, Contract!LoadHot, FromStandby,
       Contract!FromStandby, LoadStandby, Contract!LoadStandby,
       deserialize_llama_state_fails, Contract!deserialize_llama_state_fails,
       LoadStandbyFails, Contract!LoadStandbyFails, FromCold, Contract!FromCold,
       LoadCold, Contract!LoadCold, LoadColdNoRoom, Contract!LoadColdNoRoom,
       LoadColdFails, Contract!LoadColdFails, LoadColdRejected,
       Contract!LoadColdRejected, LoadAbsent, Contract!LoadAbsent, LoadHits,
       Contract!LoadHits, LoadMisses, Contract!LoadMisses, LoadRaises,
       Contract!LoadRaises, NewMetadata, Contract!NewMetadata, save_cache,
       Contract!save_cache, save_cache_fails, Contract!save_cache_fails,
       mark_context_dirty, Contract!mark_context_dirty, CacheInit,
       Contract!CacheInit

\* The request the dispatcher is making on each model.
EdgeReq ==
  [m \in Models |->
     IF lock[m] = None \/ thread[lock[m]] = "none" THEN None
     ELSE [key |-> key(lock[m]), hash |-> hash(lock[m]), phase |-> Phase(lock[m])]]

\* Evaluations do not raise, saves do not fail and the watchdog does not fire.
Cautious ==
  EdgeFaults \subseteq {"generate"} /\ Faults \cap {"save_state", "ssd_write"} = {}

LEMMA ContractBegin ==
  ASSUME NEW m, NEW k, NEW h, EdgeReq[m] = None,
         \/ /\ LoadHits(m, k, h)
            /\ EdgeReq' = [EdgeReq EXCEPT ![m] = [key |-> k, hash |-> h, phase |-> "restored"]]
         \/ /\ LoadMisses(m, k, h)
            /\ EdgeReq' = [EdgeReq EXCEPT ![m] = [key |-> k, hash |-> h, phase |-> "empty"]]
         \/ LoadRaises(m, k, h) /\ EdgeReq' = [EdgeReq EXCEPT ![m] = None]
  PROVE  Contract!Begin(m, k, h)
BY SameOperations DEF Contract!Begin, Contract!Hold, Contract!Release, EdgeReq

LEMMA ContractEvaluate ==
  ASSUME NEW m, EdgeReq[m] # None, NEW b \in Bodies,
         ctx' = [ctx EXCEPT ![m] =
                 IF EdgeReq[m].phase = "empty"
                 THEN [model |-> m, hash |-> EdgeReq[m].hash, body |-> b]
                 ELSE [@ EXCEPT !.body = b]],
         EdgeReq' = [EdgeReq EXCEPT ![m].phase = IF @ = "declared" THEN @ ELSE "advanced"],
         UNCHANGED <<hot_state, hot_dirty, metadata_store, standby_cache, bin, json, now>>
  PROVE  Contract!Evaluate(m)
BY DEF Contract!Evaluate, EdgeReq

LEMMA ContractDeclare ==
  ASSUME NEW m, EdgeReq[m] # None, EdgeReq[m].phase = "advanced", mark_context_dirty,
         EdgeReq' = [EdgeReq EXCEPT ![m].phase = "declared"]
  PROVE  Contract!Declare(m)
BY SameOperations DEF Contract!Declare, EdgeReq

LEMMA ContractSave ==
  ASSUME NEW m, NEW role, EdgeReq[m] # None, EdgeReq[m].phase \in {"advanced", "declared"},
         save_cache(m, EdgeReq[m].key, EdgeReq[m].hash, role),
         EdgeReq' = [EdgeReq EXCEPT ![m].phase = "restored"]
  PROVE  Contract!Save(m, role)
<1>1. Contract!save_cache(m, EdgeReq[m].key, EdgeReq[m].hash, role)
  BY SameOperations
<1>2. QED BY <1>1 DEF Contract!Save, EdgeReq

LEMMA ContractFinish ==
  ASSUME NEW m, EdgeReq[m] # None, EdgeReq[m].phase # "advanced", UNCHANGED cacheVars,
         EdgeReq' = [EdgeReq EXCEPT ![m] = None]
  PROVE  Contract!Finish(m)
BY DEF Contract!Finish, Contract!Release, EdgeReq, Contract!cacheVars, cacheVars

LEMMA ReqOf ==
  ASSUME NEW r \in Requests
  PROVE  /\ lock[model(r)] = r =>
              EdgeReq[model(r)] =
                IF thread[r] = "none" THEN None
                ELSE [key |-> key(r), hash |-> hash(r), phase |-> Phase(r)]
         /\ lock'[model(r)] = r =>
              EdgeReq'[model(r)] =
                IF thread'[r] = "none" THEN None
                ELSE [key |-> key(r), hash |-> hash(r), phase |-> Phase(r)']
         /\ [key |-> key(r), hash |-> hash(r), phase |-> Phase(r)] # None
<1>1. model(r) \in Models /\ key(r) \in Keys /\ hash(r) \in Hashes /\ r # None
  BY TaskType
<1>2. Phase(r) \in Contract!Phases
  BY DEF Phase, Contract!Phases
<1>3. [key |-> key(r), hash |-> hash(r), phase |-> Phase(r)] # None
  BY <1>1, <1>2, ContractAssumption DEF Contract!Request
<1>4. QED BY <1>1, <1>3 DEF EdgeReq

LEMMA ReqIsFunction ==
  EdgeReq = [m \in Models |-> EdgeReq[m]] /\ EdgeReq' = [m \in Models |-> EdgeReq'[m]]
BY DEF EdgeReq

LEMMA BeginIsNext ==
  ASSUME NEW r \in Requests, Contract!Begin(model(r), key(r), hash(r))
  PROVE  Contract!Next
<1> DEFINE u == <<model(r), key(r), hash(r)>>
<1>1. u \in {<<model(q), key(q), hash(q)>> : q \in Requests}
  OBVIOUS
<1>2. Contract!Begin(u[1], u[2], u[3])
  OBVIOUS
<1> HIDE DEF u
<1>3. QED BY <1>1, <1>2 DEF Contract!Next

\* A step is a step of the request on its own model.
LEMMA ReqElsewhere ==
  ASSUME EdgeTypeOK, LocksHeld, NEW r \in Requests, Caller(r) \/ Thread(r)
  PROVE  EdgeReq' = [EdgeReq EXCEPT ![model(r)] = EdgeReq'[model(r)]]
<1>1. \A q \in Requests \ {r} : caller'[q] = caller[q] /\ thread'[q] = thread[q]
  BY LocalSteps DEF Local
<1>2. ASSUME NEW m \in Models \ {model(r)} PROVE EdgeReq'[m] = EdgeReq[m]
  <2>1. lock'[m] = lock[m] /\ lock[m] \in Requests \cup {None}
    BY LocalSteps DEF Local, EdgeTypeOK
  <2>2. CASE lock[m] = None
    BY <2>1, <2>2 DEF EdgeReq
  <2>3. CASE lock[m] # None
    <3>1. lock[m] \in Requests \ {r}
      BY <2>1, <2>3 DEF LocksHeld
    <3>2. thread'[lock[m]] = thread[lock[m]] /\ caller'[lock[m]] = caller[lock[m]]
      BY <1>1, <3>1
    <3>3. QED BY <2>1, <3>2 DEF EdgeReq, Phase, key, hash
  <2>4. QED BY <2>2, <2>3
<1>3. QED BY <1>2, ReqIsFunction, TaskType

LEMMA ContractStep ==
  ASSUME Cautious, EdgeTypeOK, LocksHeld, ThreadsJoined, LocksHeld',
         NEW r \in Requests, Caller(r) \/ Thread(r)
  PROVE  Contract!Next \/ UNCHANGED Contract!vars
<1> DEFINE m == model(r)
           next == EdgeReq'[m]
           of(p) == [key |-> key(r), hash |-> hash(r), phase |-> p]
<1>1. /\ m \in Models /\ key(r) \in Keys /\ hash(r) \in Hashes /\ r # None
      /\ caller \in [Requests -> CallerStates] /\ thread \in [Requests -> ThreadStates]
      /\ lock \in [Models -> Requests \cup {None}]
      /\ TypeOK
  BY TaskType DEF EdgeTypeOK
<1>2. /\ EdgeReq' = [EdgeReq EXCEPT ![m] = next]
      /\ EdgeReq = [i \in Models |-> EdgeReq[i]]
  BY ReqElsewhere, ReqIsFunction
<1>3. /\ ~ save_cache_fails(key(r)) /\ ~ TimeOut(r) /\ ~ EvalRaises(r)
  BY DEF save_cache_fails, promote_to_standby_fails, save_to_ssd_fails, TimeOut,
         EvalRaises, Cautious
<1>4. caller[r] \in Holding => lock[m] = r
  BY DEF LocksHeld
<1>5. caller'[r] \in Holding => lock'[m] = r
  BY DEF LocksHeld
<1>6. ASSUME Contract!Begin(m, key(r), hash(r)) PROVE Contract!Next
  BY <1>6, BeginIsNext
<1>7. CASE Enter(r)
  <2>1. EdgeReq[m] = None
    BY <1>1, <1>7 DEF Enter, EdgeReq
  <2>2. lock'[m] = r /\ thread[r] = "none"
    BY <1>1, <1>7 DEF Enter, ThreadsJoined
  <2>3. CASE LoadHits(m, key(r), hash(r)) /\ Moves(r, "hit")
    <3>1. thread'[r] = "hit" /\ caller'[r] = "running"
      BY <1>1, <1>7, <2>2, <2>3 DEF Enter, CallerIs, Moves
    <3>2. Phase(r)' = "restored"
      BY <3>1 DEF Phase
    <3>3. next = of("restored")
      BY <2>2, <3>1, <3>2, ReqOf
    <3>4. QED BY <1>2, <1>6, <2>1, <2>3, <3>3, ContractBegin
  <2>4. CASE LoadMisses(m, key(r), hash(r)) /\ Moves(r, "fresh")
    <3>1. thread'[r] = "fresh" /\ caller'[r] = "running"
      BY <1>1, <1>7, <2>2, <2>4 DEF Enter, CallerIs, Moves
    <3>2. Phase(r)' = "empty"
      BY <3>1 DEF Phase
    <3>3. next = of("empty")
      BY <2>2, <3>1, <3>2, ReqOf
    <3>4. QED BY <1>2, <1>6, <2>1, <2>4, <3>3, ContractBegin
  <2>5. CASE LoadRaises(m, key(r), hash(r)) /\ UNCHANGED thread
    <3>1. next = None
      BY <2>2, <2>5, ReqOf
    <3>2. QED BY <1>2, <1>6, <2>1, <2>5, <3>1, ContractBegin
  <2>6. QED BY <1>7, <2>3, <2>4, <2>5 DEF Enter
<1>8. ASSUME caller[r] \in Holding, caller'[r] \in Holding,
             thread[r] # "none", thread'[r] # "none"
      PROVE  EdgeReq[m] = of(Phase(r)) /\ EdgeReq[m] # None /\ next = of(Phase(r)')
  BY <1>4, <1>5, <1>8, ReqOf
<1>9. ASSUME EdgeReq[m] = of(Phase(r)), EdgeReq[m] # None, next = of(Phase(r)')
      PROVE  /\ EdgeReq' = [EdgeReq EXCEPT ![m].phase = Phase(r)']
             /\ EdgeReq[m].key = key(r) /\ EdgeReq[m].hash = hash(r)
             /\ EdgeReq[m].phase = Phase(r)
             /\ Phase(r)' = Phase(r) => EdgeReq' = EdgeReq
  <2>1. of(Phase(r)') = [of(Phase(r)) EXCEPT !.phase = Phase(r)']
    OBVIOUS
  <2>2. EdgeReq' = [EdgeReq EXCEPT ![m] = [EdgeReq[m] EXCEPT !.phase = Phase(r)']]
    BY <1>2, <1>9, <2>1
  <2>3. Phase(r)' = Phase(r) => EdgeReq' = EdgeReq
    BY <1>1, <1>2, <1>9
  <2>4. QED BY <1>9, <2>2, <2>3
<1>10. CASE Join(r)
  <2>1. /\ caller[r] = "running" /\ caller'[r] \in {"leaving", "failing"}
        /\ thread[r] \in {"finished", "failed"} /\ thread' = thread
    BY <1>1, <1>10 DEF Join, CallerIs
  <2>2. EdgeReq[m] = of(Phase(r)) /\ EdgeReq[m] # None /\ next = of(Phase(r)')
    BY <1>8, <2>1 DEF Holding
  <2>3. Phase(r) = "declared"
    BY <2>1 DEF Phase
  <2>4. CASE UNCHANGED cacheVars /\ Phase(r)' = "declared"
    <3>1. EdgeReq' = EdgeReq
      BY <1>9, <2>2, <2>3, <2>4
    <3>2. QED BY <2>4, <3>1 DEF Contract!vars, cacheVars, EdgeReq
  <2>5. ASSUME NEW role \in Roles, save_cache(m, key(r), hash(r), role),
               Phase(r)' = "restored"
        PROVE  Contract!Next
    <3>1. Contract!Save(m, role)
      BY <1>9, <2>2, <2>3, <2>5, ContractSave
    <3>2. QED BY <1>1, <3>1 DEF Contract!Next
  <2>6. CASE thread[r] = "finished" /\ ~ Task[r].prefix /\ caller'[r] = "leaving"
    <3>1. Phase(r)' = "restored"
      BY <2>1, <2>6 DEF Phase
    <3>2. QED BY <1>1, <1>3, <1>10, <2>5, <2>6, <3>1 DEF Join, CallerIs
  <2>7. CASE ~ (thread[r] = "finished" /\ ~ Task[r].prefix /\ caller'[r] = "leaving")
    <3>1. UNCHANGED cacheVars
      BY <1>1, <1>3, <1>10, <2>7 DEF Join, CallerIs
    <3>2. Phase(r)' = "declared"
      BY <1>1, <1>3, <1>10, <2>1, <2>7 DEF Phase, Join, CallerIs
    <3>3. QED BY <2>4, <3>1, <3>2
  <2>8. QED BY <2>6, <2>7
<1>11. CASE Leave(r)
  <2>1. /\ caller[r] \in {"leaving", "failing"} /\ lock' = [lock EXCEPT ![m] = None]
        /\ UNCHANGED cacheVars /\ thread' = thread
    BY <1>11 DEF Leave
  <2>2. next = None
    BY <1>1, <2>1 DEF EdgeReq
  <2>3. CASE thread[r] = "none"
    <3>1. EdgeReq[m] = None
      BY <1>4, <2>1, <2>3, ReqOf DEF Holding
    <3>2. EdgeReq' = EdgeReq
      BY <1>1, <1>2, <2>2, <3>1
    <3>3. QED BY <2>1, <3>2 DEF Contract!vars, cacheVars, EdgeReq
  <2>4. CASE thread[r] # "none"
    <3>1. EdgeReq[m] = of(Phase(r)) /\ EdgeReq[m] # None
      BY <1>4, <2>1, <2>4, ReqOf DEF Holding
    <3>2. thread[r] \notin Active
      BY <2>1 DEF ThreadsJoined
    <3>3. Phase(r) # "advanced"
      BY <1>1, <3>2 DEF Phase, Active
    <3>4. Contract!Finish(m)
      BY <1>2, <2>1, <2>2, <3>1, <3>3, ContractFinish
    <3>5. QED BY <1>1, <3>4 DEF Contract!Next
  <2>5. QED BY <2>3, <2>4
<1>12. ASSUME Thread(r)
       PROVE  /\ EdgeReq[m] = of(Phase(r)) /\ EdgeReq[m] # None
              /\ next = of(Phase(r)')
              /\ caller[r] = "running" /\ caller' = caller
  <2>1. thread[r] \in Active /\ thread'[r] # "none" /\ UNCHANGED caller
    BY <1>1, <1>12 DEF Thread, Prefill, SavePrefix, Suffix, EvalRaises, MarkDirty,
                       Generate, OnlyContext, Moves, Active
  <2>2. caller[r] = "running"
    BY <2>1 DEF ThreadsJoined
  <2>3. QED BY <1>8, <2>1, <2>2 DEF Holding, Active
<1>13. ASSUME NEW b \in Bodies, Thread(r),
              OnlyContext(r, IF Phase(r) = "empty" THEN Fresh(r, b)
                             ELSE [ctx[m] EXCEPT !.body = b]),
              Phase(r)' = IF Phase(r) = "declared" THEN "declared" ELSE "advanced"
       PROVE  Contract!Next
  <2>1. EdgeReq' = [EdgeReq EXCEPT ![m].phase = IF @ = "declared" THEN @ ELSE "advanced"]
    BY <1>2, <1>9, <1>12, <1>13
  <2>2. EdgeReq[m].hash = hash(r) /\ EdgeReq[m].phase = Phase(r) /\ EdgeReq[m] # None
    BY <1>9, <1>12, <1>13
  <2>3. ctx' = [ctx EXCEPT ![m] = IF EdgeReq[m].phase = "empty"
                                  THEN [model |-> m, hash |-> EdgeReq[m].hash, body |-> b]
                                  ELSE [@ EXCEPT !.body = b]]
    BY <1>1, <1>13, <2>2 DEF OnlyContext, Fresh, TypeOK
  <2>4. UNCHANGED <<hot_state, hot_dirty, metadata_store, standby_cache, bin, json, now>>
    BY <1>13 DEF OnlyContext
  <2>5. Contract!Evaluate(m)
    BY <2>1, <2>2, <2>3, <2>4, ContractEvaluate
  <2>6. QED BY <1>1, <2>5 DEF Contract!Next
<1>14. /\ {} \in Bodies /\ {r} \in Bodies /\ ctx[m].body \cup {r} \in Bodies
       /\ ctx[m] \in Snapshot
  BY <1>1, EdgeAssumption DEF TypeOK, Snapshot
<1>15. CASE Prefill(r)
  <2>1. Phase(r) = "empty" /\ Phase(r)' = "advanced"
    BY <1>1, <1>12, <1>15 DEF Prefill, Phase, Moves, Thread
  <2>2. QED BY <1>13, <1>14, <1>15, <2>1 DEF Prefill, Thread
<1>16. CASE Suffix(r)
  <2>1. Phase(r) = "restored" /\ Phase(r)' = "advanced"
    BY <1>1, <1>12, <1>16 DEF Suffix, Phase, Moves, Thread
  <2>2. QED BY <1>13, <1>14, <1>16, <2>1 DEF Suffix, Thread, Extended
<1>17. CASE Generate(r)
  <2>1. caller[r] = "running" /\ caller' = caller
    BY <1>12, <1>17 DEF Thread
  <2>2. Phase(r) = "declared" /\ Phase(r)' = "declared"
    BY <1>1, <1>17, <2>1 DEF Generate, Phase, Moves
  <2>3. QED BY <1>13, <1>14, <1>17, <2>2 DEF Generate, Thread, Extended
<1>18. CASE MarkDirty(r)
  <2>1. Phase(r) = "advanced" /\ mark_context_dirty /\ thread'[r] = "marked"
        /\ caller[r] = "running" /\ caller' = caller
    BY <1>1, <1>12, <1>18 DEF MarkDirty, Phase, Moves, Thread
  <2>2. Phase(r)' = "declared"
    BY <2>1 DEF Phase
  <2>3. Contract!Declare(m)
    BY <1>9, <1>12, <1>18, <2>1, <2>2, ContractDeclare DEF Thread
  <2>4. QED BY <1>1, <2>3 DEF Contract!Next
<1>19. CASE SavePrefix(r)
  <2>1. Phase(r) = "advanced"
    BY <1>12, <1>19 DEF SavePrefix, Phase, Thread
  <2>2. PICK role \in Roles : save_cache(m, key(r), hash(r), role) /\ Moves(r, "saved")
    BY <1>3, <1>19 DEF SavePrefix
  <2>3. Phase(r)' = "restored"
    BY <1>1, <2>2 DEF Phase, Moves
  <2>4. Contract!Save(m, role)
    BY <1>9, <1>12, <1>19, <2>1, <2>2, <2>3, ContractSave DEF Thread
  <2>5. QED BY <1>1, <2>4 DEF Contract!Next
<1>20. QED
  BY <1>3, <1>7, <1>10, <1>11, <1>15, <1>16, <1>17, <1>18, <1>19 DEF Caller, Thread

LEMMA ContractInit == Init => Contract!Init
<1>1. Init => EdgeReq = [m \in Models |-> None]
  BY DEF Init, EdgeReq
<1>2. QED BY <1>1, SameOperations DEF Init, Contract!Init, EdgeReq

\* Without evaluation errors, failing saves and the watchdog, the dispatcher and
\* its threads are, for any requests on any models, a client that keeps the
\* contract of the cache.
THEOREM EdgeKeepsContract == ASSUME Cautious PROVE Spec => KeepsContract
<1>1. NoWatchdog
  BY DEF Cautious, NoWatchdog
<1>2. EdgeTypeOK /\ LocksHeld /\ LocksHeld' /\ ThreadsJoined /\ [Next]_edgeVars
      => [Contract!Next]_(Contract!vars)
  <2>1. UNCHANGED edgeVars => UNCHANGED Contract!vars
    BY DEF edgeVars, Contract!vars, Phase
  <2>2. QED BY <2>1, ContractStep DEF Next, Quiet
<1>3. QED
  BY <1>1, <1>2, ContractInit, EdgeTypeCorrect, LocksCorrect, ThreadsCorrect, PTL
  DEF Spec, KeepsContract, Contract!Spec

----------------------------------------------------------------------------
(* What the cache gives to a client that keeps its contract.               *)

Cache == INSTANCE HotProofs WITH
  Uses <- {<<model(r), key(r), hash(r)>> : r \in Requests},
  req <- [m \in Models |->
            IF lock[m] = None \/ thread[lock[m]] = "none" THEN None
            ELSE [key |-> key(lock[m]), hash |-> hash(lock[m]),
                  phase |-> Phase(lock[m])]]

\* What the cache and its client assume of their constants holds here.
LEMMA CacheAssumptions ==
  /\ Cache!IsFiniteSet(Keys)
  /\ BodySize \in [Bodies -> Nat]
  /\ MaxRam \in Nat /\ MaxTime \in Nat
  /\ Faults \subseteq {"decode", "load_state", "save_state", "ssd_write", "crash"}
  /\ None # Torn
  /\ None \notin Keys
  /\ {None, Torn} \cap (Cache!Snapshot \cup Cache!CacheStateMetadata) = {}
  /\ {<<model(r), key(r), hash(r)>> : r \in Requests} \subseteq Models \X Keys \X Hashes
  /\ None \notin Cache!Request
<1>1. Cache!IsFiniteSet(Keys)
  BY KeysAssumption DEF IsFiniteSet, Cache!IsFiniteSet
<1>2. Cache!Snapshot = Snapshot /\ Cache!CacheStateMetadata = CacheStateMetadata
  BY DEF Cache!Snapshot, Snapshot, Cache!CacheStateMetadata, CacheStateMetadata
<1>3. {<<model(r), key(r), hash(r)>> : r \in Requests} \subseteq Models \X Keys \X Hashes
  BY TaskType
<1>4. None \notin Cache!Request
  BY ContractAssumption
  DEF Cache!Request, Cache!Phases, Contract!Request, Contract!Phases
<1>5. QED
  BY <1>1, <1>2, <1>3, <1>4, SizeAssumption, BoundsAssumption, FaultsAssumption,
     NullAssumption

LEMMA SameSpec == Contract!Spec => Cache!Spec
<1>1. Contract!Init => Cache!Init
  BY DEF Contract!Init, Cache!Init, Contract!vars, Cache!vars, Contract!CacheInit,
         Cache!CacheInit, Contract!Snapshot, Cache!Snapshot
<1>2. Contract!Next => Cache!Next
  BY DEF Contract!Snapshot, Cache!Snapshot, Contract!CacheStateMetadata,
         Cache!CacheStateMetadata, Contract!len, Cache!len, Contract!cacheVars,
         Cache!cacheVars, Contract!files, Cache!files, Contract!Resident,
         Cache!Resident, Contract!ROLE_PRIORITIES, Cache!ROLE_PRIORITIES,
         Contract!Weight, Cache!Weight, Contract!compute_eviction_score,
         Cache!compute_eviction_score, Contract!Score, Cache!Score,
         Contract!select_eviction_victim, Cache!select_eviction_victim,
         Contract!MustEvict, Cache!MustEvict, Contract!save_to_ssd,
         Cache!save_to_ssd, Contract!save_to_ssd_fails, Cache!save_to_ssd_fails,
         Contract!promote_to_standby, Cache!promote_to_standby,
         Contract!promote_to_standby_fails, Cache!promote_to_standby_fails,
         Contract!Cardinality, Cache!Cardinality, Contract!BecomesHot,
         Cache!BecomesHot, Contract!load_from_ssd_accepts,
         Cache!load_from_ssd_accepts, Contract!ColdMatches, Cache!ColdMatches,
         Contract!Touch, Cache!Touch, Contract!Mismatch, Cache!Mismatch,
         Contract!ServesHot, Cache!ServesHot, Contract!LoadMismatch,
         Cache!LoadMismatch, Contract!LoadHot, Cache!LoadHot, Contract!FromStandby,
         Cache!FromStandby, Contract!LoadStandby, Cache!LoadStandby,
         Contract!deserialize_llama_state_fails,
         Cache!deserialize_llama_state_fails, Contract!LoadStandbyFails,
         Cache!LoadStandbyFails, Contract!FromCold, Cache!FromCold,
         Contract!LoadCold, Cache!LoadCold, Contract!LoadColdNoRoom,
         Cache!LoadColdNoRoom, Contract!LoadColdFails, Cache!LoadColdFails,
         Contract!LoadColdRejected, Cache!LoadColdRejected, Contract!LoadAbsent,
         Cache!LoadAbsent, Contract!LoadHits, Cache!LoadHits, Contract!LoadMisses,
         Cache!LoadMisses, Contract!LoadRaises, Cache!LoadRaises,
         Contract!NewMetadata, Cache!NewMetadata, Contract!save_cache,
         Cache!save_cache, Contract!save_cache_fails, Cache!save_cache_fails,
         Contract!mark_context_dirty, Cache!mark_context_dirty,
         Contract!save_to_ssd_torn, Cache!save_to_ssd_torn, Contract!Tick,
         Cache!Tick, Contract!Restart, Cache!Restart, Contract!CacheInit,
         Cache!CacheInit, Contract!vars, Cache!vars, Contract!Phases, Cache!Phases,
         Contract!Request, Cache!Request, Contract!Init, Cache!Init, Contract!Hold,
         Cache!Hold, Contract!Release, Cache!Release, Contract!Begin, Cache!Begin,
         Contract!Evaluate, Cache!Evaluate, Contract!Declare, Cache!Declare,
         Contract!Save, Cache!Save, Contract!Finish, Cache!Finish, Contract!Crash,
         Cache!Crash, Contract!Time, Cache!Time, Contract!Next, Cache!Next
<1>3. Contract!vars = Cache!vars /\ Contract!vars' = Cache!vars'
  BY DEF Contract!vars, Cache!vars
<1>4. [Contract!Next]_(Contract!vars) => [Cache!Next]_(Cache!vars)
  BY <1>2, <1>3
<1>5. QED BY <1>1, <1>4, PTL DEF Contract!Spec, Cache!Spec

LEMMA CacheIsKept == ASSUME Cautious, Cache!Whole PROVE Spec => []Cache!IInv
<1>1. Spec => Contract!Spec
  BY EdgeKeepsContract DEF KeepsContract
<1>2. Cache!Spec => []Cache!IInv
  BY CacheAssumptions, Cache!IInvCorrect
<1>3. QED BY <1>1, <1>2, SameSpec, PTL

\* A task that would be served HOT finds its own state in the model, on the real
\* dispatcher with its threads.
THEOREM EdgeHotCorrect ==
  ASSUME Cautious, Cache!Whole PROVE Spec => []Contract!HotIsLossless
<1>1. Cache!HotIsLossless => Contract!HotIsLossless
  BY DEF Cache!HotIsLossless, Contract!HotIsLossless, Cache!Mismatch, Contract!Mismatch,
         Cache!ServesHot, Contract!ServesHot, Cache!Held, Contract!Held
<1>2. Spec => Contract!Spec
  BY EdgeKeepsContract DEF KeepsContract
<1>3. Cache!Spec => []Cache!HotIsLossless
  BY CacheAssumptions, Cache!HotCorrect
<1>4. QED BY <1>1, <1>2, <1>3, SameSpec, PTL

----------------------------------------------------------------------------
(* Whose tokens an answer is generated from.                               *)

\* What a request that is served finds in the model is what is stored for it.
Served(r) ==
  /\ ctx'[model(r)] \in {standby_cache[key(r)], bin[key(r)]}
  /\ ctx'[model(r)].model = model(r) /\ ctx'[model(r)].hash = hash(r)

LEMMA HitIsServed ==
  ASSUME EdgeTypeOK, Cache!IInv, NEW r \in Requests, lock[model(r)] = None,
         LoadHits(model(r), key(r), hash(r))
  PROVE  Served(r)
<1> DEFINE m == model(r)
           k == key(r)
<1>1. /\ m \in Models /\ k \in Keys /\ ctx \in [Models -> Snapshot]
      /\ standby_cache \in [Keys -> Snapshot \cup {None}]
      /\ hot_state \in Keys \cup {None}
  BY TaskType DEF EdgeTypeOK, TypeOK
<1>2. /\ standby_cache[k] # None =>
           /\ metadata_store[k] # None
           /\ metadata_store[k].model_tag = standby_cache[k].model
           /\ metadata_store[k].prompt_hash = standby_cache[k].hash
      /\ load_from_ssd_accepts(k) =>
           json[k].model_tag = bin[k].model /\ json[k].prompt_hash = bin[k].hash
  <2>1. Cache!load_from_ssd_accepts(k) <=> load_from_ssd_accepts(k)
    BY DEF Cache!load_from_ssd_accepts, load_from_ssd_accepts, Cache!len, len,
           Cache!Snapshot, Snapshot, Cache!CacheStateMetadata, CacheStateMetadata
  <2>2. QED
    BY <1>1, <2>1 DEF Cache!IInv, Cache!HotInv, Cache!TagsAgree, Cache!PairsAgree,
                      Cache!Resident, Cache!Describes
<1>3. CASE LoadHot(m, k, hash(r))
  <2>1. /\ ~ Mismatch(m, k, hash(r)) /\ hot_state = k /\ ~ hot_dirty /\ ctx' = ctx
    BY <1>3 DEF LoadHot, ServesHot
  <2>2. k # None
    BY <1>1, NullLemma
  <2>3. /\ Cache!Describes(metadata_store[k], Cache!Held(k))
        /\ \/ EdgeReq[metadata_store[k].model_tag] = None
              /\ ctx[metadata_store[k].model_tag] = Cache!Held(k)
           \/ EdgeReq[metadata_store[k].model_tag] # None
    BY <2>1, <2>2 DEF Cache!IInv, Cache!HotInv, Cache!HotIsResident, EdgeReq
  <2>4. metadata_store[k] # None /\ metadata_store[k].model_tag = m
        /\ metadata_store[k].prompt_hash = hash(r)
    BY <2>1, <2>3 DEF Cache!Describes, Mismatch
  <2>5. EdgeReq[m] = None
    BY <1>1 DEF EdgeReq
  <2>6. ctx[m] = Cache!Held(k) /\ ctx[m].model = m /\ ctx[m].hash = hash(r)
    BY <2>3, <2>4, <2>5 DEF Cache!Describes
  <2>7. QED BY <2>1, <2>6 DEF Cache!Held, Served
<1>4. CASE LoadStandby(m, k, hash(r))
  BY <1>1, <1>2, <1>4 DEF LoadStandby, FromStandby, Mismatch, Served
<1>5. CASE LoadCold(m, k, hash(r))
  BY <1>1, <1>2, <1>5 DEF LoadCold, FromCold, ColdMatches, Served
<1>6. QED BY <1>3, <1>4, <1>5 DEF LoadHits

\* The turns of one session on one prompt.
Turns(r) == {q \in Requests : Task[q] = Task[r]}

\* What a request may find in a context before its own tokens.
Base(r) == IF Task[r].prefix THEN {} ELSE Turns(r)

Belongs(s, r, b) == s.model = model(r) /\ s.hash = hash(r) /\ s.body \subseteq b

SessionsOwned ==
  \A r \in Requests : ~ Task[r].prefix =>
    \A s \in {standby_cache[key(r)], bin[key(r)]} :
      s \in Snapshot /\ s.model = model(r) /\ s.hash = hash(r) => s.body \subseteq Turns(r)

ContextOwn(r) ==
  LET c == ctx[model(r)]
  IN  /\ thread[r] = "hit" => Belongs(c, r, Base(r))
      /\ thread[r] = "saved" => Belongs(c, r, {})
      /\ thread[r] \in {"evaluated", "marked"} =>
           Belongs(c, r, Base(r) \cup {r}) /\ r \in c.body
      /\ thread[r] = "finished" =>
           Belongs(answer[r], r, Base(r) \cup {r}) /\ r \in answer[r].body
      /\ thread[r] = "finished" /\ caller[r] = "running" =>
           Belongs(c, r, Base(r) \cup {r})

OwnInv == SessionsOwned /\ \A r \in Requests : ContextOwn(r)

LEMMA ShiftsOwned ==
  ASSUME SessionsOwned, NEW K \in SUBSET Keys, \A j \in K : Shifts(j),
         NEW q \in Requests, ~ Task[q].prefix, key(q) \in K,
         NEW s \in {standby_cache'[key(q)], bin'[key(q)]}, s \in Snapshot,
         s.model = model(q), s.hash = hash(q)
  PROVE  s.body \subseteq Turns(q)
BY NullLemma DEF SessionsOwned, Shifts

LEMMA SessionsStep ==
  ASSUME EdgeTypeOK, SessionsOwned, ThreadsJoined, PrefixFresh, NEW r \in Requests,
         ContextOwn(r), Caller(r) \/ Thread(r)
  PROVE  SessionsOwned'
<1>1. model(r) \in Models /\ key(r) \in Keys /\ hash(r) \in Hashes /\ TypeOK
  BY TaskType DEF EdgeTypeOK
<1>2. ASSUME \A j \in Keys : Shifts(j) PROVE SessionsOwned'
  BY <1>2, ShiftsOwned, TaskType DEF SessionsOwned, Turns, model, key, hash
<1>3. ASSUME NEW role \in Roles, save_cache(model(r), key(r), hash(r), role),
             ~ Task[r].prefix => Belongs(ctx[model(r)], r, Turns(r))
      PROVE  SessionsOwned'
  <2>1. /\ \A j \in Keys \ {key(r)} : Shifts(j)
        /\ standby_cache'[key(r)] = ctx[model(r)] /\ bin'[key(r)] = bin[key(r)]
    BY <1>1, <1>3, SaveShifts
  <2>2. SUFFICES ASSUME NEW q \in Requests, ~ Task[q].prefix,
                        NEW s \in {standby_cache'[key(q)], bin'[key(q)]}, s \in Snapshot,
                        s.model = model(q), s.hash = hash(q)
                 PROVE  s.body \subseteq Turns(q)
    BY DEF SessionsOwned, Turns, model, key, hash
  <2>3. CASE key(q) # key(r)
    BY <2>1, <2>2, <2>3, ShiftsOwned, TaskType
  <2>4. CASE key(q) = key(r) /\ s = bin[key(q)]
    BY <2>2, <2>4 DEF SessionsOwned
  <2>5. CASE key(q) = key(r) /\ s = ctx[model(r)]
    <3>1. ~ Task[r].prefix
      BY <2>2, <2>5, PrefixKeyAssumption DEF key
    <3>2. Belongs(s, r, Turns(r))
      BY <1>3, <2>5, <3>1
    <3>3. Task[q] = Task[r]
      BY <2>2, <2>5, <3>1, <3>2, EdgeAssumption DEF Belongs, model, key, hash
    <3>4. QED BY <3>2, <3>3 DEF Belongs, Turns
  <2>6. QED BY <2>1, <2>2, <2>3, <2>4, <2>5
<1>4. CASE Enter(r)
  BY <1>1, <1>2, <1>4, LoadShifts DEF Enter
<1>5. CASE Join(r) /\ ~ UNCHANGED cacheVars
  <2>1. CASE save_cache_fails(key(r))
    BY <1>1, <1>2, <2>1, SaveFailsShifts
  <2>2. CASE ~ save_cache_fails(key(r))
    <3>1. /\ caller[r] = "running" /\ thread[r] = "finished" /\ ~ Task[r].prefix
          /\ \E role \in Roles : save_cache(model(r), key(r), hash(r), role)
      BY <1>5, <2>2 DEF Join
    <3>2. Belongs(ctx[model(r)], r, Turns(r))
      BY <3>1 DEF ContextOwn, Base, Turns, Belongs
    <3>3. QED BY <1>3, <3>1, <3>2
  <2>3. QED BY <2>1, <2>2
<1>6. CASE SavePrefix(r)
  <2>1. CASE save_cache_fails(key(r))
    BY <1>1, <1>2, <2>1, SaveFailsShifts
  <2>2. CASE ~ save_cache_fails(key(r))
    BY <1>3, <1>6, <2>2 DEF SavePrefix, PrefixFresh
  <2>3. QED BY <2>1, <2>2
<1>7. ASSUME UNCHANGED <<standby_cache, bin>> PROVE SessionsOwned'
  BY <1>7, <1>2 DEF Shifts
<1>8. CASE \/ UNCHANGED cacheVars \/ TimeOut(r) \/ Leave(r) \/ MarkDirty(r)
           \/ Prefill(r) \/ Suffix(r) \/ EvalRaises(r) \/ Generate(r)
  BY <1>7, <1>8 DEF TimeOut, Leave, MarkDirty, mark_context_dirty, Prefill, Suffix,
                    EvalRaises, Generate, OnlyContext, cacheVars
<1>9. QED BY <1>4, <1>5, <1>6, <1>8 DEF Caller, Thread

LEMMA ContextStep ==
  ASSUME NoWatchdog, EdgeTypeOK, Cache!IInv, ThreadsJoined, PureInv, SessionsOwned,
         NEW r \in Requests, ContextOwn(r), Caller(r) \/ Thread(r)
  PROVE  ContextOwn(r)'
<1>1. /\ model(r) \in Models /\ key(r) \in Keys /\ hash(r) \in Hashes
      /\ ctx \in [Models -> Snapshot] /\ answer \in [Requests -> Snapshot \cup {None}]
      /\ caller \in [Requests -> CallerStates] /\ thread \in [Requests -> ThreadStates]
      /\ standby_cache \in [Keys -> Snapshot \cup {None}]
      /\ bin \in [Keys -> Snapshot \cup {None, Torn}]
  BY TaskType DEF EdgeTypeOK, TypeOK
<1> DEFINE c == ctx[model(r)]
<1>2. CASE Enter(r)
  <2>1. thread[r] = "none" /\ lock[model(r)] = None
    BY <1>2 DEF Enter, ThreadsJoined
  <2>2. CASE LoadHits(model(r), key(r), hash(r)) /\ Moves(r, "hit")
    <3>1. Served(r) /\ ctx' \in [Models -> Snapshot]
      BY <1>1, <2>1, <2>2, HitIsServed, LoadType DEF EdgeTypeOK, TypeOK
    <3>2. Belongs(ctx'[model(r)], r, Base(r))
      BY <1>1, <3>1
      DEF Served, Belongs, Base, PureInv, SnapshotsArePure, SessionsOwned
    <3>3. QED BY <1>1, <2>2, <3>2 DEF ContextOwn, Moves, Belongs, Base, Turns, model, hash
  <2>3. CASE ~ Moves(r, "hit")
    BY <1>1, <1>2, <2>1, <2>3 DEF Enter, Moves, ContextOwn
  <2>4. QED BY <1>1, <1>2, <2>1, <2>2, <2>3 DEF Enter, Moves
<1>3. CASE Join(r) \/ Leave(r)
  <2>1. /\ UNCHANGED <<thread, answer>> /\ thread[r] \notin Active
        /\ caller'[r] # "running"
    BY <1>1, <1>3 DEF Join, Leave, CallerIs, ThreadsJoined, Active
  <2>2. QED BY <2>1 DEF ContextOwn, Active, Belongs, Base, Turns, model, hash
<1>4. CASE Prefill(r)
  BY <1>1, <1>4 DEF Prefill, OnlyContext, Moves, Fresh, ContextOwn, Belongs, Base, Turns,
                    model, hash
<1>5. CASE SavePrefix(r)
  <2>1. ctx' = ctx /\ (Moves(r, "saved") \/ Moves(r, "failed"))
    BY <1>5 DEF SavePrefix, save_cache, save_cache_fails
  <2>2. Belongs(c, r, {})
    <3>1. thread[r] = "prefixed"
      BY <1>5 DEF SavePrefix
    <3>2. c = Fresh(r, {})
      BY <3>1 DEF PureInv, PrefixFresh
    <3>3. QED BY <3>2 DEF Fresh, Belongs
  <2>3. QED BY <1>1, <2>1, <2>2 DEF Moves, ContextOwn, Belongs, model, hash
<1>6. CASE Suffix(r)
  <2>1. Belongs(c, r, Base(r)) /\ thread'[r] = "evaluated"
    BY <1>1, <1>6 DEF Suffix, Moves, ContextOwn, Belongs
  <2>2. ctx'[model(r)] = [c EXCEPT !.body = @ \cup {r}]
    BY <1>1, <1>6 DEF Suffix, OnlyContext, Extended
  <2>3. c \in Snapshot
    BY <1>1
  <2>4. Belongs(ctx'[model(r)], r, Base(r) \cup {r}) /\ r \in ctx'[model(r)].body
    BY <2>1, <2>2, <2>3 DEF Belongs, Snapshot
  <2>5. QED BY <2>1, <2>4 DEF ContextOwn, Belongs, Base, Turns, model, hash
<1>7. CASE EvalRaises(r)
  BY <1>1, <1>7 DEF EvalRaises, Moves, ContextOwn
<1>8. CASE MarkDirty(r)
  <2>1. ctx' = ctx /\ thread[r] = "evaluated" /\ thread'[r] = "marked"
    BY <1>1, <1>8 DEF MarkDirty, mark_context_dirty, Moves
  <2>2. QED BY <2>1 DEF ContextOwn, Belongs, Base, Turns, model, hash
<1>9. CASE Generate(r)
  <2>1. Belongs(c, r, Base(r) \cup {r}) /\ r \in c.body /\ c \in Snapshot
    BY <1>1, <1>9 DEF Generate, ContextOwn
  <2>2. ctx'[model(r)] = [c EXCEPT !.body = @ \cup {r}]
    BY <1>1, <1>9 DEF Generate, OnlyContext, Extended
  <2>3. Belongs(ctx'[model(r)], r, Base(r) \cup {r})
    BY <2>1, <2>2 DEF Belongs, Snapshot
  <2>4. \/ thread'[r] = "finished" /\ answer'[r] = c
        \/ thread'[r] = "failed"
    BY <1>1, <1>9 DEF Generate, Moves
  <2>5. QED BY <2>1, <2>3, <2>4 DEF ContextOwn, Belongs, Base, Turns, model, hash
<1>10. ~ TimeOut(r)
  BY DEF TimeOut, NoWatchdog
<1>11. QED
  BY <1>2, <1>3, <1>4, <1>5, <1>6, <1>7, <1>8, <1>9, <1>10 DEF Caller, Thread

LEMMA ContextElsewhere ==
  ASSUME EdgeTypeOK, LocksHeld, ThreadsJoined, NEW r \in Requests,
         Caller(r) \/ Thread(r), NEW q \in Requests \ {r}, ContextOwn(q)
  PROVE  ContextOwn(q)'
<1>1. /\ caller'[q] = caller[q] /\ thread'[q] = thread[q] /\ answer'[q] = answer[q]
      /\ caller[q] \in Holding => ctx'[model(q)] = ctx[model(q)]
  BY OthersStay
<1>2. thread[q] \in {"hit", "saved", "evaluated", "marked"} => caller[q] \in Holding
  BY DEF ThreadsJoined, Active, Holding
<1>3. QED
  BY <1>1, <1>2 DEF ContextOwn, Holding, Belongs, Base, Turns, model, hash

\* An answer is generated from the request's own prompt on top of its prefix, or
\* of earlier turns of its session on the same prompt, and of nothing else: for
\* any requests and models, however their threads interleave and however small
\* the RAM tier is.
THEOREM OutputsOwn == ASSUME Cautious, Cache!Whole PROVE Spec => []OutputIsOwn
<1>1. NoWatchdog
  BY DEF Cautious, NoWatchdog
<1>2. Init => OwnInv
  BY TaskType, NullLemma
  DEF Init, CacheInit, OwnInv, SessionsOwned, ContextOwn
<1>3. EdgeTypeOK /\ LocksHeld /\ ThreadsJoined /\ PureInv /\ Cache!IInv /\ OwnInv
      /\ [Next]_edgeVars => OwnInv'
  <2>1. UNCHANGED edgeVars /\ OwnInv => OwnInv'
    BY DEF edgeVars, OwnInv, SessionsOwned, ContextOwn, Belongs, Base, Turns, model, key, hash
  <2>2. ASSUME EdgeTypeOK, LocksHeld, ThreadsJoined, PureInv, Cache!IInv, OwnInv,
               NEW r \in Requests, Caller(r) \/ Thread(r)
        PROVE  OwnInv'
    <3>1. SessionsOwned'
      BY <2>2, SessionsStep DEF OwnInv, PureInv
    <3>2. ContextOwn(r)'
      BY <1>1, <2>2, ContextStep DEF OwnInv
    <3>3. \A q \in Requests \ {r} : ContextOwn(q)'
      BY <2>2, ContextElsewhere DEF OwnInv
    <3>4. QED BY <3>1, <3>2, <3>3 DEF OwnInv
  <2>3. QED BY <2>1, <2>2 DEF Next, Quiet
<1>4. ThreadsJoined /\ OwnInv => OutputIsOwn
  BY DEF ThreadsJoined, OwnInv, ContextOwn, OutputIsOwn, Belongs, Base, Turns
<1>5. Spec => []PureInv
  BY <1>1, PureCorrect
<1>6. Spec => []Cache!IInv
  BY CacheIsKept
<1>7. Spec => []ThreadsJoined
  BY <1>1, ThreadsCorrect
<1>8. QED
  BY <1>2, <1>3, <1>4, <1>5, <1>6, <1>7, EdgeTypeCorrect, LocksCorrect, PTL DEF Spec

=============================================================================
