--------------------------- MODULE KVCacheProofs ---------------------------
(***************************************************************************)
(* What the operations of the cache keep, whoever calls them: one lemma    *)
(* per group of actions for the types and for the invariants that hold     *)
(* whatever fails.  The proofs about the callers rest on these.            *)
(***************************************************************************)
EXTENDS KVCache, FiniteSetTheorems, TLAPS

USE DEF ram, files

LEMMA LenType == ASSUME NEW s \in Snapshot PROVE len(s) \in Nat
BY SizeAssumption DEF len, Snapshot

LEMMA VictimResident ==
  ASSUME NEW v \in select_eviction_victim
  PROVE  v \in Resident /\ v \in Keys
BY DEF select_eviction_victim, Resident

LEMMA PromoteType ==
  ASSUME TypeOK, NEW k \in Keys, NEW state \in Snapshot,
         NEW meta \in CacheStateMetadata, promote_to_standby(k, state, meta)
  PROVE  /\ metadata_store' \in [Keys -> CacheStateMetadata \cup {None}]
         /\ standby_cache' \in [Keys -> Snapshot \cup {None}]
         /\ bin' \in [Keys -> Snapshot \cup {None, Torn}]
         /\ json' \in [Keys -> CacheStateMetadata \cup {None, Torn}]
<1>1. metadata_store' \in [Keys -> CacheStateMetadata \cup {None}]
  BY DEF TypeOK, promote_to_standby
<1>2. CASE ~ MustEvict(k)
  BY <1>1, <1>2 DEF TypeOK, promote_to_standby
<1>3. CASE MustEvict(k)
  <2>1. PICK v \in select_eviction_victim :
             /\ standby_cache' = [standby_cache EXCEPT ![v] = None, ![k] = state]
             /\ IF metadata_store[v] = None THEN UNCHANGED files
                                            ELSE save_to_ssd(v)
    BY <1>3 DEF promote_to_standby
  <2>2. v \in Keys
    BY VictimResident
  <2>3. standby_cache' \in [Keys -> Snapshot \cup {None}]
    BY <2>1, <2>2 DEF TypeOK
  <2>4. bin' \in [Keys -> Snapshot \cup {None, Torn}]
    BY <2>1, <2>2 DEF TypeOK, save_to_ssd
  <2>5. json' \in [Keys -> CacheStateMetadata \cup {None, Torn}]
    BY <2>1, <2>2 DEF TypeOK, save_to_ssd
  <2>6. QED BY <1>1, <2>3, <2>4, <2>5
<1>4. QED BY <1>2, <1>3

LEMMA PromoteFailsType ==
  ASSUME TypeOK, NEW k \in Keys, promote_to_standby_fails(k)
  PROVE  /\ standby_cache' = standby_cache
         /\ bin' \in [Keys -> Snapshot \cup {None, Torn}]
         /\ json' \in [Keys -> CacheStateMetadata \cup {None, Torn}]
<1>1. PICK v \in select_eviction_victim : save_to_ssd_fails(v)
  BY DEF promote_to_standby_fails
<1>2. v \in Keys
  BY VictimResident
<1>3. QED
  BY <1>1, <1>2 DEF TypeOK, promote_to_standby_fails, save_to_ssd_fails

LEMMA TouchType ==
  ASSUME TypeOK, NEW k \in Keys, Touch(k)
  PROVE  metadata_store' \in [Keys -> CacheStateMetadata \cup {None}]
<1>1. CASE metadata_store[k] = None
  BY <1>1 DEF TypeOK, Touch
<1>2. CASE metadata_store[k] # None
  <2>1. metadata_store[k] \in CacheStateMetadata
    BY <1>2 DEF TypeOK
  <2>2. [metadata_store[k] EXCEPT !.last_accessed = now] \in CacheStateMetadata
    BY <2>1 DEF TypeOK, CacheStateMetadata
  <2>3. QED BY <1>2, <2>2 DEF TypeOK, Touch
<1>3. QED BY <1>1, <1>2

LEMMA DeserializeFailsType ==
  ASSUME TypeOK, NEW m \in Models, deserialize_llama_state_fails(m)
  PROVE  ctx' \in [Models -> Snapshot]
BY DEF TypeOK, deserialize_llama_state_fails

(***************************************************************************)
(* The type invariant, one lemma per group of actions.                     *)
(***************************************************************************)
LEMMA LoadType ==
  ASSUME TypeOK, NEW m \in Models, NEW k \in Keys, NEW h \in Hashes,
         LoadHits(m, k, h) \/ LoadMisses(m, k, h) \/ LoadRaises(m, k, h)
  PROVE  TypeOK'
<1>1. CASE LoadHot(m, k, h)
  BY <1>1, TouchType DEF TypeOK, LoadHot
<1>2. CASE LoadStandby(m, k, h)
  <2>1. standby_cache[k] \in Snapshot
    BY <1>2 DEF LoadStandby, FromStandby, TypeOK
  <2>2. Touch(k)
    BY <1>2 DEF LoadStandby
  <2>3. metadata_store' \in [Keys -> CacheStateMetadata \cup {None}]
    BY <2>2, TouchType
  <2>4. QED
    BY <1>2, <2>1, <2>3 DEF TypeOK, LoadStandby, BecomesHot
<1>3. CASE LoadCold(m, k, h)
  <2>1. bin[k] \in Snapshot /\ json[k] \in CacheStateMetadata
    BY <1>3 DEF LoadCold, ColdMatches, load_from_ssd_accepts
  <2>2. [json[k] EXCEPT !.last_accessed = now] \in CacheStateMetadata
    BY <2>1 DEF TypeOK, CacheStateMetadata
  <2>3. promote_to_standby(k, bin[k], [json[k] EXCEPT !.last_accessed = now])
    BY <1>3 DEF LoadCold
  <2>4. /\ metadata_store' \in [Keys -> CacheStateMetadata \cup {None}]
        /\ standby_cache' \in [Keys -> Snapshot \cup {None}]
        /\ bin' \in [Keys -> Snapshot \cup {None, Torn}]
        /\ json' \in [Keys -> CacheStateMetadata \cup {None, Torn}]
    BY <2>1, <2>2, <2>3, PromoteType
  <2>5. QED
    BY <1>3, <2>1, <2>4 DEF TypeOK, LoadCold, BecomesHot
<1>4. CASE LoadMisses(m, k, h) \/ LoadColdRejected(m, k, h)
  BY <1>4 DEF TypeOK, LoadMisses, LoadMismatch, LoadAbsent, LoadColdRejected,
              cacheVars
<1>5. CASE LoadStandbyFails(m, k, h)
  BY <1>5, DeserializeFailsType DEF TypeOK, LoadStandbyFails
<1>6. CASE LoadColdNoRoom(m, k, h)
  <2>1. bin[k] \in Snapshot /\ json[k] \in CacheStateMetadata
    BY <1>6 DEF LoadColdNoRoom, ColdMatches, load_from_ssd_accepts
  <2>2. promote_to_standby_fails(k)
    BY <1>6 DEF LoadColdNoRoom
  <2>3. /\ standby_cache' = standby_cache
        /\ bin' \in [Keys -> Snapshot \cup {None, Torn}]
        /\ json' \in [Keys -> CacheStateMetadata \cup {None, Torn}]
    BY <2>2, PromoteFailsType
  <2>4. QED
    BY <1>6, <2>1, <2>3 DEF TypeOK, LoadColdNoRoom, BecomesHot
<1>7. CASE LoadColdFails(m, k, h)
  BY <1>7, DeserializeFailsType DEF TypeOK, LoadColdFails
<1>8. QED
  BY <1>1, <1>2, <1>3, <1>4, <1>5, <1>6, <1>7 DEF LoadHits, LoadRaises

LEMMA SaveFailsType ==
  ASSUME TypeOK, NEW k \in Keys, save_cache_fails(k)
  PROVE  TypeOK'
<1>1. CASE UNCHANGED <<standby_cache, bin, json>>
  BY <1>1 DEF TypeOK, save_cache_fails
<1>2. CASE promote_to_standby_fails(k)
  BY <1>2, PromoteFailsType DEF TypeOK, save_cache_fails
<1>3. QED BY <1>1, <1>2 DEF save_cache_fails

LEMMA SaveType ==
  ASSUME TypeOK, NEW m \in Models, NEW k \in Keys, NEW h \in Hashes,
         NEW r \in Roles, save_cache(m, k, h, r)
  PROVE  TypeOK'
<1>1. ctx[m] \in Snapshot
  BY DEF TypeOK
<1>2. NewMetadata(m, h, r) \in CacheStateMetadata
  BY <1>1, LenType DEF NewMetadata, CacheStateMetadata, TypeOK
<1>3. promote_to_standby(k, ctx[m], NewMetadata(m, h, r))
  BY DEF save_cache
<1>4. /\ metadata_store' \in [Keys -> CacheStateMetadata \cup {None}]
      /\ standby_cache' \in [Keys -> Snapshot \cup {None}]
      /\ bin' \in [Keys -> Snapshot \cup {None, Torn}]
      /\ json' \in [Keys -> CacheStateMetadata \cup {None, Torn}]
  BY <1>1, <1>2, <1>3, PromoteType
<1>5. QED
  BY <1>4 DEF TypeOK, save_cache, BecomesHot

LEMMA CacheInitType == CacheInit => TypeOK
<1>1. SUFFICES ASSUME CacheInit PROVE TypeOK
  OBVIOUS
<1>2. 0 \in 0..MaxTime
  BY BoundsAssumption
<1>3. /\ metadata_store \in [Keys -> CacheStateMetadata \cup {None}]
      /\ standby_cache \in [Keys -> Snapshot \cup {None}]
      /\ bin \in [Keys -> Snapshot \cup {None, Torn}]
      /\ json \in [Keys -> CacheStateMetadata \cup {None, Torn}]
  BY <1>1 DEF CacheInit
<1>4. QED BY <1>1, <1>2, <1>3 DEF CacheInit, TypeOK

LEMMA RestartType == ASSUME TypeOK, Restart PROVE TypeOK'
<1>1. bin' \in [Keys -> Snapshot \cup {None, Torn}]
      /\ json' \in [Keys -> CacheStateMetadata \cup {None, Torn}]
  <2>1. CASE UNCHANGED files
    BY <2>1 DEF TypeOK
  <2>2. CASE \E k \in Keys, v \in select_eviction_victim :
                MustEvict(k) /\ metadata_store[v] # None /\ save_to_ssd_torn(v)
    <3>1. PICK v \in select_eviction_victim :
                 metadata_store[v] # None /\ save_to_ssd_torn(v)
      BY <2>2
    <3>2. v \in Keys
      BY VictimResident
    <3>3. QED
      BY <3>1, <3>2 DEF TypeOK, save_to_ssd_torn
  <2>3. QED BY <2>1, <2>2 DEF Restart
<1>2. QED
  BY <1>1 DEF TypeOK, Restart

(***************************************************************************)
(* What promote_to_standby does to the set of states in RAM.               *)
(***************************************************************************)
LEMMA NullLemma ==
  /\ None \notin Snapshot /\ None \notin CacheStateMetadata
  /\ Torn \notin Snapshot /\ Torn \notin CacheStateMetadata
  /\ None # Torn /\ None \notin Keys
BY NullAssumption

LEMMA PromoteCases ==
  ASSUME TypeOK, NEW k \in Keys, NEW state \in Snapshot, NEW meta,
         promote_to_standby(k, state, meta)
  PROVE  /\ metadata_store' = [metadata_store EXCEPT ![k] = meta]
         /\ \/ /\ ~ MustEvict(k)
               /\ standby_cache' = [standby_cache EXCEPT ![k] = state]
               /\ UNCHANGED <<bin, json>>
            \/ /\ k \notin Resident
               /\ \E v \in Resident :
                    /\ standby_cache' =
                         [standby_cache EXCEPT ![v] = None, ![k] = state]
                    /\ metadata_store[v] = None => UNCHANGED <<bin, json>>
                    /\ metadata_store[v] # None =>
                         /\ bin' = [bin EXCEPT ![v] = standby_cache[v]]
                         /\ json' = [json EXCEPT ![v] = metadata_store[v]]
<1>1. CASE ~ MustEvict(k)
  BY <1>1 DEF promote_to_standby
<1>2. CASE MustEvict(k)
  <2>1. PICK v \in select_eviction_victim :
             /\ standby_cache' = [standby_cache EXCEPT ![v] = None, ![k] = state]
             /\ IF metadata_store[v] = None THEN UNCHANGED files
                                            ELSE save_to_ssd(v)
    BY <1>2 DEF promote_to_standby
  <2>2. v \in Resident
    BY VictimResident
  <2>3. k \notin Resident
    BY <1>2 DEF MustEvict, Resident
  <2>4. QED BY <2>1, <2>2, <2>3 DEF promote_to_standby, save_to_ssd
<1>3. QED BY <1>1, <1>2

LEMMA ResidentFinite ==
  /\ IsFiniteSet(Resident)
  /\ Cardinality(Resident) \in Nat
BY KeysAssumption, FS_Subset, FS_CardinalityType DEF Resident

LEMMA PromoteBounded ==
  ASSUME TypeOK, NEW k \in Keys, NEW state \in Snapshot, NEW meta,
         promote_to_standby(k, state, meta), StandbyBounded
  PROVE  StandbyBounded'
<1> USE ResidentFinite
<1>1. CASE /\ ~ MustEvict(k)
           /\ standby_cache' = [standby_cache EXCEPT ![k] = state]
  <2>1. Resident' = Resident \cup {k}
    BY <1>1, NullLemma DEF Resident, TypeOK
  <2>2. CASE k \in Resident
    <3>1. Resident' = Resident
      BY <2>1, <2>2
    <3>2. QED BY <3>1 DEF StandbyBounded
  <2>3. CASE k \notin Resident
    <3>1. Cardinality(Resident') = Cardinality(Resident) + 1
      BY <2>1, <2>3, FS_AddElement
    <3>2. CASE Resident = {}
      <4>1. Cardinality(Resident) = 0
        BY <3>2, FS_EmptySet
      <4>2. QED BY <3>1, <4>1, BoundsAssumption DEF StandbyBounded
    <3>3. CASE Resident # {}
      <4>1. standby_cache[k] = None
        BY <2>3 DEF Resident
      <4>2. Cardinality(Resident) < MaxRam
        BY <1>1, <3>3, <4>1, BoundsAssumption DEF MustEvict
      <4>3. QED BY <3>1, <4>2, BoundsAssumption DEF StandbyBounded
    <3>4. QED BY <3>2, <3>3
  <2>4. QED BY <2>2, <2>3
<1>2. ASSUME k \notin Resident, NEW v \in Resident,
             standby_cache' = [standby_cache EXCEPT ![v] = None, ![k] = state]
      PROVE  StandbyBounded'
  <2>1. v \in Keys /\ v # k
    BY <1>2 DEF Resident
  <2>2. Resident' = (Resident \ {v}) \cup {k}
    BY <1>2, <2>1, NullLemma DEF Resident, TypeOK
  <2>3. /\ IsFiniteSet(Resident \ {v})
        /\ Cardinality(Resident \ {v}) = Cardinality(Resident) - 1
    BY FS_RemoveElement
  <2>4. k \notin Resident \ {v}
    BY <1>2
  <2>5. Cardinality((Resident \ {v}) \cup {k}) = Cardinality(Resident \ {v}) + 1
    BY <2>3, <2>4, FS_AddElement
  <2>6. Cardinality(Resident') = Cardinality(Resident)
    BY <2>2, <2>3, <2>5
  <2>7. QED BY <2>6 DEF StandbyBounded
<1>3. QED BY <1>1, <1>2, PromoteCases

(***************************************************************************)
(* The invariants that hold whatever fails.                                *)
(***************************************************************************)
RamInv == StandbyBounded /\ StandbyHasMetadata /\ HotIsValidated

LEMMA ShrinkBounded ==
  ASSUME Resident' \subseteq Resident, StandbyBounded
  PROVE  StandbyBounded'
<1>1. /\ Cardinality(Resident') \in Nat
      /\ Cardinality(Resident') <= Cardinality(Resident)
  BY ResidentFinite, FS_Subset, FS_CardinalityType
<1>2. QED
  BY <1>1, ResidentFinite, BoundsAssumption DEF StandbyBounded

\* A promotion that also makes its key the hot one.
LEMMA PromoteRamInv ==
  ASSUME TypeOK, RamInv, NEW k \in Keys, NEW state \in Snapshot,
         NEW meta \in CacheStateMetadata, promote_to_standby(k, state, meta),
         BecomesHot(k)
  PROVE  RamInv'
<1>1. StandbyBounded'
  BY PromoteBounded DEF RamInv
<1>2. /\ metadata_store' = [metadata_store EXCEPT ![k] = meta]
      /\ Resident' \subseteq Resident \cup {k}
  BY PromoteCases DEF Resident, TypeOK
<1>3. StandbyHasMetadata'
  BY <1>2, NullLemma DEF RamInv, StandbyHasMetadata, Resident, TypeOK
<1>4. HotIsValidated'
  BY <1>2, NullLemma DEF HotIsValidated, BecomesHot, TypeOK
<1>5. QED BY <1>1, <1>3, <1>4 DEF RamInv

LEMMA TouchDomain ==
  ASSUME TypeOK, NEW k \in Keys, Touch(k), NEW j \in Keys,
         metadata_store[j] # None
  PROVE  metadata_store'[j] # None
<1>1. metadata_store' \in [Keys -> CacheStateMetadata \cup {None}]
  BY TouchType
<1>2. CASE j = k
  <2>1. metadata_store[k] \in CacheStateMetadata
    BY <1>2 DEF TypeOK
  <2>2. [metadata_store[k] EXCEPT !.last_accessed = now] \in CacheStateMetadata
    BY <2>1 DEF TypeOK, CacheStateMetadata
  <2>3. QED BY <1>2, <2>2, NullLemma DEF Touch, TypeOK
<1>3. CASE j # k
  BY <1>3 DEF Touch, TypeOK
<1>4. QED BY <1>2, <1>3

LEMMA LoadRamInv ==
  ASSUME TypeOK, RamInv, NEW m \in Models, NEW k \in Keys, NEW h \in Hashes,
         LoadHits(m, k, h) \/ LoadMisses(m, k, h) \/ LoadRaises(m, k, h)
  PROVE  RamInv'
<1> USE NullLemma
<1>1. CASE LoadHot(m, k, h)
  <2>1. Resident' = Resident /\ Touch(k) /\ UNCHANGED <<hot_state, hot_dirty>>
    BY <1>1 DEF LoadHot, Resident
  <2>2. StandbyBounded'
    BY <2>1, ShrinkBounded DEF RamInv
  <2>3. StandbyHasMetadata'
    BY <2>1, TouchDomain DEF RamInv, StandbyHasMetadata, Resident
  <2>4. HotIsValidated'
    BY <2>1, TouchDomain DEF RamInv, HotIsValidated, TypeOK
  <2>5. QED BY <2>2, <2>3, <2>4 DEF RamInv
<1>2. CASE LoadStandby(m, k, h)
  <2>1. /\ Resident' = Resident /\ Touch(k) /\ BecomesHot(k)
        /\ k \in Resident
    BY <1>2 DEF LoadStandby, FromStandby, Resident
  <2>2. StandbyBounded'
    BY <2>1, ShrinkBounded DEF RamInv
  <2>3. StandbyHasMetadata'
    BY <2>1, TouchDomain DEF RamInv, StandbyHasMetadata, Resident
  <2>4. HotIsValidated'
    BY <2>1, TouchDomain DEF RamInv, StandbyHasMetadata, HotIsValidated,
                             BecomesHot
  <2>5. QED BY <2>2, <2>3, <2>4 DEF RamInv
<1>3. CASE LoadCold(m, k, h)
  <2>1. bin[k] \in Snapshot /\ json[k] \in CacheStateMetadata
    BY <1>3 DEF LoadCold, ColdMatches, load_from_ssd_accepts
  <2>2. [json[k] EXCEPT !.last_accessed = now] \in CacheStateMetadata
    BY <2>1 DEF TypeOK, CacheStateMetadata
  <2>3. /\ promote_to_standby(k, bin[k], [json[k] EXCEPT !.last_accessed = now])
        /\ BecomesHot(k)
    BY <1>3 DEF LoadCold
  <2>4. QED BY <2>1, <2>2, <2>3, PromoteRamInv
<1>4. CASE LoadMisses(m, k, h) \/ LoadColdRejected(m, k, h) \/ LoadColdFails(m, k, h)
  <2>1. UNCHANGED <<hot_state, hot_dirty, metadata_store, standby_cache>>
    BY <1>4 DEF LoadMisses, LoadMismatch, LoadAbsent, LoadColdRejected,
                LoadColdFails, cacheVars
  <2>2. Resident' = Resident
    BY <2>1 DEF Resident
  <2>3. QED
    BY <2>1, <2>2, ShrinkBounded
    DEF RamInv, StandbyHasMetadata, HotIsValidated
<1>5. CASE LoadStandbyFails(m, k, h)
  <2>1. /\ standby_cache' = [standby_cache EXCEPT ![k] = None]
        /\ metadata_store' = [metadata_store EXCEPT ![k] = None]
        /\ UNCHANGED <<hot_state, hot_dirty>>
        /\ ~ (hot_state = k /\ ~hot_dirty)
    BY <1>5 DEF LoadStandbyFails, FromStandby, ServesHot
  <2>2. Resident' = Resident \ {k}
    BY <2>1 DEF Resident, TypeOK
  <2>3. StandbyBounded'
    BY <2>2, ShrinkBounded DEF RamInv
  <2>4. StandbyHasMetadata'
    BY <2>1, <2>2 DEF RamInv, StandbyHasMetadata, Resident, TypeOK
  <2>5. HotIsValidated'
    BY <2>1 DEF RamInv, HotIsValidated, TypeOK
  <2>6. QED BY <2>3, <2>4, <2>5 DEF RamInv
<1>6. CASE LoadColdNoRoom(m, k, h)
  <2>1. /\ json[k] \in CacheStateMetadata
        /\ metadata_store' = [metadata_store EXCEPT ![k] = json[k]]
        /\ BecomesHot(k)
        /\ UNCHANGED standby_cache
    BY <1>6 DEF LoadColdNoRoom, ColdMatches, load_from_ssd_accepts,
                promote_to_standby_fails
  <2>2. Resident' = Resident
    BY <2>1 DEF Resident
  <2>3. StandbyBounded'
    BY <2>2, ShrinkBounded DEF RamInv
  <2>4. StandbyHasMetadata'
    BY <2>1, <2>2 DEF RamInv, StandbyHasMetadata, Resident, TypeOK
  <2>5. HotIsValidated'
    BY <2>1 DEF HotIsValidated, BecomesHot, TypeOK
  <2>6. QED BY <2>3, <2>4, <2>5 DEF RamInv
<1>7. QED
  BY <1>1, <1>2, <1>3, <1>4, <1>5, <1>6 DEF LoadHits, LoadRaises

LEMMA SaveFailsRamInv ==
  ASSUME TypeOK, RamInv, NEW k \in Keys, save_cache_fails(k)
  PROVE  RamInv'
<1>1. UNCHANGED <<hot_state, hot_dirty, metadata_store, standby_cache>>
  BY DEF save_cache_fails, promote_to_standby_fails
<1>2. Resident' = Resident
  BY <1>1 DEF Resident
<1>3. QED
  BY <1>1, <1>2, ShrinkBounded DEF RamInv, StandbyHasMetadata, HotIsValidated

LEMMA SaveRamInv ==
  ASSUME TypeOK, RamInv, NEW m \in Models, NEW k \in Keys, NEW h \in Hashes,
         NEW r \in Roles, save_cache(m, k, h, r)
  PROVE  RamInv'
<1>1. ctx[m] \in Snapshot
  BY DEF TypeOK
<1>2. NewMetadata(m, h, r) \in CacheStateMetadata
  BY <1>1, LenType DEF NewMetadata, CacheStateMetadata, TypeOK
<1>3. /\ promote_to_standby(k, ctx[m], NewMetadata(m, h, r))
      /\ BecomesHot(k)
  BY DEF save_cache
<1>4. QED BY <1>1, <1>2, <1>3, PromoteRamInv

\* A client may move contexts and declare them; RAM stays as it is.
LEMMA StillRamInv ==
  ASSUME RamInv, UNCHANGED <<hot_state, metadata_store, standby_cache>>,
         hot_dirty' = hot_dirty \/ hot_dirty' = TRUE
  PROVE  RamInv'
<1>1. Resident' = Resident
  BY DEF Resident
<1>2. QED
  BY <1>1, ShrinkBounded DEF RamInv, StandbyHasMetadata, HotIsValidated

LEMMA EmptyRamInv ==
  /\ CacheInit => RamInv
  /\ Restart => RamInv'
<1>1. \A S : S = {} => Cardinality(S) = 0
  BY FS_EmptySet
<1>2. ASSUME CacheInit PROVE RamInv
  <2>1. Resident = {}
    BY <1>2 DEF CacheInit, Resident
  <2>2. QED
    BY <1>1, <1>2, <2>1, BoundsAssumption
    DEF CacheInit, RamInv, StandbyBounded, StandbyHasMetadata, HotIsValidated
<1>3. ASSUME Restart PROVE RamInv'
  <2>1. Resident' = {}
    BY <1>3 DEF Restart, Resident
  <2>2. QED
    BY <1>1, <1>3, <2>1, BoundsAssumption
    DEF Restart, RamInv, StandbyBounded, StandbyHasMetadata, HotIsValidated
<1>4. QED BY <1>2, <1>3

(***************************************************************************)
(* Where a stored state comes from, and what becomes of the contexts.      *)
(***************************************************************************)

\* Eviction, promotion, purges and failed writes only move states of one key
\* between RAM and SSD or remove them.
Shifts(j) ==
  /\ standby_cache'[j] \in {standby_cache[j], bin[j], None}
  /\ bin'[j] \in {bin[j], standby_cache[j], None}

LEMMA PromoteShifts ==
  ASSUME TypeOK, NEW k \in Keys, NEW state \in Snapshot, NEW meta,
         promote_to_standby(k, state, meta)
  PROVE  /\ \A j \in Keys \ {k} : Shifts(j)
         /\ standby_cache'[k] = state
         /\ bin'[k] = bin[k]
<1>1. CASE /\ standby_cache' = [standby_cache EXCEPT ![k] = state]
           /\ UNCHANGED <<bin, json>>
  BY <1>1 DEF Shifts, TypeOK
<1>2. ASSUME k \notin Resident, NEW v \in Resident,
             standby_cache' = [standby_cache EXCEPT ![v] = None, ![k] = state],
             \/ UNCHANGED <<bin, json>>
             \/ bin' = [bin EXCEPT ![v] = standby_cache[v]]
      PROVE  /\ \A j \in Keys \ {k} : Shifts(j)
             /\ standby_cache'[k] = state
             /\ bin'[k] = bin[k]
  <2>1. v \in Keys /\ v # k
    BY <1>2 DEF Resident
  <2>2. QED BY <1>2, <2>1 DEF Shifts, TypeOK
<1>3. QED BY <1>1, <1>2, PromoteCases

LEMMA PromoteFailsShifts ==
  ASSUME TypeOK, NEW k \in Keys, promote_to_standby_fails(k)
  PROVE  \A j \in Keys : Shifts(j)
<1>1. PICK v \in select_eviction_victim : save_to_ssd_fails(v)
  BY DEF promote_to_standby_fails
<1>2. v \in Keys
  BY VictimResident
<1>3. QED
  BY <1>1, <1>2 DEF TypeOK, promote_to_standby_fails, save_to_ssd_fails, Shifts

LEMMA LoadShifts ==
  ASSUME TypeOK, NEW m \in Models, NEW k \in Keys, NEW h \in Hashes,
         LoadHits(m, k, h) \/ LoadMisses(m, k, h) \/ LoadRaises(m, k, h)
  PROVE  \A j \in Keys : Shifts(j)
<1>1. CASE \/ LoadHot(m, k, h) \/ LoadStandby(m, k, h) \/ LoadMisses(m, k, h)
           \/ LoadColdFails(m, k, h) \/ LoadColdRejected(m, k, h)
  <2>1. UNCHANGED <<standby_cache, bin>>
    BY <1>1 DEF LoadHot, LoadStandby, LoadMisses, LoadMismatch, LoadAbsent,
                LoadColdFails, LoadColdRejected, cacheVars
  <2>2. QED BY <2>1 DEF Shifts
<1>2. CASE LoadStandbyFails(m, k, h)
  BY <1>2 DEF LoadStandbyFails, Shifts, TypeOK
<1>3. CASE LoadCold(m, k, h)
  <2>1. /\ bin[k] \in Snapshot
        /\ promote_to_standby(k, bin[k], [json[k] EXCEPT !.last_accessed = now])
    BY <1>3 DEF LoadCold, ColdMatches, load_from_ssd_accepts
  <2>2. /\ \A j \in Keys \ {k} : Shifts(j)
        /\ standby_cache'[k] = bin[k] /\ bin'[k] = bin[k]
    BY <2>1, PromoteShifts
  <2>3. QED BY <2>2 DEF Shifts
<1>4. CASE LoadColdNoRoom(m, k, h)
  BY <1>4, PromoteFailsShifts DEF LoadColdNoRoom
<1>5. QED
  BY <1>1, <1>2, <1>3, <1>4 DEF LoadHits, LoadRaises

LEMMA SaveShifts ==
  ASSUME TypeOK, NEW m \in Models, NEW k \in Keys, NEW h \in Hashes, NEW r \in Roles,
         save_cache(m, k, h, r)
  PROVE  /\ \A j \in Keys \ {k} : Shifts(j)
         /\ standby_cache'[k] = ctx[m] /\ bin'[k] = bin[k]
         /\ ctx' = ctx
<1>1. ctx[m] \in Snapshot
  BY DEF TypeOK
<1>2. QED BY <1>1, PromoteShifts DEF save_cache

LEMMA SaveFailsShifts ==
  ASSUME TypeOK, NEW k \in Keys, save_cache_fails(k)
  PROVE  (\A j \in Keys : Shifts(j)) /\ ctx' = ctx
<1>1. CASE UNCHANGED <<standby_cache, bin>>
  BY <1>1 DEF Shifts, save_cache_fails
<1>2. QED BY <1>1, PromoteFailsShifts DEF save_cache_fails

\* A load touches no other model than the one it is asked for.
LEMMA LoadContext ==
  ASSUME TypeOK, NEW m \in Models, NEW k \in Keys, NEW h \in Hashes,
         LoadHits(m, k, h) \/ LoadMisses(m, k, h) \/ LoadRaises(m, k, h)
  PROVE  /\ \A n \in Models \ {m} : ctx'[n] = ctx[n]
         /\ LoadMisses(m, k, h) => ctx' = ctx
BY DEF TypeOK, LoadHits, LoadMisses, LoadRaises, LoadHot, LoadStandby, LoadCold,
       LoadMismatch, LoadAbsent, LoadStandbyFails, LoadColdNoRoom, LoadColdFails,
       LoadColdRejected, deserialize_llama_state_fails, cacheVars

\* What a load leaves in the model: what was there, or a state stored for the key.
LEMMA LoadGives ==
  ASSUME TypeOK, "load_state" \notin Faults,
         NEW m \in Models, NEW k \in Keys, NEW h \in Hashes,
         LoadHits(m, k, h) \/ LoadMisses(m, k, h) \/ LoadRaises(m, k, h)
  PROVE  \/ ctx'[m] = ctx[m]
         \/ ctx'[m] \in {standby_cache[k], bin[k]} \cap Snapshot
<1>1. CASE LoadStandby(m, k, h)
  BY <1>1 DEF LoadStandby, FromStandby, TypeOK
<1>2. CASE LoadCold(m, k, h) \/ LoadColdNoRoom(m, k, h)
  BY <1>2 DEF LoadCold, LoadColdNoRoom, ColdMatches, load_from_ssd_accepts, TypeOK
<1>3. CASE ctx' = ctx
  BY <1>3
<1>4. QED
  BY <1>1, <1>2, <1>3
  DEF LoadHits, LoadMisses, LoadRaises, LoadHot, LoadMismatch, LoadAbsent,
      LoadStandbyFails, LoadColdFails, LoadColdRejected,
      deserialize_llama_state_fails, cacheVars

(***************************************************************************)
(* Where metadata come from.                                               *)
(***************************************************************************)

\* The metadata of another state, perhaps used again.
Redates(new, old) ==
  /\ {new, old} \subseteq CacheStateMetadata
  /\ new.model_tag = old.model_tag /\ new.prompt_hash = old.prompt_hash
  /\ new.last_accessed \in {old.last_accessed, now}

\* Metadata move between RAM and SSD with their state or are removed, and a
\* state that is used gets a new date.
MetaShifts(j) ==
  /\ \/ metadata_store'[j] \in {metadata_store[j], None}
     \/ Redates(metadata_store'[j], metadata_store[j])
     \/ Redates(metadata_store'[j], json[j])
  /\ json'[j] \in {json[j], metadata_store[j], None}

LEMMA PromoteMeta ==
  ASSUME TypeOK, NEW k \in Keys, NEW state \in Snapshot, NEW meta,
         promote_to_standby(k, state, meta)
  PROVE  /\ \A j \in Keys \ {k} : MetaShifts(j)
         /\ metadata_store'[k] = meta
         /\ json'[k] = json[k]
<1>1. metadata_store' = [metadata_store EXCEPT ![k] = meta]
  BY PromoteCases
<1>2. CASE UNCHANGED <<bin, json>>
  BY <1>1, <1>2 DEF MetaShifts, TypeOK
<1>3. ASSUME k \notin Resident, NEW v \in Resident,
             json' = [json EXCEPT ![v] = metadata_store[v]]
      PROVE  (\A j \in Keys \ {k} : MetaShifts(j)) /\ json'[k] = json[k]
  <2>1. v \in Keys /\ v # k
    BY <1>3 DEF Resident
  <2>2. QED BY <1>1, <1>3, <2>1 DEF MetaShifts, TypeOK
<1>4. metadata_store'[k] = meta
  BY <1>1 DEF TypeOK
<1>5. QED BY <1>2, <1>3, <1>4, PromoteCases

LEMMA PromoteFailsMeta ==
  ASSUME TypeOK, NEW k \in Keys, promote_to_standby_fails(k)
  PROVE  \A j \in Keys : json'[j] \in {json[j], None}
<1>1. PICK v \in select_eviction_victim : save_to_ssd_fails(v)
  BY DEF promote_to_standby_fails
<1>2. QED BY <1>1, VictimResident DEF TypeOK, save_to_ssd_fails

LEMMA Redated ==
  ASSUME TypeOK, NEW meta \in CacheStateMetadata
  PROVE  Redates([meta EXCEPT !.last_accessed = now], meta)
BY DEF TypeOK, Redates, CacheStateMetadata

LEMMA LoadMeta ==
  ASSUME TypeOK, NEW m \in Models, NEW k \in Keys, NEW h \in Hashes,
         LoadHits(m, k, h) \/ LoadMisses(m, k, h) \/ LoadRaises(m, k, h)
  PROVE  \A j \in Keys : MetaShifts(j)
<1>1. CASE \/ LoadMisses(m, k, h) \/ LoadColdFails(m, k, h)
           \/ LoadColdRejected(m, k, h)
  <2>1. UNCHANGED <<metadata_store, json>>
    BY <1>1 DEF LoadMisses, LoadMismatch, LoadAbsent, LoadColdFails,
                LoadColdRejected, cacheVars
  <2>2. QED BY <2>1 DEF MetaShifts
<1>2. CASE LoadHot(m, k, h) \/ LoadStandby(m, k, h)
  <2>1. Touch(k) /\ UNCHANGED json
    BY <1>2 DEF LoadHot, LoadStandby
  <2>2. SUFFICES ASSUME NEW j \in Keys PROVE MetaShifts(j)
    OBVIOUS
  <2>3. CASE metadata_store'[j] = metadata_store[j]
    BY <2>1, <2>3 DEF MetaShifts
  <2>4. CASE j = k /\ metadata_store[k] # None
    <3>1. metadata_store[k] \in CacheStateMetadata
      BY <2>4 DEF TypeOK
    <3>2. metadata_store'[k] = [metadata_store[k] EXCEPT !.last_accessed = now]
      BY <2>1, <2>4 DEF Touch, TypeOK
    <3>3. QED BY <2>1, <2>4, <3>1, <3>2, Redated DEF MetaShifts
  <2>5. QED BY <2>1, <2>3, <2>4 DEF Touch, TypeOK
<1>3. CASE LoadStandbyFails(m, k, h)
  BY <1>3 DEF LoadStandbyFails, MetaShifts, TypeOK
<1>4. CASE LoadCold(m, k, h)
  <2>1. /\ bin[k] \in Snapshot /\ json[k] \in CacheStateMetadata
        /\ promote_to_standby(k, bin[k], [json[k] EXCEPT !.last_accessed = now])
    BY <1>4 DEF LoadCold, ColdMatches, load_from_ssd_accepts
  <2>2. /\ \A j \in Keys \ {k} : MetaShifts(j)
        /\ metadata_store'[k] = [json[k] EXCEPT !.last_accessed = now]
        /\ json'[k] = json[k]
    BY <2>1, PromoteMeta
  <2>3. Redates(metadata_store'[k], json[k])
    BY <2>1, <2>2, Redated
  <2>4. QED BY <2>2, <2>3 DEF MetaShifts
<1>5. CASE LoadColdNoRoom(m, k, h)
  <2>1. /\ json[k] \in CacheStateMetadata /\ promote_to_standby_fails(k)
        /\ metadata_store' = [metadata_store EXCEPT ![k] = json[k]]
    BY <1>5 DEF LoadColdNoRoom, ColdMatches, load_from_ssd_accepts
  <2>2. \A j \in Keys : json'[j] \in {json[j], None}
    BY <2>1, PromoteFailsMeta
  <2>3. Redates(json[k], json[k])
    BY <2>1 DEF Redates
  <2>4. QED BY <2>1, <2>2, <2>3 DEF MetaShifts, TypeOK
<1>6. QED
  BY <1>1, <1>2, <1>3, <1>4, <1>5 DEF LoadHits, LoadRaises

LEMMA SaveMeta ==
  ASSUME TypeOK, NEW m \in Models, NEW k \in Keys, NEW h \in Hashes, NEW r \in Roles,
         save_cache(m, k, h, r)
  PROVE  /\ \A j \in Keys \ {k} : MetaShifts(j)
         /\ metadata_store'[k] = NewMetadata(m, h, r)
         /\ json'[k] = json[k]
<1>1. ctx[m] \in Snapshot
  BY DEF TypeOK
<1>2. QED BY <1>1, PromoteMeta DEF save_cache

LEMMA SaveFailsMeta ==
  ASSUME TypeOK, NEW k \in Keys, save_cache_fails(k)
  PROVE  \A j \in Keys : MetaShifts(j)
<1>1. CASE UNCHANGED <<metadata_store, json>>
  BY <1>1 DEF MetaShifts
<1>2. CASE UNCHANGED metadata_store /\ promote_to_standby_fails(k)
  BY <1>2, PromoteFailsMeta DEF MetaShifts
<1>3. QED BY <1>1, <1>2 DEF save_cache_fails

\* A restart forgets the metadata in RAM and may spoil those on SSD.
LEMMA RestartMeta ==
  ASSUME TypeOK, Restart
  PROVE  \A j \in Keys : metadata_store'[j] = None /\ json'[j] \in {json[j], Torn}
BY DEF Restart, save_to_ssd_torn, TypeOK, files

(***************************************************************************)
(* No date is ahead of the clock.                                          *)
(***************************************************************************)
Dated(meta) == meta \in CacheStateMetadata => meta.last_accessed <= now

ClockInv == \A k \in Keys : Dated(metadata_store[k]) /\ Dated(json[k])

\* It is kept when metadata only move.
LEMMA ShiftsDated ==
  ASSUME TypeOK, ClockInv, now' = now, NEW j \in Keys, MetaShifts(j)
  PROVE  Dated(metadata_store[j])' /\ Dated(json[j])'
<1>1. Dated(metadata_store[j]) /\ Dated(json[j]) /\ now <= now
  BY DEF ClockInv, TypeOK
<1>2. QED BY <1>1, NullLemma DEF Dated, MetaShifts, Redates

LEMMA LoadDated ==
  ASSUME TypeOK, ClockInv, NEW m \in Models, NEW k \in Keys, NEW h \in Hashes,
         LoadHits(m, k, h) \/ LoadMisses(m, k, h) \/ LoadRaises(m, k, h)
  PROVE  ClockInv'
<1>1. now' = now
  BY DEF LoadHits, LoadMisses, LoadRaises, LoadHot, LoadStandby, LoadCold,
         LoadMismatch, LoadAbsent, LoadStandbyFails, LoadColdNoRoom, LoadColdFails,
         LoadColdRejected, cacheVars
<1>2. QED BY <1>1, LoadMeta, ShiftsDated DEF ClockInv

LEMMA SaveDated ==
  ASSUME TypeOK, ClockInv, NEW m \in Models, NEW k \in Keys, NEW h \in Hashes,
         NEW r \in Roles, save_cache(m, k, h, r) \/ save_cache_fails(k)
  PROVE  ClockInv'
<1>1. now' = now /\ now \in Nat
  BY DEF save_cache, save_cache_fails, TypeOK
<1>2. CASE save_cache(m, k, h, r)
  <2>1. \A j \in Keys \ {k} : Dated(metadata_store[j])' /\ Dated(json[j])'
    BY <1>1, <1>2, SaveMeta, ShiftsDated
  <2>2. metadata_store'[k] = NewMetadata(m, h, r) /\ json'[k] = json[k]
    BY <1>2, SaveMeta
  <2>3. metadata_store'[k].last_accessed = now
    BY <2>2 DEF NewMetadata
  <2>4. QED BY <1>1, <2>1, <2>2, <2>3 DEF ClockInv, Dated
<1>3. CASE save_cache_fails(k)
  BY <1>1, <1>3, SaveFailsMeta, ShiftsDated DEF ClockInv
<1>4. QED BY <1>2, <1>3

LEMMA RestDated ==
  /\ CacheInit => ClockInv
  /\ TypeOK /\ ClockInv /\ Restart => ClockInv'
  /\ TypeOK /\ ClockInv /\ UNCHANGED <<metadata_store, json>> /\ now' \in {now, now + 1}
       => ClockInv'
<1>1. CacheInit => ClockInv
  BY NullLemma DEF CacheInit, ClockInv, Dated
<1>2. TypeOK /\ ClockInv /\ Restart => ClockInv'
  <2>1. Restart => now' = now
    BY DEF Restart
  <2>2. QED BY <2>1, RestartMeta, NullLemma DEF ClockInv, Dated
<1>3. TypeOK /\ ClockInv /\ UNCHANGED <<metadata_store, json>> /\ now' \in {now, now + 1}
        => ClockInv'
  BY BoundsAssumption DEF TypeOK, ClockInv, Dated, CacheStateMetadata
<1>4. QED BY <1>1, <1>2, <1>3

(***************************************************************************)
(* Who is evicted.                                                         *)
(***************************************************************************)

\* Of two states with dates that are past, the one that scores more was used
\* earlier or weighs less, if the other one scores at all.
LEMMA ScoresCompare ==
  ASSUME TypeOK, ClockInv, NEW v \in Keys, NEW x \in Keys,
         metadata_store[v] # None, metadata_store[x] # None, Score(x) <= Score(v)
  PROVE  \/ Weight(metadata_store[x].agent_role) = 10
         \/ Weight(metadata_store[v].agent_role) < Weight(metadata_store[x].agent_role)
         \/ metadata_store[v].last_accessed <= metadata_store[x].last_accessed
<1> DEFINE lv == metadata_store[v].last_accessed
           lx == metadata_store[x].last_accessed
           wv == Weight(metadata_store[v].agent_role)
           wx == Weight(metadata_store[x].agent_role)
<1>1. /\ metadata_store[v] \in CacheStateMetadata
      /\ metadata_store[x] \in CacheStateMetadata
  BY DEF TypeOK
<1>2. lv \in Nat /\ lx \in Nat /\ now \in Nat /\ lv <= now /\ lx <= now
  BY <1>1, BoundsAssumption DEF ClockInv, Dated, TypeOK, CacheStateMetadata
<1>3. wv \in {0, 3, 5, 8, 10} /\ wx \in {0, 3, 5, 8, 10}
  BY DEF Weight, ROLE_PRIORITIES
<1>4. Score(x) = (now - lx) * (10 - wx) /\ Score(v) = (now - lv) * (10 - wv)
  <2>1. /\ (IF now > lx THEN now - lx ELSE 0) = now - lx
        /\ (IF now > lv THEN now - lv ELSE 0) = now - lv
    BY <1>2
  <2>2. /\ Score(x) = (IF now > lx THEN now - lx ELSE 0) * (10 - wx)
        /\ Score(v) = (IF now > lv THEN now - lv ELSE 0) * (10 - wv)
    BY Zenon DEF Score, compute_eviction_score
  <2> HIDE DEF lv, lx, wv, wx
  <2>3. QED BY <2>1, <2>2
<1> HIDE DEF lv, lx, wv, wx
<1>5. PICK a \in Nat, b \in Nat : a = now - lx /\ b = now - lv
  BY <1>2
<1>6. a * (10 - wx) <= b * (10 - wv)
  BY <1>4, <1>5
<1>7. wx = 10 \/ wv < wx \/ a <= b
  BY <1>3, <1>5, <1>6
<1>8. wx = 10 \/ wv < wx \/ lv <= lx
  BY <1>2, <1>5, <1>7
<1>9. QED BY <1>8 DEF lv, lx, wv, wx

\* A promotion takes out of RAM only a state that scores highest.
LEMMA PromoteEvicts ==
  ASSUME TypeOK, StandbyHasMetadata, NEW k \in Keys, NEW state \in Snapshot, NEW meta,
         promote_to_standby(k, state, meta),
         NEW v \in Resident, NEW x \in Resident, standby_cache'[v] = None
  PROVE  Score(x) <= Score(v)
<1>1. v \in Keys /\ standby_cache[v] # None
  BY DEF Resident
<1>2. ~ (standby_cache' = [standby_cache EXCEPT ![k] = state])
  BY <1>1, NullLemma DEF TypeOK
<1>3. PICK w \in select_eviction_victim :
        standby_cache' = [standby_cache EXCEPT ![w] = None, ![k] = state]
  BY <1>2 DEF promote_to_standby
<1>4. v = w
  BY <1>1, <1>3, NullLemma DEF TypeOK
<1>5. {j \in Resident : metadata_store[j] = None} = {}
  BY DEF StandbyHasMetadata
<1>6. QED BY <1>4, <1>5 DEF select_eviction_victim

=============================================================================
