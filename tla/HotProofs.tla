----------------------------- MODULE HotProofs -----------------------------
(***************************************************************************)
(* A HOT answer is lossless and a COLD one consistent, for all constants,  *)
(* as long as no load_state fails half-way; the process may die at any time *)
(* if a key fixes the model and the prompt of its requests.                *)
(* HotInv is the inductive invariant: HotIsLossless alone is not preserved, *)
(* since it says nothing of a context while a request is using it.         *)
(***************************************************************************)
EXTENDS CacheProofs

\* Keys as _execute_local makes them, prefix::{model}::{hash}.
OneUsePerKey == \A u, w \in Uses : u[2] = w[2] => u = w

\* No failure that leaves a context half-written, nor a pair of files of two
\* requests.
Whole == "load_state" \notin Faults /\ ("crash" \in Faults => OneUsePerKey)

IInv == ClientTypeOK /\ HotInv

LEMMA DescribesResident ==
  ASSUME TypeOK, TagsAgree, NEW v \in Resident
  PROVE  /\ v \in Keys /\ standby_cache[v] \in Snapshot
         /\ metadata_store[v] \in CacheStateMetadata
         /\ Describes(metadata_store[v], standby_cache[v])
BY DEF TypeOK, TagsAgree, Resident, Describes

\* A promotion, with its eviction, loses no state: the key holds the new one,
\* every other key holds what it held.
LEMMA PromoteKeeps ==
  ASSUME TypeOK, TagsAgree, PairsAgree, NEW k \in Keys, NEW state \in Snapshot,
         NEW meta \in CacheStateMetadata, Describes(meta, state),
         promote_to_standby(k, state, meta)
  PROVE  /\ TagsAgree' /\ PairsAgree'
         /\ Held(k)' = state
         /\ \A j \in Keys \ {k} : Held(j)' = Held(j)
         /\ metadata_store' = [metadata_store EXCEPT ![k] = meta]
<1> USE NullLemma
<1>1. metadata_store' = [metadata_store EXCEPT ![k] = meta]
  BY PromoteCases
<1>2. CASE /\ standby_cache' = [standby_cache EXCEPT ![k] = state]
           /\ UNCHANGED <<bin, json>>
  <2>1. TagsAgree'
    BY <1>1, <1>2 DEF TagsAgree, Resident, Describes, TypeOK
  <2>2. PairsAgree'
    BY <1>2 DEF PairsAgree, Describes, load_from_ssd_accepts, len
  <2>3. Held(k)' = state /\ \A j \in Keys \ {k} : Held(j)' = Held(j)
    BY <1>2 DEF Held, TypeOK
  <2>4. QED BY <1>1, <2>1, <2>2, <2>3
<1>3. ASSUME k \notin Resident, NEW v \in Resident,
             standby_cache' = [standby_cache EXCEPT ![v] = None, ![k] = state],
             metadata_store[v] # None =>
                         /\ bin' = [bin EXCEPT ![v] = standby_cache[v]]
                         /\ json' = [json EXCEPT ![v] = metadata_store[v]]
      PROVE  /\ TagsAgree' /\ PairsAgree'
             /\ Held(k)' = state /\ \A j \in Keys \ {k} : Held(j)' = Held(j)
  <2>1. /\ v \in Keys /\ v # k /\ standby_cache[v] \in Snapshot
        /\ metadata_store[v] \in CacheStateMetadata
        /\ Describes(metadata_store[v], standby_cache[v])
    BY <1>3, DescribesResident
  <2>2. /\ bin' = [bin EXCEPT ![v] = standby_cache[v]]
        /\ json' = [json EXCEPT ![v] = metadata_store[v]]
    BY <1>3, <2>1
  <2>3. TagsAgree'
    BY <1>1, <1>3, <2>1 DEF TagsAgree, Resident, Describes, TypeOK
  <2>4. PairsAgree'
    BY <2>1, <2>2 DEF PairsAgree, Describes, load_from_ssd_accepts, len, TypeOK
  <2>5. Held(k)' = state /\ \A j \in Keys \ {k} : Held(j)' = Held(j)
    BY <1>3, <2>1, <2>2 DEF Held, TypeOK
  <2>6. QED BY <2>3, <2>4, <2>5
<1>4. QED BY <1>1, <1>2, <1>3, PromoteCases

\* An eviction that fails removes the files of a state that is still in RAM.
LEMMA PromoteFailsKeeps ==
  ASSUME TypeOK, PairsAgree, NEW k \in Keys, promote_to_standby_fails(k)
  PROVE  /\ UNCHANGED standby_cache /\ PairsAgree'
         /\ \A j \in Keys : Held(j)' = Held(j)
         /\ k \notin Resident
         /\ bin'[k] = bin[k]
<1>1. PICK v \in select_eviction_victim : save_to_ssd_fails(v)
  BY DEF promote_to_standby_fails
<1>2. v \in Keys /\ standby_cache[v] # None
  BY VictimResident DEF Resident
<1>3. k \notin Resident /\ v # k /\ UNCHANGED standby_cache
  BY <1>2 DEF promote_to_standby_fails, MustEvict, Resident
<1>4. PairsAgree'
  BY <1>1, <1>2, NullLemma
  DEF PairsAgree, Describes, load_from_ssd_accepts, len, save_to_ssd_fails, TypeOK
<1>5. (\A j \in Keys : Held(j)' = Held(j)) /\ bin'[k] = bin[k]
  BY <1>1, <1>2, <1>3 DEF Held, save_to_ssd_fails, TypeOK
<1>6. QED BY <1>3, <1>4, <1>5

LEMMA TouchKeeps ==
  ASSUME TypeOK, NEW k \in Keys, Touch(k), NEW j \in Keys, NEW s,
         Describes(metadata_store[j], s)
  PROVE  /\ Describes(metadata_store'[j], s)
         /\ metadata_store'[j].model_tag = metadata_store[j].model_tag
<1>1. metadata_store' \in [Keys -> CacheStateMetadata \cup {None}]
  BY TouchType
<1>2. CASE j = k
  <2>1. metadata_store[k] \in CacheStateMetadata
    BY <1>2 DEF TypeOK, Describes
  <2>2. /\ metadata_store'[k] = [metadata_store[k] EXCEPT !.last_accessed = now]
        /\ [metadata_store[k] EXCEPT !.last_accessed = now] \in CacheStateMetadata
    BY <1>2, <2>1, NullLemma DEF Touch, TypeOK, CacheStateMetadata
  <2>3. QED BY <1>2, <2>1, <2>2, NullLemma DEF Describes, CacheStateMetadata
<1>3. CASE j # k
  BY <1>3 DEF Touch, TypeOK
<1>4. QED BY <1>2, <1>3

(***************************************************************************)
(* HotInv is preserved: one lemma per kind of step.                        *)
(***************************************************************************)

\* Metadata only move, or are those of the request that saves.
LEMMA ShiftsAsked ==
  ASSUME TagsAsked, NEW j \in Keys, MetaShifts(j),
         NEW meta \in {metadata_store'[j], json'[j]} \cap CacheStateMetadata
  PROVE  <<meta.model_tag, j, meta.prompt_hash>> \in Uses
<1>1. PICK old \in {metadata_store[j], json[j]} \cap CacheStateMetadata :
        meta.model_tag = old.model_tag /\ meta.prompt_hash = old.prompt_hash
  BY NullLemma DEF MetaShifts, Redates
<1>2. QED BY <1>1 DEF TagsAsked

LEMMA BeginAsked ==
  ASSUME ClientTypeOK, TagsAsked, NEW m \in Models, NEW k \in Keys, NEW h \in Hashes,
         <<m, k, h>> \in Uses, Begin(m, k, h)
  PROVE  TagsAsked'
<1>1. TypeOK /\ req \in [Models -> Request \cup {None}]
  BY DEF ClientTypeOK
<1>2. \A j \in Keys : MetaShifts(j)
  BY <1>1, LoadMeta DEF Begin
<1>3. \A n \in Models : req'[n] # None =>
        \/ req'[n] = req[n]
        \/ n = m /\ req'[n].key = k /\ req'[n].hash = h
  BY <1>1 DEF Begin, Hold, Release
<1>4. \A n \in Models : req'[n] # None => <<n, req'[n].key, req'[n].hash>> \in Uses
  BY <1>3 DEF TagsAsked
<1>5. QED BY <1>2, <1>4, ShiftsAsked DEF TagsAsked

LEMMA SaveAsked ==
  ASSUME ClientTypeOK, TagsAsked, NEW m \in Models, NEW r \in Roles, Save(m, r)
  PROVE  TagsAsked'
<1>1. TypeOK /\ req \in [Models -> Request \cup {None}]
  BY DEF ClientTypeOK
<1>2. PICK k \in Keys, h \in Hashes : k = req[m].key /\ h = req[m].hash
  BY <1>1 DEF Save, Request
<1>3. <<m, k, h>> \in Uses
  BY <1>2 DEF Save, TagsAsked
<1>4. \A n \in Models : req'[n] # None => <<n, req'[n].key, req'[n].hash>> \in Uses
  BY <1>1 DEF Save, TagsAsked, Request
<1>5. CASE save_cache(m, k, h, r)
  <2>1. \A j \in Keys \ {k} : MetaShifts(j)
    BY <1>1, <1>5, SaveMeta
  <2>2. /\ metadata_store'[k].model_tag = m /\ metadata_store'[k].prompt_hash = h
        /\ json'[k] = json[k]
    <3>1. metadata_store'[k] = NewMetadata(m, h, r) /\ json'[k] = json[k]
      BY <1>1, <1>5, SaveMeta
    <3>2. QED BY <3>1 DEF NewMetadata
  <2>3. \A meta \in {metadata_store'[k], json'[k]} \cap CacheStateMetadata :
          <<meta.model_tag, k, meta.prompt_hash>> \in Uses
    BY <1>3, <2>2 DEF TagsAsked
  <2>4. QED BY <1>4, <2>1, <2>3, ShiftsAsked DEF TagsAsked
<1>6. CASE save_cache_fails(k)
  BY <1>1, <1>4, <1>6, SaveFailsMeta, ShiftsAsked DEF TagsAsked
<1>7. QED BY <1>2, <1>5, <1>6 DEF Save

LEMMA AskedStays ==
  ASSUME ClientTypeOK, TagsAsked, NEW m \in Models, Evaluate(m) \/ Declare(m) \/ Finish(m)
  PROVE  TagsAsked'
<1>1. UNCHANGED <<metadata_store, json>>
  BY DEF Evaluate, Declare, mark_context_dirty, Finish, cacheVars
<1>2. \A n \in Models : req'[n] # None =>
        req[n] # None /\ req'[n].key = req[n].key /\ req'[n].hash = req[n].hash
  BY DEF ClientTypeOK, Evaluate, Declare, Finish, Release, Request
<1>3. QED BY <1>1, <1>2 DEF TagsAsked

\* The request of model m begins with its context holding the state of k, the
\* key that is hot afterwards.
LEMMA RestoredStep ==
  ASSUME ClientTypeOK, HotInv, NEW m \in Models, NEW k \in Keys,
         NEW h \in Hashes, NEW s \in Snapshot, s.model = m, s.hash = h,
         BecomesHot(k), ctx' = [ctx EXCEPT ![m] = s],
         Hold(m, k, h, "restored") \/ (req[m] = None /\ Release(m)),
         Held(k)' = s, Describes(metadata_store'[k], s)
  PROVE  HotIsResident' /\ ContextsOwned'
<1> USE NullLemma DEF ClientTypeOK, TypeOK
<1>1. /\ req'[m] = None \/ (/\ req'[m] # None
                            /\ req'[m].phase = "restored" /\ req'[m].hash = h)
      /\ \A i \in Models \ {m} : req'[i] = req[i] /\ ctx'[i] = ctx[i]
      /\ ctx'[m] = s
  <2>1. [key |-> k, hash |-> h, phase |-> "restored"] # None
        \/ req'[m] = None
    BY NoRequestAssumption DEF Request, Phases
  <2>2. QED BY <2>1 DEF Hold, Release
<1>2. ContextsOwned'
  BY <1>1 DEF HotInv, ContextsOwned
<1>3. HotIsResident'
  BY <1>1 DEF HotIsResident, BecomesHot, Describes
<1>4. QED BY <1>2, <1>3

\* The context and the hot key stay as they are, and the state and the
\* metadata of the hot key too.
LEMMA QuietStep ==
  ASSUME ClientTypeOK, HotInv, NEW m \in Models, NEW k \in Keys,
         NEW h \in Hashes, req[m] = None,
         Hold(m, k, h, "empty") \/ Release(m),
         UNCHANGED <<hot_state, hot_dirty, ctx>>,
         hot_state # None /\ ~hot_dirty =>
           /\ Held(hot_state)' = Held(hot_state)
           /\ metadata_store'[hot_state] = metadata_store[hot_state]
  PROVE  HotIsResident' /\ ContextsOwned'
<1> USE NullLemma DEF ClientTypeOK, TypeOK
<1>1. /\ req'[m] # None => req'[m].phase = "empty"
      /\ \A i \in Models \ {m} : req'[i] = req[i]
  BY DEF Hold, Release
<1>2. ContextsOwned'
  BY <1>1 DEF HotInv, ContextsOwned
<1>3. HotIsResident'
  <2>1. CASE hot_state # None /\ ~hot_dirty
    <3>1. /\ hot_state' = hot_state /\ hot_state \in Keys
          /\ metadata_store'[hot_state] = metadata_store[hot_state]
          /\ Held(hot_state)' = Held(hot_state) /\ ctx' = ctx
      BY <2>1
    <3>2. HotIsResident
      BY DEF HotInv
    <3>3. metadata_store[hot_state].model_tag = m =>
             ctx[m] = Held(hot_state)
      BY <2>1, <3>2 DEF HotIsResident
    <3>4. CASE metadata_store[hot_state].model_tag = m
      BY <1>1, <2>1, <3>1, <3>2, <3>3, <3>4 DEF HotIsResident, Describes
    <3>5. CASE metadata_store[hot_state].model_tag # m
      <4>1. metadata_store[hot_state].model_tag \in Models
        BY <2>1, <3>1, <3>2 DEF HotIsResident, Describes, CacheStateMetadata
      <4>2. QED
        BY <1>1, <2>1, <3>1, <3>2, <3>5, <4>1 DEF HotIsResident, Describes
    <3>6. QED BY <3>4, <3>5
  <2>2. CASE ~ (hot_state # None /\ ~hot_dirty)
    BY <2>2 DEF HotIsResident
  <2>3. QED BY <2>1, <2>2
<1>4. QED BY <1>2, <1>3

LEMMA BeginHotInv ==
  ASSUME Whole, ClientTypeOK, HotInv, NEW m \in Models, NEW k \in Keys,
         NEW h \in Hashes, <<m, k, h>> \in Uses, Begin(m, k, h)
  PROVE  HotInv'
<1> USE NullLemma
<1>0. TagsAsked'
  BY BeginAsked DEF HotInv
<1>1. TypeOK /\ req[m] = None /\ TagsAgree /\ PairsAgree /\ HotIsResident
  BY DEF Begin, ClientTypeOK, HotInv
<1>2. CASE LoadHot(m, k, h) /\ Hold(m, k, h, "restored")
  <2>1. /\ ~ Mismatch(m, k, h) /\ hot_state = k /\ ~hot_dirty /\ Touch(k)
        /\ UNCHANGED <<hot_state, hot_dirty, standby_cache, bin, json, ctx>>
    BY <1>2 DEF LoadHot, ServesHot
  <2>2. /\ Describes(metadata_store[k], Held(k)) /\ Held(k) \in Snapshot
        /\ metadata_store[k].model_tag = m /\ metadata_store[k].prompt_hash = h
        /\ ctx[m] = Held(k)
    BY <1>1, <2>1 DEF HotIsResident, Mismatch, Describes
  <2>3. Held(k) \in Snapshot /\ Held(k).model = m /\ Held(k).hash = h
    BY <2>2 DEF Describes
  <2>4. Held(k)' = Held(k) /\ Describes(metadata_store'[k], Held(k))
    BY <1>1, <2>1, <2>2, TouchKeeps DEF Held
  <2>5. HotIsResident' /\ ContextsOwned'
    <3>1. ctx' = [ctx EXCEPT ![m] = Held(k)] /\ BecomesHot(k)
      BY <1>1, <2>1, <2>2 DEF BecomesHot, TypeOK
    <3>2. Hold(m, k, h, "restored")
      BY <1>2
    <3>3. QED BY <2>3, <2>4, <3>1, <3>2, RestoredStep
  <2>6. TagsAgree'
    BY <1>1, <2>1, TouchKeeps DEF TagsAgree, Resident
  <2>7. PairsAgree'
    BY <1>1, <2>1 DEF PairsAgree, Describes, load_from_ssd_accepts, len
  <2>8. QED BY <1>0, <2>5, <2>6, <2>7 DEF HotInv
<1>3. CASE LoadStandby(m, k, h) /\ Hold(m, k, h, "restored")
  <2>1. /\ ~ Mismatch(m, k, h) /\ k \in Resident /\ Touch(k) /\ BecomesHot(k)
        /\ ctx' = [ctx EXCEPT ![m] = standby_cache[k]]
        /\ UNCHANGED <<standby_cache, bin, json>>
    BY <1>3 DEF LoadStandby, FromStandby, Resident
  <2>2. /\ standby_cache[k] \in Snapshot
        /\ Describes(metadata_store[k], standby_cache[k])
        /\ standby_cache[k].model = m /\ standby_cache[k].hash = h
    BY <1>1, <2>1, DescribesResident DEF Mismatch, Describes
  <2>3. /\ Held(k)' = standby_cache[k]
        /\ Describes(metadata_store'[k], standby_cache[k])
    BY <1>1, <2>1, <2>2, TouchKeeps DEF Held, Resident
  <2>4. Hold(m, k, h, "restored")
    BY <1>3
  <2>5. HotIsResident' /\ ContextsOwned'
    BY <2>1, <2>2, <2>3, <2>4, RestoredStep
  <2>6. TagsAgree'
    BY <1>1, <2>1, TouchKeeps DEF TagsAgree, Resident
  <2>7. PairsAgree'
    BY <1>1, <2>1 DEF PairsAgree, Describes, load_from_ssd_accepts, len
  <2>8. QED BY <1>0, <2>5, <2>6, <2>7 DEF HotInv
<1>4. CASE LoadCold(m, k, h) /\ Hold(m, k, h, "restored")
  <2> DEFINE meta == [json[k] EXCEPT !.last_accessed = now]
  <2>1. /\ bin[k] \in Snapshot /\ json[k] \in CacheStateMetadata
        /\ json[k].model_tag = m /\ json[k].prompt_hash = h
        /\ ctx' = [ctx EXCEPT ![m] = bin[k]]
        /\ BecomesHot(k) /\ promote_to_standby(k, bin[k], meta)
    BY <1>4 DEF LoadCold, ColdMatches, load_from_ssd_accepts
  <2>2. /\ meta \in CacheStateMetadata
        /\ meta.model_tag = m /\ meta.prompt_hash = h
    BY <1>1, <2>1 DEF TypeOK, CacheStateMetadata
  <2>3. bin[k].model = m /\ bin[k].hash = h /\ Describes(meta, bin[k])
    BY <1>1, <1>4, <2>1, <2>2 DEF PairsAgree, Describes, LoadCold, ColdMatches
  <2>4. /\ TagsAgree' /\ PairsAgree' /\ Held(k)' = bin[k]
        /\ metadata_store' = [metadata_store EXCEPT ![k] = meta]
    BY <1>1, <2>1, <2>2, <2>3, PromoteKeeps
  <2>5. Describes(metadata_store'[k], bin[k])
    BY <1>1, <2>3, <2>4 DEF TypeOK
  <2>6. Hold(m, k, h, "restored")
    BY <1>4
  <2>7. HotIsResident' /\ ContextsOwned'
    BY <2>1, <2>3, <2>4, <2>5, <2>6, RestoredStep
  <2>8. QED BY <1>0, <2>4, <2>7 DEF HotInv
<1>5. CASE \/ LoadMisses(m, k, h) /\ Hold(m, k, h, "empty")
           \/ LoadColdRejected(m, k, h) /\ Release(m)
           \/ LoadColdFails(m, k, h) /\ Release(m)
  <2>1. UNCHANGED <<hot_state, hot_dirty, metadata_store, standby_cache,
                    bin, json, ctx>>
    BY <1>5 DEF LoadMisses, LoadMismatch, LoadAbsent, LoadColdRejected,
                LoadColdFails, cacheVars, deserialize_llama_state_fails, Whole
  <2>2. Hold(m, k, h, "empty") \/ Release(m)
    BY <1>5
  <2>3. Held(hot_state)' = Held(hot_state)
    BY <2>1 DEF Held
  <2>4. HotIsResident' /\ ContextsOwned'
    BY <1>1, <2>1, <2>2, <2>3, QuietStep
  <2>5. TagsAgree' /\ PairsAgree'
    BY <1>1, <2>1
    DEF TagsAgree, PairsAgree, Resident, Describes, load_from_ssd_accepts, len
  <2>6. QED BY <1>0, <2>4, <2>5 DEF HotInv
<1>6. CASE LoadStandbyFails(m, k, h) /\ Release(m)
  <2>1. /\ standby_cache' = [standby_cache EXCEPT ![k] = None]
        /\ metadata_store' = [metadata_store EXCEPT ![k] = None]
        /\ ~ (hot_state = k /\ ~hot_dirty)
        /\ UNCHANGED <<hot_state, hot_dirty, bin, json, ctx>>
    BY <1>6 DEF LoadStandbyFails, FromStandby, ServesHot,
                deserialize_llama_state_fails, Whole
  <2>2. hot_state # None /\ ~hot_dirty =>
           /\ Held(hot_state)' = Held(hot_state)
           /\ metadata_store'[hot_state] = metadata_store[hot_state]
    BY <1>1, <2>1 DEF TypeOK, Held
  <2>3. Release(m)
    BY <1>6
  <2>4. HotIsResident' /\ ContextsOwned'
    BY <1>1, <2>1, <2>2, <2>3, QuietStep
  <2>5. TagsAgree' /\ PairsAgree'
    BY <1>1, <2>1
    DEF TagsAgree, PairsAgree, Resident, Describes, load_from_ssd_accepts, len, TypeOK
  <2>6. QED BY <1>0, <2>4, <2>5 DEF HotInv
<1>7. CASE LoadColdNoRoom(m, k, h) /\ Release(m)
  <2>1. /\ bin[k] \in Snapshot /\ json[k] \in CacheStateMetadata
        /\ json[k].model_tag = m /\ json[k].prompt_hash = h
        /\ ctx' = [ctx EXCEPT ![m] = bin[k]]
        /\ BecomesHot(k) /\ promote_to_standby_fails(k)
        /\ metadata_store' = [metadata_store EXCEPT ![k] = json[k]]
    BY <1>7 DEF LoadColdNoRoom, ColdMatches, load_from_ssd_accepts
  <2>2. /\ PairsAgree' /\ UNCHANGED standby_cache /\ k \notin Resident
        /\ bin'[k] = bin[k]
    BY <1>1, <2>1, PromoteFailsKeeps
  <2>3. /\ bin[k].model = m /\ bin[k].hash = h /\ Describes(json[k], bin[k])
        /\ Held(k)' = bin[k]
    BY <1>1, <1>7, <2>1, <2>2
    DEF PairsAgree, Describes, Held, Resident, LoadColdNoRoom, ColdMatches
  <2>4. Describes(metadata_store'[k], bin[k])
    BY <1>1, <2>1, <2>3 DEF TypeOK
  <2>5. Release(m)
    BY <1>7
  <2>6. HotIsResident' /\ ContextsOwned'
    BY <1>1, <2>1, <2>3, <2>4, <2>5, RestoredStep
  <2>7. TagsAgree'
    BY <1>1, <2>1, <2>2 DEF TagsAgree, Resident, Describes, TypeOK
  <2>8. QED BY <1>0, <2>2, <2>6, <2>7 DEF HotInv
<1>8. QED
  BY <1>2, <1>3, <1>4, <1>5, <1>6, <1>7 DEF Begin, LoadHits, LoadRaises

LEMMA EvaluateHotInv ==
  ASSUME ClientTypeOK, HotInv, NEW m \in Models, Evaluate(m)
  PROVE  HotInv'
<1> USE NullLemma DEF ClientTypeOK, TypeOK
<1>1. /\ req[m] \in Request /\ req[m] # None
      /\ UNCHANGED <<hot_state, hot_dirty, metadata_store, standby_cache,
                     bin, json>>
  BY DEF Evaluate
<1>2. /\ req'[m] # None /\ req'[m].hash = req[m].hash
      /\ req[m].phase # "declared" => req'[m].phase = "advanced"
      /\ \A i \in Models \ {m} : req'[i] = req[i]
  <2>1. req'[m] = [req[m] EXCEPT !.phase = IF @ = "declared" THEN @ ELSE "advanced"]
    BY DEF Evaluate
  <2>2. req'[m] \in Request
    BY <1>1, <2>1 DEF Request, Phases
  <2>3. QED
    BY <1>1, <2>1, <2>2, NoRequestAssumption DEF Evaluate, Request
<1>3. /\ ctx'[m].model = m /\ ctx'[m].hash = req[m].hash
      /\ \A i \in Models \ {m} : ctx'[i] = ctx[i]
  BY <1>1 DEF Evaluate, HotInv, ContextsOwned, Snapshot
<1>4. ContextsOwned'
  BY <1>2, <1>3 DEF HotInv, ContextsOwned
<1>5. HotIsResident'
  <2>1. CASE hot_state # None /\ ~hot_dirty
    <3>1. /\ HotIsResident /\ hot_state \in Keys
          /\ Held(hot_state)' = Held(hot_state)
      BY <1>1, <2>1 DEF HotInv, Held
    <3>2. metadata_store[hot_state].model_tag = m => req[m].phase # "declared"
      BY <1>1, <2>1, <3>1 DEF HotIsResident
    <3>3. metadata_store[hot_state].model_tag \in Models
      BY <2>1, <3>1 DEF HotIsResident, Describes, CacheStateMetadata
    <3>4. QED
      BY <1>1, <1>2, <1>3, <2>1, <3>1, <3>2, <3>3 DEF HotIsResident, Describes
  <2>2. CASE ~ (hot_state # None /\ ~hot_dirty)
    BY <1>1, <2>2 DEF HotIsResident
  <2>3. QED BY <2>1, <2>2
<1>6. TagsAgree' /\ PairsAgree'
  BY <1>1
  DEF HotInv, TagsAgree, PairsAgree, Resident, Describes, load_from_ssd_accepts, len
<1>7. TagsAsked'
  BY AskedStays DEF HotInv
<1>8. QED BY <1>4, <1>5, <1>6, <1>7 DEF HotInv

LEMMA DeclareHotInv ==
  ASSUME ClientTypeOK, HotInv, NEW m \in Models, Declare(m)
  PROVE  HotInv'
<1>1. /\ hot_dirty' = TRUE /\ req[m].phase = "advanced" /\ req[m] # None
      /\ UNCHANGED <<metadata_store, standby_cache, bin, json, ctx>>
  BY DEF Declare, mark_context_dirty
<1>2. /\ req'[m].hash = req[m].hash
      /\ \A i \in Models \ {m} : req'[i] = req[i]
  BY <1>1 DEF Declare, ClientTypeOK, Request
<1>3. ContextsOwned'
  BY <1>1, <1>2 DEF HotInv, ContextsOwned
<1>4. HotIsResident'
  BY <1>1 DEF HotIsResident
<1>5. TagsAgree' /\ PairsAgree'
  BY <1>1
  DEF HotInv, TagsAgree, PairsAgree, Resident, Describes, load_from_ssd_accepts, len
<1>6. TagsAsked'
  BY AskedStays DEF HotInv
<1>7. QED BY <1>3, <1>4, <1>5, <1>6 DEF HotInv

LEMMA FinishHotInv ==
  ASSUME ClientTypeOK, HotInv, NEW m \in Models, Finish(m)
  PROVE  HotInv'
<1> USE NullLemma DEF ClientTypeOK, TypeOK
<1>1. /\ req[m] # None /\ req[m].phase # "advanced"
      /\ req' = [req EXCEPT ![m] = None]
      /\ UNCHANGED <<hot_state, hot_dirty, metadata_store, standby_cache,
                     bin, json, ctx>>
  BY DEF Finish, Release, cacheVars
<1>2. ContextsOwned'
  BY <1>1 DEF HotInv, ContextsOwned
<1>3. HotIsResident'
  <2>1. CASE hot_state # None /\ ~hot_dirty
    <3>1. /\ HotIsResident /\ hot_state \in Keys
          /\ Held(hot_state)' = Held(hot_state)
      BY <1>1, <2>1 DEF HotInv, Held
    <3>2. metadata_store[hot_state].model_tag \in Models
      BY <2>1, <3>1 DEF HotIsResident, Describes, CacheStateMetadata
    <3>3. QED
      BY <1>1, <2>1, <3>1, <3>2 DEF HotIsResident, Describes
  <2>2. CASE ~ (hot_state # None /\ ~hot_dirty)
    BY <1>1, <2>2 DEF HotIsResident
  <2>3. QED BY <2>1, <2>2
<1>4. TagsAgree' /\ PairsAgree'
  BY <1>1
  DEF HotInv, TagsAgree, PairsAgree, Resident, Describes, load_from_ssd_accepts, len
<1>5. TagsAsked'
  BY AskedStays DEF HotInv
<1>6. QED BY <1>2, <1>3, <1>4, <1>5 DEF HotInv

LEMMA SaveHotInv ==
  ASSUME ClientTypeOK, HotInv, NEW m \in Models, NEW r \in Roles, Save(m, r)
  PROVE  HotInv'
<1> USE NullLemma DEF ClientTypeOK
<1>0. PICK k \in Keys, h \in Hashes : k = req[m].key /\ h = req[m].hash
  BY DEF Save, Request
<1>1. /\ req[m] \in Request /\ req[m] # None
      /\ req[m].phase \in {"advanced", "declared"}
  BY DEF Save
<1>2. /\ ctx[m] \in Snapshot /\ ctx[m].model = m /\ ctx[m].hash = h
  BY <1>0, <1>1 DEF HotInv, ContextsOwned, TypeOK
<1>9. TagsAsked'
  BY SaveAsked DEF HotInv
<1>3. CASE /\ save_cache(m, k, h, r)
           /\ req' = [req EXCEPT ![m].phase = "restored"]
  <2>1. PICK meta \in CacheStateMetadata :
          /\ meta = NewMetadata(m, h, r)
          /\ meta.model_tag = m /\ meta.prompt_hash = h
    <3>1. NewMetadata(m, h, r) \in CacheStateMetadata
      BY <1>1, <1>2, LenType DEF NewMetadata, CacheStateMetadata, TypeOK
    <3>2. /\ NewMetadata(m, h, r).model_tag = m
          /\ NewMetadata(m, h, r).prompt_hash = h
      BY DEF NewMetadata
    <3>3. QED BY <3>1, <3>2
  <2>2. Describes(meta, ctx[m])
    BY <1>2, <2>1 DEF Describes
  <2>3. /\ promote_to_standby(k, ctx[m], meta) /\ BecomesHot(k)
        /\ UNCHANGED ctx
    BY <1>3, <2>1 DEF save_cache
  <2>4. /\ TagsAgree' /\ PairsAgree' /\ Held(k)' = ctx[m]
        /\ metadata_store' = [metadata_store EXCEPT ![k] = meta]
    BY <1>1, <1>2, <2>1, <2>2, <2>3, PromoteKeeps DEF HotInv
  <2>5. /\ req'[m] # None /\ req'[m].phase = "restored" /\ req'[m].hash = h
        /\ \A i \in Models \ {m} : req'[i] = req[i]
    <3>1. req'[m] = [req[m] EXCEPT !.phase = "restored"]
      BY <1>3
    <3>2. [req[m] EXCEPT !.phase = "restored"] \in Request
      BY <1>1 DEF Request, Phases
    <3>3. QED BY <1>0, <1>1, <1>3, <3>1, <3>2, NoRequestAssumption DEF Request
  <2>6. ContextsOwned'
    BY <1>1, <1>2, <2>3, <2>5 DEF HotInv, ContextsOwned
  <2>7. HotIsResident'
    BY <1>1, <1>2, <2>1, <2>2, <2>3, <2>4, <2>5
    DEF HotIsResident, BecomesHot, Describes, TypeOK
  <2>8. QED BY <1>9, <2>4, <2>6, <2>7 DEF HotInv
<1>4. CASE save_cache_fails(k) /\ UNCHANGED req
  <2>1. /\ UNCHANGED <<hot_state, hot_dirty, metadata_store, standby_cache, ctx>>
        /\ PairsAgree' /\ \A j \in Keys : Held(j)' = Held(j)
    <3>1. CASE UNCHANGED <<standby_cache, bin, json>>
      BY <1>4, <3>1
      DEF save_cache_fails, HotInv, PairsAgree, Describes, Held, load_from_ssd_accepts, len
    <3>2. CASE promote_to_standby_fails(k)
      BY <1>1, <1>4, <3>2, PromoteFailsKeeps DEF save_cache_fails, HotInv
    <3>3. QED BY <1>4, <3>1, <3>2 DEF save_cache_fails
  <2>2. TagsAgree' /\ ContextsOwned'
    BY <1>4, <2>1 DEF HotInv, TagsAgree, ContextsOwned, Resident, Describes
  <2>3. HotIsResident'
    BY <1>4, <2>1 DEF HotInv, HotIsResident, Describes, TypeOK
  <2>4. QED BY <1>9, <2>1, <2>2, <2>3 DEF HotInv
<1>5. QED BY <1>0, <1>3, <1>4 DEF Save

LEMMA StillHotInv ==
  ASSUME HotInv, Time \/ UNCHANGED vars PROVE HotInv'
<1>1. UNCHANGED <<hot_state, hot_dirty, metadata_store, standby_cache,
                  bin, json, ctx, req>>
  BY DEF Time, Tick, vars
<1>2. QED
  BY <1>1 DEF HotInv, TagsAgree, PairsAgree, TagsAsked, HotIsResident, ContextsOwned,
              Resident, Describes, Held, load_from_ssd_accepts, len

LEMMA InitHotInv == Init => HotInv
BY NullLemma DEF Init, CacheInit, HotInv, TagsAgree, PairsAgree, TagsAsked,
                 HotIsResident, ContextsOwned, Resident, load_from_ssd_accepts

\* A restart forgets what was in RAM.  A binary that was written before its
\* metadata is beside those of an earlier save of the key: by the same model and
\* from the same prompt, since the key has no others.
LEMMA CrashHotInv ==
  ASSUME Whole, ClientTypeOK, HotInv, Crash
  PROVE  HotInv'
<1> USE NullLemma
<1>1. TypeOK /\ TagsAgree /\ PairsAgree /\ TagsAsked /\ OneUsePerKey
  BY DEF ClientTypeOK, HotInv, Crash, Restart, Whole
<1>2. /\ Resident' = {} /\ hot_state' = None
      /\ \A m \in Models : req'[m] = None /\ ctx'[m].model = m
      /\ \A j \in Keys : metadata_store'[j] = None
  BY DEF Crash, Restart, Resident
<1>3. TagsAgree' /\ HotIsResident' /\ ContextsOwned'
  BY <1>2 DEF TagsAgree, HotIsResident, ContextsOwned
<1>4. TagsAsked'
  BY <1>1, <1>2, RestartMeta DEF Crash, TagsAsked
<1>5. CASE UNCHANGED files
  <2>1. PairsAgree'
    BY <1>1, <1>5 DEF files, PairsAgree, Describes, load_from_ssd_accepts, len
  <2>2. QED BY <1>3, <1>4, <2>1 DEF HotInv
<1>6. ASSUME NEW v \in select_eviction_victim, metadata_store[v] # None,
             save_to_ssd_torn(v)
      PROVE  PairsAgree'
  <2>1. /\ v \in Keys /\ standby_cache[v] \in Snapshot
        /\ metadata_store[v] \in CacheStateMetadata
        /\ Describes(metadata_store[v], standby_cache[v])
    BY <1>1, VictimResident, DescribesResident
  <2>2. SUFFICES ASSUME NEW j \in Keys, bin'[j] \in Snapshot,
                        json'[j] \in CacheStateMetadata, len(bin'[j]) = json'[j].state_size
                 PROVE  Describes(json'[j], bin'[j])
    BY DEF PairsAgree, Describes, load_from_ssd_accepts, len
  <2>3. CASE j # v
    <3>1. bin'[j] = bin[j] /\ json'[j] = json[j]
      BY <1>1, <1>6, <2>1, <2>3 DEF save_to_ssd_torn, TypeOK
    <3>2. QED BY <1>1, <2>2, <3>1 DEF PairsAgree, load_from_ssd_accepts
  <2>4. CASE j = v
    <3>1. bin'[v] = standby_cache[v] /\ json'[v] = json[v]
      BY <1>1, <1>6, <2>1, <2>2, <2>4 DEF save_to_ssd_torn, TypeOK
    <3>2. /\ <<metadata_store[v].model_tag, v, metadata_store[v].prompt_hash>> \in Uses
          /\ <<json[v].model_tag, v, json[v].prompt_hash>> \in Uses
      BY <1>1, <2>1, <2>2, <2>4, <3>1 DEF TagsAsked
    <3>3. /\ metadata_store[v].model_tag = json[v].model_tag
          /\ metadata_store[v].prompt_hash = json[v].prompt_hash
      BY <1>1, <3>2 DEF OneUsePerKey
    <3>4. QED BY <2>1, <2>2, <2>4, <3>1, <3>3 DEF Describes
  <2>5. QED BY <2>3, <2>4
<1>7. QED BY <1>3, <1>4, <1>5, <1>6 DEF Crash, Restart, HotInv

LEMMA NextHotInv == Whole /\ IInv /\ [Next]_vars => IInv'
<1>1. SUFFICES ASSUME Whole, ClientTypeOK, HotInv, [Next]_vars PROVE HotInv'
  BY NextType DEF IInv
<1>2. ASSUME NEW u \in Uses, Begin(u[1], u[2], u[3]) PROVE HotInv'
  <2>1. u[1] \in Models /\ u[2] \in Keys /\ u[3] \in Hashes
    BY UsesAssumption
  <2>2. <<u[1], u[2], u[3]>> \in Uses
    BY UsesAssumption
  <2>3. QED BY <1>1, <1>2, <2>1, <2>2, BeginHotInv
<1>3. QED
  BY <1>1, <1>2, CrashHotInv, EvaluateHotInv, DeclareHotInv, FinishHotInv, SaveHotInv,
     StillHotInv DEF Next

LEMMA IInvCorrect == ASSUME Whole PROVE Spec => []IInv
<1>1. Init => IInv
  BY InitType, InitHotInv DEF IInv
<1>2. IInv /\ [Next]_vars => IInv'
  BY NextHotInv
<1>3. QED BY <1>1, <1>2, PTL DEF Spec

(***************************************************************************)
(* The results.                                                            *)
(***************************************************************************)

\* A request served HOT, for which nothing is restored, finds in its model
\* exactly the state saved under its key, computed by this model from this
\* prompt, however the models share the one hot_state of the manager.
THEOREM HotCorrect == ASSUME Whole PROVE Spec => []HotIsLossless
<1>1. IInv => HotIsLossless
  <2>1. SUFFICES ASSUME IInv, NEW u \in Uses, req[u[1]] = None,
                        ~ Mismatch(u[1], u[2], u[3]), ServesHot(u[2])
                 PROVE  /\ ctx[u[1]] = Held(u[2])
                        /\ ctx[u[1]].model = u[1] /\ ctx[u[1]].hash = u[3]
    BY DEF HotIsLossless
  <2>2. u[1] \in Models /\ u[2] \in Keys /\ u[3] \in Hashes
    BY UsesAssumption
  <2>3. HotIsResident /\ hot_state = u[2] /\ ~hot_dirty /\ hot_state # None
    BY <2>1, <2>2, NullLemma DEF IInv, HotInv, ServesHot
  <2>4. QED
    BY <2>1, <2>2, <2>3 DEF HotIsResident, Describes, Mismatch
<1>2. QED BY <1>1, IInvCorrect, PTL

\* Whatever pair of files load_from_ssd accepts was computed by the model and
\* from the prompt its metadata names.
THEOREM ColdCorrect == ASSUME Whole PROVE Spec => []ColdIsConsistent
<1>1. IInv => ColdIsConsistent
  BY DEF IInv, HotInv, PairsAgree, ColdIsConsistent, Describes
<1>2. QED BY <1>1, IInvCorrect, PTL

----------------------------------------------------------------------------
(***************************************************************************)
(* The three tiers implement the flat map of FlatStore, for all constants, *)
(* as long as every state that was written can be decoded again and the    *)
(* process does not die.                                                   *)
(*                                                                         *)
(* The refinement needs to know that the checks of load_cache decide by    *)
(* the state itself: metadata are there exactly for the keys that are held *)
(* and describe, length included, what is held (HeldFits), and so do the   *)
(* files (FilesFit).  Then a request is let through just when the map has  *)
(* its state.                                                              *)
(***************************************************************************)

Decodes == Faults \cap {"decode", "load_state", "crash"} = {}

Fits(meta, state) == Describes(meta, state) /\ meta.state_size = len(state)

HeldFits ==
  \A k \in Keys :
    /\ Held(k) = None => metadata_store[k] = None
    /\ Held(k) # None => Fits(metadata_store[k], Held(k))

FilesFit ==
  \A k \in Keys : bin[k] # None =>
    /\ bin[k] \in Snapshot /\ json[k] \in CacheStateMetadata
    /\ Fits(json[k], bin[k])

FlatInv == HeldFits /\ FilesFit

----------------------------------------------------------------------------
(* The invariant.                                                          *)

LEMMA PromoteFits ==
  ASSUME TypeOK, TagsAgree, PairsAgree, FlatInv, NEW k \in Keys,
         NEW state \in Snapshot, NEW meta \in CacheStateMetadata, Fits(meta, state),
         promote_to_standby(k, state, meta)
  PROVE  FlatInv'
<1> USE NullLemma
<1>1. /\ Held(k)' = state
      /\ \A j \in Keys \ {k} : Held(j)' = Held(j)
      /\ metadata_store' = [metadata_store EXCEPT ![k] = meta]
  BY PromoteKeeps DEF Fits
<1>2. HeldFits'
  <2>1. SUFFICES ASSUME NEW j \in Keys
                 PROVE  /\ Held(j)' = None => metadata_store'[j] = None
                        /\ Held(j)' # None => Fits(metadata_store'[j], Held(j)')
    BY DEF HeldFits, Fits, Describes
  <2>2. CASE j = k
    BY <1>1, <2>2 DEF TypeOK
  <2>3. CASE j # k
    BY <1>1, <2>3 DEF TypeOK, FlatInv, HeldFits
  <2>4. QED BY <2>2, <2>3
<1>3. CASE UNCHANGED <<bin, json>>
  BY <1>2, <1>3 DEF FlatInv, FilesFit, Fits, Describes
<1>4. ASSUME NEW v \in Resident,
             metadata_store[v] # None =>
               /\ bin' = [bin EXCEPT ![v] = standby_cache[v]]
               /\ json' = [json EXCEPT ![v] = metadata_store[v]]
      PROVE  FlatInv'
  <2>1. v \in Keys /\ standby_cache[v] # None /\ Held(v) = standby_cache[v]
    BY DEF Resident, Held
  <2>2. Fits(metadata_store[v], standby_cache[v]) /\ metadata_store[v] # None
    BY <2>1 DEF FlatInv, HeldFits, Fits, Describes
  <2>3. SUFFICES ASSUME NEW j \in Keys, bin'[j] # None
                 PROVE  /\ bin'[j] \in Snapshot /\ json'[j] \in CacheStateMetadata
                        /\ Fits(json'[j], bin'[j])
    BY <1>2 DEF FlatInv, FilesFit, Fits, Describes
  <2>4. CASE j = v
    BY <1>4, <2>1, <2>2, <2>4 DEF TypeOK
  <2>5. CASE j # v
    BY <1>4, <2>1, <2>2, <2>3, <2>5 DEF TypeOK, FlatInv, FilesFit
  <2>6. QED BY <2>4, <2>5
<1>5. QED BY <1>3, <1>4, PromoteCases

\* Files are removed, but no state is.
LEMMA PromoteFailsFits ==
  ASSUME TypeOK, PairsAgree, FlatInv, NEW k \in Keys, promote_to_standby_fails(k)
  PROVE  FilesFit' /\ \A j \in Keys : Held(j)' = Held(j)
<1>1. PICK v \in select_eviction_victim : save_to_ssd_fails(v)
  BY DEF promote_to_standby_fails
<1>2. v \in Keys
  BY VictimResident
<1>3. SUFFICES ASSUME NEW j \in Keys, bin'[j] # None
               PROVE  /\ bin'[j] \in Snapshot /\ json'[j] \in CacheStateMetadata
                      /\ Fits(json'[j], bin'[j])
  BY PromoteFailsKeeps DEF FilesFit, Fits, Describes
<1>4. bin'[j] = bin[j] /\ json'[j] = json[j]
  BY <1>1, <1>2, <1>3 DEF save_to_ssd_fails, TypeOK
<1>5. QED BY <1>3, <1>4 DEF FlatInv, FilesFit

LEMMA TouchFits ==
  ASSUME TypeOK, FlatInv, NEW k \in Keys, Touch(k), UNCHANGED <<standby_cache, bin, json>>
  PROVE  FlatInv'
<1> USE NullLemma
<1>1. FilesFit'
  BY DEF FlatInv, FilesFit, Fits, Describes
<1>2. SUFFICES ASSUME NEW j \in Keys
               PROVE  /\ Held(j)' = None => metadata_store'[j] = None
                      /\ Held(j)' # None => Fits(metadata_store'[j], Held(j)')
  BY <1>1 DEF FlatInv, HeldFits, Fits, Describes
<1>3. Held(j)' = Held(j)
  BY DEF Held
<1>4. CASE metadata_store'[j] = metadata_store[j]
  BY <1>3, <1>4 DEF FlatInv, HeldFits
<1>5. CASE j = k /\ metadata_store[k] # None
  <2>1. metadata_store[k] \in CacheStateMetadata
    BY <1>5 DEF TypeOK
  <2>2. metadata_store'[k] = [metadata_store[k] EXCEPT !.last_accessed = now]
    BY <1>5 DEF Touch, TypeOK
  <2>3. /\ metadata_store'[k] # None
        /\ metadata_store'[k].model_tag = metadata_store[k].model_tag
        /\ metadata_store'[k].prompt_hash = metadata_store[k].prompt_hash
        /\ metadata_store'[k].state_size = metadata_store[k].state_size
    <3>1. [metadata_store[k] EXCEPT !.last_accessed = now] \in CacheStateMetadata
      BY <2>1 DEF TypeOK, CacheStateMetadata
    <3>2. QED BY <2>1, <2>2, <3>1 DEF CacheStateMetadata
  <2>4. Held(k) # None /\ Fits(metadata_store[k], Held(k))
    BY <1>5 DEF FlatInv, HeldFits
  <2>5. QED BY <1>3, <1>5, <2>3, <2>4 DEF Fits, Describes
<1>6. QED BY <1>4, <1>5 DEF Touch, TypeOK

\* Whoever gets past the comparison of model and prompt is held a state of his.
LEMMA MatchFits ==
  ASSUME FlatInv, NEW m, NEW k \in Keys, NEW h, ~ Mismatch(m, k, h), Held(k) # None
  PROVE  Held(k).model = m /\ Held(k).hash = h
BY DEF FlatInv, HeldFits, Fits, Describes, Mismatch

\* ... and the checks on the files let him through.
LEMMA ColdFits ==
  ASSUME TypeOK, PairsAgree, FlatInv, NEW m, NEW k \in Keys, NEW h, FromCold(m, k, h)
  PROVE  ColdMatches(m, k, h) /\ Held(k) = bin[k]
<1>1. Held(k) = bin[k] /\ bin[k] # None /\ ~ Mismatch(m, k, h)
  BY DEF FromCold, Held
<1>2. bin[k].model = m /\ bin[k].hash = h
  BY <1>1, MatchFits
<1>3. /\ bin[k] \in Snapshot /\ json[k] \in CacheStateMetadata
      /\ Fits(json[k], bin[k])
  BY <1>1 DEF PairsAgree, FlatInv, FilesFit
<1>4. QED BY <1>1, <1>2, <1>3 DEF ColdMatches, load_from_ssd_accepts, Fits, Describes

----------------------------------------------------------------------------
(* The map, step by step.                                                  *)

FlatReq == [m \in Models |->
              IF req[m] # None /\ req[m].phase = "declared"
              THEN [req[m] EXCEPT !.phase = "advanced"] ELSE req[m]]

\* A request that begins is the request the map serves.
LEMMA HoldServes ==
  ASSUME ClientTypeOK, NEW m \in Models, NEW k \in Keys, NEW h \in Hashes,
         NEW p \in {"restored", "empty"}, Hold(m, k, h, p)
  PROVE  Flat!Serve(m, k, h, p)
<1> DEFINE r == [key |-> k, hash |-> h, phase |-> p]
<1>1. req' = [req EXCEPT ![m] = r]
  BY DEF Hold
<1>2. r.phase # "declared"
  OBVIOUS
<1> HIDE DEF r
<1>3. FlatReq' = [FlatReq EXCEPT ![m] = r]
  BY <1>1, <1>2 DEF FlatReq, ClientTypeOK
<1>4. QED BY <1>3 DEF Flat!Serve, FlatReq, r

\* A request that is let through gets what the map has for it.
LEMMA RestoredGets ==
  ASSUME ClientTypeOK, NEW m \in Models, NEW k \in Keys, NEW h \in Hashes,
         req[m] = None, Held(k) # None, Held(k).model = m, Held(k).hash = h,
         ctx' = [ctx EXCEPT ![m] = Held(k)],
         Hold(m, k, h, "restored") \/ Release(m),
         \A j \in Keys : Held(j)' = Held(j)
  PROVE  Flat!Get(m, k, h)
<1>1. Flat!Serve(m, k, h, "restored") \/ UNCHANGED FlatReq
  <2>1. CASE Hold(m, k, h, "restored")
    BY <2>1, HoldServes
  <2>2. CASE Release(m)
    <3>1. req' = req
      BY <2>2 DEF Release, ClientTypeOK
    <3>2. QED BY <3>1 DEF FlatReq
  <2>3. QED BY <2>1, <2>2
<1>2. QED BY <1>1 DEF Flat!Get, Flat!Usable, FlatReq

LEMMA NothingRefused ==
  ASSUME ClientTypeOK, NEW m \in Models, NEW k \in Keys, NEW h \in Hashes,
         req[m] = None, Hold(m, k, h, "empty"), UNCHANGED <<standby_cache, bin, ctx>>,
         ~ (Held(k) # None /\ Held(k).model = m /\ Held(k).hash = h)
  PROVE  Flat!Refuse(m, k, h)
<1>1. Flat!Serve(m, k, h, "empty")
  BY HoldServes
<1>2. \A j \in Keys : Held(j)' = Held(j)
  BY DEF Held
<1>3. QED BY <1>1, <1>2 DEF Flat!Refuse, Flat!Usable

LEMMA BeginFlat ==
  ASSUME Decodes, IInv, FlatInv, NEW m \in Models, NEW k \in Keys, NEW h \in Hashes,
         Begin(m, k, h)
  PROVE  FlatInv' /\ (Flat!Get(m, k, h) \/ Flat!Refuse(m, k, h))
<1> USE NullLemma
<1>1. /\ ClientTypeOK /\ TypeOK /\ TagsAgree /\ PairsAgree /\ HotIsResident
      /\ req[m] = None
  BY DEF IInv, HotInv, ClientTypeOK, Begin
<1>2. ~ deserialize_llama_state_fails(m)
  BY DEF deserialize_llama_state_fails, Decodes
<1>3. CASE LoadHot(m, k, h) /\ Hold(m, k, h, "restored")
  <2>1. /\ ~ Mismatch(m, k, h) /\ hot_state = k /\ ~ hot_dirty /\ Touch(k)
        /\ UNCHANGED <<standby_cache, bin, json, ctx>>
    BY <1>3 DEF LoadHot, ServesHot
  <2>2. Held(k) # None /\ ctx[m] = Held(k)
    BY <1>1, <2>1 DEF HotIsResident, Mismatch, Describes
  <2>3. Held(k).model = m /\ Held(k).hash = h
    BY <2>1, <2>2, MatchFits
  <2>4. (\A j \in Keys : Held(j)' = Held(j)) /\ ctx' = [ctx EXCEPT ![m] = Held(k)]
    BY <1>1, <2>1, <2>2 DEF Held, TypeOK
  <2>5. FlatInv'
    BY <1>1, <2>1, TouchFits
  <2>6. QED BY <1>1, <1>3, <2>2, <2>3, <2>4, <2>5, RestoredGets
<1>4. CASE LoadStandby(m, k, h) /\ Hold(m, k, h, "restored")
  <2>1. /\ ~ Mismatch(m, k, h) /\ standby_cache[k] # None /\ Touch(k)
        /\ UNCHANGED <<standby_cache, bin, json>>
        /\ ctx' = [ctx EXCEPT ![m] = standby_cache[k]]
    BY <1>4 DEF LoadStandby, FromStandby
  <2>2. Held(k) = standby_cache[k]
    BY <2>1 DEF Held
  <2>3. Held(k).model = m /\ Held(k).hash = h
    BY <2>1, <2>2, MatchFits
  <2>4. \A j \in Keys : Held(j)' = Held(j)
    BY <2>1 DEF Held
  <2>5. FlatInv'
    BY <1>1, <2>1, TouchFits
  <2>6. QED BY <1>1, <1>4, <2>1, <2>2, <2>3, <2>4, <2>5, RestoredGets
<1>5. CASE LoadCold(m, k, h) /\ Hold(m, k, h, "restored")
  <2> DEFINE meta == [json[k] EXCEPT !.last_accessed = now]
  <2>1. /\ ColdMatches(m, k, h) /\ FromCold(m, k, h)
        /\ ctx' = [ctx EXCEPT ![m] = bin[k]]
        /\ promote_to_standby(k, bin[k], meta)
    BY <1>5 DEF LoadCold
  <2>2. Held(k) = bin[k] /\ bin[k] # None /\ ~ Mismatch(m, k, h)
    BY <2>1 DEF FromCold, Held
  <2>3. Held(k).model = m /\ Held(k).hash = h
    BY <2>2, MatchFits
  <2>4. /\ bin[k] \in Snapshot /\ json[k] \in CacheStateMetadata
        /\ Fits(json[k], bin[k])
    BY <2>1, <2>2 DEF ColdMatches, load_from_ssd_accepts, FlatInv, FilesFit
  <2>5. meta \in CacheStateMetadata /\ Fits(meta, bin[k])
    <3>1. meta \in CacheStateMetadata
      BY <1>1, <2>4 DEF TypeOK, CacheStateMetadata
    <3>2. /\ meta.model_tag = json[k].model_tag /\ meta.prompt_hash = json[k].prompt_hash
          /\ meta.state_size = json[k].state_size
      BY <2>4 DEF CacheStateMetadata
    <3>3. QED BY <2>4, <3>1, <3>2 DEF Fits, Describes
  <2> HIDE DEF meta
  <2>6. FlatInv'
    BY <1>1, <2>1, <2>4, <2>5, PromoteFits
  <2>7. \A j \in Keys : Held(j)' = Held(j)
    <3>1. Held(k)' = bin[k] /\ \A j \in Keys \ {k} : Held(j)' = Held(j)
      BY <1>1, <2>1, <2>4, <2>5, PromoteKeeps DEF Fits
    <3>2. QED BY <2>2, <3>1
  <2>8. QED BY <1>1, <1>5, <2>1, <2>2, <2>3, <2>6, <2>7, RestoredGets
<1>6. CASE LoadMismatch(m, k, h) /\ Hold(m, k, h, "empty")
  <2>1. Mismatch(m, k, h) /\ UNCHANGED cacheVars
    BY <1>6 DEF LoadMismatch
  <2>2. ~ (Held(k) # None /\ Held(k).model = m /\ Held(k).hash = h)
    BY <2>1 DEF FlatInv, HeldFits, Fits, Describes, Mismatch
  <2>3. Flat!Refuse(m, k, h)
    BY <1>1, <1>6, <2>1, <2>2, NothingRefused DEF cacheVars
  <2>4. FlatInv'
    BY <2>1 DEF FlatInv, HeldFits, FilesFit, Fits, Describes, Held, cacheVars
  <2>5. QED BY <2>3, <2>4
<1>7. CASE LoadAbsent(m, k, h) /\ Hold(m, k, h, "empty")
  <2>1. standby_cache[k] = None /\ bin[k] = None /\ UNCHANGED cacheVars
    BY <1>7 DEF LoadAbsent
  <2>2. Held(k) = None
    BY <2>1 DEF Held
  <2>3. Flat!Refuse(m, k, h)
    BY <1>1, <1>7, <2>1, <2>2, NothingRefused DEF cacheVars
  <2>4. FlatInv'
    BY <2>1 DEF FlatInv, HeldFits, FilesFit, Fits, Describes, Held, cacheVars
  <2>5. QED BY <2>3, <2>4
<1>8. CASE LoadColdNoRoom(m, k, h) /\ Release(m)
  <2>1. /\ ColdMatches(m, k, h) /\ FromCold(m, k, h)
        /\ ctx' = [ctx EXCEPT ![m] = bin[k]] /\ promote_to_standby_fails(k)
        /\ metadata_store' = [metadata_store EXCEPT ![k] = json[k]]
    BY <1>8 DEF LoadColdNoRoom
  <2>2. Held(k) = bin[k] /\ bin[k] # None /\ ~ Mismatch(m, k, h)
    BY <2>1 DEF FromCold, Held
  <2>3. Held(k).model = m /\ Held(k).hash = h
    BY <2>2, MatchFits
  <2>4. FilesFit' /\ \A j \in Keys : Held(j)' = Held(j)
    BY <1>1, <2>1, PromoteFailsFits
  <2>5. Fits(json[k], bin[k])
    BY <2>2 DEF FlatInv, FilesFit
  <2>6. HeldFits'
    <3>1. SUFFICES ASSUME NEW j \in Keys
                   PROVE  /\ Held(j)' = None => metadata_store'[j] = None
                          /\ Held(j)' # None => Fits(metadata_store'[j], Held(j)')
      BY DEF HeldFits, Fits, Describes
    <3>2. CASE j = k
      BY <1>1, <2>1, <2>2, <2>4, <2>5, <3>2 DEF TypeOK
    <3>3. CASE j # k
      BY <1>1, <2>1, <2>4, <3>3 DEF TypeOK, FlatInv, HeldFits
    <3>4. QED BY <3>2, <3>3
  <2>7. QED BY <1>1, <1>8, <2>1, <2>2, <2>3, <2>4, <2>6, RestoredGets DEF FlatInv
<1>9. ~ LoadStandbyFails(m, k, h) /\ ~ LoadColdFails(m, k, h)
  BY <1>2 DEF LoadStandbyFails, LoadColdFails
<1>10. ~ LoadColdRejected(m, k, h)
  BY <1>1, ColdFits DEF LoadColdRejected
<1>11. QED
  BY <1>3, <1>4, <1>5, <1>6, <1>7, <1>8, <1>9, <1>10
  DEF Begin, LoadHits, LoadMisses, LoadRaises

LEMMA EvaluateFlat ==
  ASSUME ClientTypeOK, FlatInv, NEW m \in Models, Evaluate(m)
  PROVE  FlatInv' /\ Flat!Compute(m)
<1>1. /\ req[m] \in Request /\ req[m] # None
      /\ UNCHANGED <<metadata_store, standby_cache, bin, json>>
  BY DEF Evaluate, ClientTypeOK
<1>2. FlatInv' /\ \A j \in Keys : Held(j)' = Held(j)
  BY <1>1 DEF FlatInv, HeldFits, FilesFit, Fits, Describes, Held
<1>3. FlatReq[m] # None
  <2>1. req[m].phase = "declared" => [req[m] EXCEPT !.phase = "advanced"] \in Request
    BY <1>1 DEF Request, Phases
  <2>2. QED BY <1>1, <2>1, NoRequestAssumption DEF FlatReq
<1>4. /\ FlatReq[m].hash = req[m].hash
      /\ FlatReq[m].phase = "empty" <=> req[m].phase = "empty"
  BY <1>1 DEF FlatReq, Request
<1>5. FlatReq' = [FlatReq EXCEPT ![m].phase = "advanced"]
  <2>1. req' = [req EXCEPT ![m].phase = IF @ = "declared" THEN @ ELSE "advanced"]
    BY DEF Evaluate
  <2>2. \A i \in Models \ {m} : req'[i] = req[i]
    BY <2>1 DEF ClientTypeOK
  <2>3. FlatReq'[m] = [FlatReq[m] EXCEPT !.phase = "advanced"]
    <3>1. req'[m] = [req[m] EXCEPT !.phase = IF @ = "declared" THEN @ ELSE "advanced"]
      BY <2>1 DEF ClientTypeOK
    <3>2. req'[m] \in Request
      BY <1>1, <3>1 DEF Request, Phases
    <3>3. QED BY <1>1, <3>1, <3>2, NoRequestAssumption DEF FlatReq, Request
  <2>4. QED BY <2>2, <2>3 DEF FlatReq
<1>6. \E b \in Bodies :
        ctx' = [ctx EXCEPT ![m] =
                  IF FlatReq[m].phase = "empty"
                  THEN [model |-> m, hash |-> FlatReq[m].hash, body |-> b]
                  ELSE [@ EXCEPT !.body = b]]
  BY <1>4 DEF Evaluate
<1>7. QED BY <1>2, <1>3, <1>5, <1>6 DEF Flat!Compute, FlatReq

LEMMA SaveFlat ==
  ASSUME IInv, FlatInv, NEW m \in Models, NEW r \in Roles, Save(m, r)
  PROVE  FlatInv' /\ (Flat!Put(m) \/ UNCHANGED Flat!vars)
<1> USE NullLemma
<1>1. /\ ClientTypeOK /\ TypeOK /\ TagsAgree /\ PairsAgree /\ ContextsOwned
      /\ req[m] \in Request /\ req[m] # None
      /\ req[m].phase \in {"advanced", "declared"}
  BY DEF IInv, HotInv, ClientTypeOK, Save
<1>2. PICK k \in Keys, h \in Hashes : k = req[m].key /\ h = req[m].hash
  BY <1>1 DEF Request
<1>3. ctx[m] \in Snapshot /\ ctx[m].model = m /\ ctx[m].hash = h
  BY <1>1, <1>2 DEF ContextsOwned, TypeOK
<1>4. CASE save_cache(m, k, h, r) /\ req' = [req EXCEPT ![m].phase = "restored"]
  <2> DEFINE meta == NewMetadata(m, h, r)
  <2>1. meta \in CacheStateMetadata
    BY <1>1, <1>3, LenType DEF NewMetadata, CacheStateMetadata, TypeOK
  <2>2. Fits(meta, ctx[m])
    BY <1>3, <2>1 DEF Fits, Describes, NewMetadata
  <2> HIDE DEF meta
  <2>3. promote_to_standby(k, ctx[m], meta) /\ UNCHANGED ctx
    BY <1>4 DEF save_cache, meta
  <2>4. FlatInv'
    BY <1>1, <1>3, <2>1, <2>2, <2>3, PromoteFits
  <2>5. Held(k)' = ctx[m] /\ \A j \in Keys \ {k} : Held(j)' = Held(j)
    BY <1>1, <1>3, <2>1, <2>2, <2>3, PromoteKeeps DEF Fits
  <2>6. /\ FlatReq[m] # None /\ FlatReq[m].phase = "advanced"
        /\ FlatReq[m].key = k
    <3>1. req[m].phase = "declared" => [req[m] EXCEPT !.phase = "advanced"] \in Request
      BY <1>1 DEF Request, Phases
    <3>2. QED BY <1>1, <1>2, <3>1, NoRequestAssumption DEF FlatReq, Request
  <2>7. [j \in Keys |-> Held(j)]' = [[j \in Keys |-> Held(j)] EXCEPT ![k] = ctx[m]]
    BY <2>5
  <2>8. FlatReq' = [FlatReq EXCEPT ![m].phase = "restored"]
    <3>1. req'[m] = [req[m] EXCEPT !.phase = "restored"]
          /\ \A i \in Models \ {m} : req'[i] = req[i]
      BY <1>1, <1>4 DEF ClientTypeOK
    <3>2. req'[m].phase = "restored"
      BY <1>1, <3>1 DEF Request
    <3>3. FlatReq'[m] = [FlatReq[m] EXCEPT !.phase = "restored"]
      BY <1>1, <3>1, <3>2 DEF FlatReq, Request
    <3>4. QED BY <3>1, <3>3 DEF FlatReq
  <2>9. Flat!Put(m)
    BY <2>3, <2>6, <2>7, <2>8 DEF Flat!Put, FlatReq
  <2>10. QED BY <2>4, <2>9
<1>5. CASE save_cache_fails(k) /\ UNCHANGED req
  <2>1. FilesFit' /\ \A j \in Keys : Held(j)' = Held(j)
    <3>1. CASE UNCHANGED <<standby_cache, bin, json>>
      BY <3>1 DEF FlatInv, FilesFit, Fits, Describes, Held
    <3>2. CASE promote_to_standby_fails(k)
      BY <1>1, <3>2, PromoteFailsFits
    <3>3. QED BY <1>5, <3>1, <3>2 DEF save_cache_fails
  <2>2. UNCHANGED <<metadata_store, ctx>>
    BY <1>5 DEF save_cache_fails
  <2>3. HeldFits'
    BY <2>1, <2>2 DEF FlatInv, HeldFits, Fits, Describes
  <2>4. UNCHANGED Flat!vars
    BY <1>5, <2>1, <2>2 DEF Flat!vars
  <2>5. QED BY <2>1, <2>3, <2>4 DEF FlatInv
<1>6. QED BY <1>2, <1>4, <1>5 DEF Save

\* To declare a request and to take it back changes nothing.
LEMMA DeclaredBack ==
  ASSUME NEW q \in Request, q.phase = "advanced"
  PROVE  LET d == [q EXCEPT !.phase = "declared"]
         IN  /\ d \in Request /\ d.phase = "declared"
             /\ [d EXCEPT !.phase = "advanced"] = q
<1> DEFINE d == [q EXCEPT !.phase = "declared"]
<1>1. d \in Request /\ d.phase = "declared"
  BY DEF Request, Phases
<1>2. [d EXCEPT !.phase = "advanced"] = q
  BY DEF Request
<1>3. QED BY <1>1, <1>2

LEMMA StaysFlat ==
  ASSUME ClientTypeOK, FlatInv, UNCHANGED <<metadata_store, standby_cache, bin, json, ctx>>
  PROVE  /\ FlatInv'
         /\ \A m \in Models : Declare(m) => UNCHANGED Flat!vars
         /\ \A m \in Models : Finish(m) => Flat!Finish(m)
         /\ UNCHANGED req => UNCHANGED Flat!vars
<1>1. FlatInv' /\ \A j \in Keys : Held(j)' = Held(j)
  BY DEF FlatInv, HeldFits, FilesFit, Fits, Describes, Held
<1>2. UNCHANGED FlatReq => UNCHANGED Flat!vars
  BY <1>1 DEF Flat!vars, FlatReq
<1>3. ASSUME NEW m \in Models, Declare(m) PROVE UNCHANGED FlatReq
  <2>1. /\ req[m] # None /\ req[m].phase = "advanced" /\ req[m] \in Request
        /\ req'[m] = [req[m] EXCEPT !.phase = "declared"]
        /\ \A i \in Models \ {m} : req'[i] = req[i]
    BY <1>3 DEF Declare, ClientTypeOK
  <2>2. /\ req'[m] \in Request /\ req'[m].phase = "declared"
        /\ [req'[m] EXCEPT !.phase = "advanced"] = req[m]
    BY <2>1, DeclaredBack
  <2>3. FlatReq'[m] = FlatReq[m]
    BY <2>1, <2>2, NoRequestAssumption DEF FlatReq
  <2>4. QED BY <2>1, <2>3 DEF FlatReq
<1>4. ASSUME NEW m \in Models, Finish(m) PROVE Flat!Finish(m)
  <2>1. req[m] # None /\ req[m].phase # "advanced" /\ req' = [req EXCEPT ![m] = None]
        /\ req[m] \in Request
    BY <1>4 DEF Finish, Release, ClientTypeOK
  <2>2. FlatReq[m] # None
    <3>1. req[m].phase = "declared" => [req[m] EXCEPT !.phase = "advanced"] \in Request
      BY <2>1 DEF Request, Phases
    <3>2. QED BY <2>1, <3>1, NoRequestAssumption DEF FlatReq
  <2>3. FlatReq' = [FlatReq EXCEPT ![m] = None]
    BY <2>1 DEF FlatReq, ClientTypeOK
  <2>4. QED BY <1>1, <2>2, <2>3 DEF Flat!Finish, FlatReq
<1>5. UNCHANGED req => UNCHANGED FlatReq
  BY DEF FlatReq
<1>6. QED BY <1>1, <1>2, <1>3, <1>4, <1>5

----------------------------------------------------------------------------
LEMMA NextFlat ==
  ASSUME Decodes, IInv, FlatInv, [Next]_vars
  PROVE  FlatInv' /\ [Flat!Next]_(Flat!vars)
<1>1. ClientTypeOK
  BY DEF IInv
<1>2. ASSUME NEW u \in Uses, Begin(u[1], u[2], u[3])
      PROVE  FlatInv' /\ [Flat!Next]_(Flat!vars)
  <2>1. u[1] \in Models /\ u[2] \in Keys /\ u[3] \in Hashes
    BY UsesAssumption
  <2>2. FlatInv' /\ (Flat!Get(u[1], u[2], u[3]) \/ Flat!Refuse(u[1], u[2], u[3]))
    BY <1>2, <2>1, BeginFlat
  <2>3. QED BY <2>2 DEF Flat!Next
<1>3. ASSUME NEW m \in Models, Evaluate(m) PROVE FlatInv' /\ [Flat!Next]_(Flat!vars)
  BY <1>1, <1>3, EvaluateFlat DEF Flat!Next
<1>4. ASSUME NEW m \in Models, NEW r \in Roles, Save(m, r)
      PROVE  FlatInv' /\ [Flat!Next]_(Flat!vars)
  BY <1>4, SaveFlat DEF Flat!Next
<1>5. ASSUME NEW m \in Models, Declare(m) \/ Finish(m)
      PROVE  FlatInv' /\ [Flat!Next]_(Flat!vars)
  <2>1. UNCHANGED <<metadata_store, standby_cache, bin, json, ctx>>
    BY <1>5 DEF Declare, mark_context_dirty, Finish, cacheVars
  <2>2. QED BY <1>1, <1>5, <2>1, StaysFlat DEF Flat!Next
<1>6. CASE Time \/ UNCHANGED vars
  <2>1. UNCHANGED <<metadata_store, standby_cache, bin, json, ctx, req>>
    BY <1>6 DEF Time, Tick, vars
  <2>2. QED BY <1>1, <2>1, StaysFlat
<1>7. ~ Crash
  BY DEF Crash, Restart, Decodes
<1>8. QED BY <1>2, <1>3, <1>4, <1>5, <1>6, <1>7 DEF Next

LEMMA InitFlat == Init => FlatInv /\ Flat!Init
<1>1. SUFFICES ASSUME Init PROVE FlatInv /\ Flat!Init
  OBVIOUS
<1>2. \A k \in Keys : Held(k) = None /\ bin[k] = None /\ metadata_store[k] = None
  BY <1>1 DEF Init, CacheInit, Held
<1>3. FlatInv
  BY <1>2 DEF FlatInv, HeldFits, FilesFit
<1>4. Flat!Init
  BY <1>1, <1>2 DEF Init, CacheInit, Snapshot, Flat!Init
<1>5. QED BY <1>3, <1>4

LEMMA FlatInvCorrect == ASSUME Decodes PROVE Spec => [](IInv /\ FlatInv)
<1>1. Whole
  BY DEF Whole, Decodes
<1>2. Spec => []IInv
  BY <1>1, IInvCorrect
<1>3. Init => FlatInv
  BY InitFlat
<1>4. IInv /\ FlatInv /\ [Next]_vars => FlatInv'
  BY NextFlat
<1>5. QED BY <1>2, <1>3, <1>4, PTL DEF Spec

\* The tiers, the eviction between them and the HOT shortcut do not show: what a
\* caller sees is one map from keys to the states last saved under them.
THEOREM FlatCorrect == ASSUME Decodes PROVE Spec => ImplementsFlatStore
<1>1. Init => Flat!Init
  BY InitFlat
<1>2. IInv /\ FlatInv /\ [Next]_vars => [Flat!Next]_(Flat!vars)
  BY NextFlat
<1>3. QED BY <1>1, <1>2, FlatInvCorrect, PTL DEF Spec, ImplementsFlatStore, Flat!Spec

\* Within the life of a process the checks on the files turn nobody away.
THEOREM NobodyRejected == ASSUME Decodes PROVE Spec => []NeverRejected
<1>1. IInv /\ FlatInv => NeverRejected
  <2>1. SUFFICES ASSUME IInv, FlatInv, NEW u \in Uses, FromCold(u[1], u[2], u[3])
                 PROVE  ColdMatches(u[1], u[2], u[3])
    BY DEF NeverRejected
  <2>2. u[2] \in Keys /\ TypeOK /\ PairsAgree
    BY <2>1, UsesAssumption DEF IInv, HotInv, ClientTypeOK
  <2>3. QED BY <2>1, <2>2, ColdFits
<1>2. QED BY <1>1, FlatInvCorrect, PTL

=============================================================================
