------------------------------ MODULE KVCache ------------------------------
(***************************************************************************)
(* The three-tier KV-cache of liteagent: KVCacheManager with the           *)
(* StorageManager, the PW-LRU eviction and the state serialisation it      *)
(* calls.  A cached state lives in the model itself (tier HOT, recorded by *)
(* hot_state), in RAM (STANDBY) and in a pair of files on SSD (COLD).      *)
(*                                                                         *)
(* Every public method runs under one RLock, so a call is one step; what   *)
(* can happen inside a call is an exception or the death of the process.   *)
(* The contexts of the models are outside the lock: `ctx' is the content   *)
(* of each llama.cpp context, which only load_state and the model's own    *)
(* evaluation change.                                                      *)
(***************************************************************************)
EXTENDS Integers, FiniteSets

CONSTANTS
  Keys,      \* session keys
  Models,    \* model tags; one llama.cpp context each
  Hashes,    \* prompt hashes (SHA-256, so never the empty string)
  Roles,     \* agent roles passed to save_cache
  Bodies,    \* what was evaluated after the prompt
  BodySize,  \* the length of a state with that body
  MaxRam,    \* max_ram_states
  MaxTime,   \* bound of the clock
  Faults,    \* the failures a run considers
  None,      \* Python's None, and a file that is not there
  Torn       \* a file cut short while it was being written

ASSUME KeysAssumption   == IsFiniteSet(Keys)
ASSUME SizeAssumption   == BodySize \in [Bodies -> Nat]
ASSUME BoundsAssumption == MaxRam \in Nat /\ MaxTime \in Nat
ASSUME FaultsAssumption ==
  Faults \subseteq {"decode", "load_state", "save_state", "ssd_write", "crash"}

\* The bytes of a saved context.  `model' and `hash' say what the context was
\* really computed from; the cache cannot see them, it only has the metadata.
Snapshot == [model : Models, hash : Hashes, body : Bodies]

CacheStateMetadata ==
  [model_tag : Models, prompt_hash : Hashes, agent_role : Roles,
   state_size : Nat, last_accessed : 0..MaxTime]

ASSUME NullAssumption ==
  /\ None # Torn
  /\ None \notin Keys
  /\ {None, Torn} \cap (Snapshot \cup CacheStateMetadata) = {}

len(s) == BodySize[s.body]

VARIABLES
  hot_state,       \* the key the model is believed to hold
  hot_dirty,       \* _hot_dirty
  metadata_store,  \* metadata of every key saved or restored by this process
  standby_cache,   \* tier 2
  bin,             \* tier 3: <key>.bin ...
  json,            \* ... and its companion <key>.json
  ctx,             \* the context each model really holds
  now              \* time.time()

ram       == <<hot_state, hot_dirty, metadata_store, standby_cache>>
files     == <<bin, json>>
cacheVars == <<hot_state, hot_dirty, metadata_store, standby_cache,
               bin, json, ctx, now>>

TypeOK ==
  /\ hot_state \in Keys \cup {None}
  /\ hot_dirty \in BOOLEAN
  /\ metadata_store \in [Keys -> CacheStateMetadata \cup {None}]
  /\ standby_cache \in [Keys -> Snapshot \cup {None}]
  /\ bin \in [Keys -> Snapshot \cup {None, Torn}]
  /\ json \in [Keys -> CacheStateMetadata \cup {None, Torn}]
  /\ ctx \in [Models -> Snapshot]
  /\ now \in 0..MaxTime

\* A new manager on an empty SSD.  Nothing is assumed of what a model holds
\* before the cache is first asked, except that it is a context of its own.
CacheInit ==
  /\ hot_state = None
  /\ hot_dirty = FALSE
  /\ metadata_store = [k \in Keys |-> None]
  /\ standby_cache = [k \in Keys |-> None]
  /\ bin = [k \in Keys |-> None]
  /\ json = [k \in Keys |-> None]
  /\ ctx \in [Models -> Snapshot]
  /\ \A m \in Models : ctx[m].model = m
  /\ now = 0

----------------------------------------------------------------------------
(* Eviction: priority-weighted LRU.                                        *)

\* The role weights, in tenths; a role that is not listed weighs nothing.
ROLE_PRIORITIES ==
  [Critic |-> 10, Executor |-> 8, Planner |-> 5, Retriever |-> 3]

Weight(role) ==
  IF role \in DOMAIN ROLE_PRIORITIES THEN ROLE_PRIORITIES[role] ELSE 0

compute_eviction_score(last, role) ==
  (IF now > last THEN now - last ELSE 0) * (10 - Weight(role))

Score(k) == compute_eviction_score(metadata_store[k].last_accessed,
                                   metadata_store[k].agent_role)

Resident == {k \in Keys : standby_cache[k] # None}

\* Mutant: the comparison of scores reversed.
LowestScore ==
  {k \in Resident : \A j \in Resident : Score(j) >= Score(k)}

\* The keys the loop may choose: a key without metadata scores infinity, and a
\* tie goes to the first key in the order of the dict, which is left open here.
select_eviction_victim ==
  LET bare == {k \in Resident : metadata_store[k] = None}
  IN  IF bare # {} THEN bare
      ELSE {k \in Resident : \A j \in Resident : Score(j) <= Score(k)}

\* Mutant: room is made one state too late.
MustEvictLate(k) ==
  /\ standby_cache[k] = None
  /\ Cardinality(Resident) > MaxRam
  /\ Resident # {}

MustEvict(k) ==
  /\ standby_cache[k] = None
  /\ Cardinality(Resident) >= MaxRam
  /\ Resident # {}

----------------------------------------------------------------------------
(* Writing a victim to SSD, and what a failure or a crash leaves there.    *)

\* Mutants: the metadata is never written, or the pair is not rewritten when
\* there is one already.
BinOnly(v) ==
  /\ bin' = [bin EXCEPT ![v] = standby_cache[v]]
  /\ UNCHANGED json

KeepOldPair(v) ==
  IF bin[v] = None
  THEN /\ bin'  = [bin  EXCEPT ![v] = standby_cache[v]]
       /\ json' = [json EXCEPT ![v] = metadata_store[v]]
  ELSE UNCHANGED files

save_to_ssd(v) ==
  /\ bin'  = [bin  EXCEPT ![v] = standby_cache[v]]
  /\ json' = [json EXCEPT ![v] = metadata_store[v]]

\* The handler removes both files, a complete older pair included.
save_to_ssd_fails(v) ==
  /\ "ssd_write" \in Faults
  /\ bin'  = [bin  EXCEPT ![v] = None]
  /\ json' = [json EXCEPT ![v] = None]

\* The process dies while it writes: in the binary, between the two files, or
\* in the metadata.  (After both, the files are those of save_to_ssd.)
save_to_ssd_torn(v) ==
  \/ /\ bin' = [bin EXCEPT ![v] = Torn]
     /\ UNCHANGED json
  \/ /\ bin' = [bin EXCEPT ![v] = standby_cache[v]]
     /\ UNCHANGED json
  \/ /\ bin' = [bin EXCEPT ![v] = standby_cache[v]]
     /\ json' = [json EXCEPT ![v] = Torn]

\* promote_to_standby with the eviction it runs.  A victim without metadata
\* would be dropped (EVICT_DROPPED_NO_METADATA) instead of written.
promote_to_standby(k, state, meta) ==
  /\ metadata_store' = [metadata_store EXCEPT ![k] = meta]
  /\ \/ /\ ~ MustEvict(k)
        /\ standby_cache' = [standby_cache EXCEPT ![k] = state]
        /\ UNCHANGED files
     \/ /\ MustEvict(k)
        /\ \E v \in select_eviction_victim :
             /\ standby_cache' = [standby_cache EXCEPT ![v] = None, ![k] = state]
             /\ IF metadata_store[v] = None THEN UNCHANGED files
                                            ELSE save_to_ssd(v)

promote_to_standby_fails(k) ==
  /\ MustEvict(k)
  /\ \E v \in select_eviction_victim :
       /\ metadata_store[v] # None
       /\ save_to_ssd_fails(v)
  /\ UNCHANGED standby_cache

----------------------------------------------------------------------------
(* Reading a pair of files back.                                           *)

\* The checks of load_from_ssd: both files complete, and their sizes agree.
load_from_ssd_accepts(k) ==
  /\ bin[k] \in Snapshot
  /\ json[k] \in CacheStateMetadata
  /\ len(bin[k]) = json[k].state_size

\* ... and those load_cache adds.
ColdMatches(m, k, h) ==
  /\ load_from_ssd_accepts(k)
  /\ json[k].model_tag = m
  /\ json[k].prompt_hash = h

----------------------------------------------------------------------------
(* load_cache(k, model m, hash h): one action per way it ends.             *)

Touch(k) ==
  metadata_store' =
    IF metadata_store[k] = None THEN metadata_store
    ELSE [metadata_store EXCEPT ![k].last_accessed = now]

BecomesHot(k) == hot_state' = k /\ hot_dirty' = FALSE

Mismatch(m, k, h) ==
  /\ metadata_store[k] # None
  /\ \/ metadata_store[k].prompt_hash # h
     \/ metadata_store[k].model_tag # m

\* Mutant: the cache without _hot_dirty.
ServesHotDirty(k) == hot_state = k

ServesHot(k) == hot_state = k /\ ~hot_dirty

\* PROMPT_MISMATCH_MISS and MODEL_MISMATCH_MISS.
LoadMismatch(m, k, h) ==
  /\ Mismatch(m, k, h)
  /\ UNCHANGED cacheVars

\* Nothing is deserialised: the model is trusted to hold the state.
LoadHot(m, k, h) ==
  /\ ~ Mismatch(m, k, h)
  /\ ServesHot(k)
  /\ Touch(k)
  /\ UNCHANGED <<hot_state, hot_dirty, standby_cache, bin, json, ctx, now>>

FromStandby(m, k, h) ==
  /\ ~ Mismatch(m, k, h)
  /\ ~ ServesHot(k)
  /\ standby_cache[k] # None

LoadStandby(m, k, h) ==
  /\ FromStandby(m, k, h)
  /\ ctx' = [ctx EXCEPT ![m] = standby_cache[k]]
  /\ BecomesHot(k)
  /\ Touch(k)
  /\ UNCHANGED <<standby_cache, bin, json, now>>

\* A state that does not decode is refused before the model is touched; a
\* load_state that fails leaves the model with anything at all.
deserialize_llama_state_fails(m) ==
  \/ /\ "decode" \in Faults
     /\ UNCHANGED ctx
  \/ /\ "load_state" \in Faults
     /\ \E s \in Snapshot : ctx' = [ctx EXCEPT ![m] = s]

\* Mutants: only the metadata is purged; the key becomes hot before it is
\* restored.
PurgeMetadataOnly(m, k, h) ==
  /\ FromStandby(m, k, h)
  /\ deserialize_llama_state_fails(m)
  /\ metadata_store' = [metadata_store EXCEPT ![k] = None]
  /\ UNCHANGED <<hot_state, hot_dirty, standby_cache, bin, json, now>>

HotTooEarly(m, k, h) ==
  /\ FromStandby(m, k, h)
  /\ deserialize_llama_state_fails(m)
  /\ BecomesHot(k)
  /\ standby_cache' = [standby_cache EXCEPT ![k] = None]
  /\ metadata_store' = [metadata_store EXCEPT ![k] = None]
  /\ UNCHANGED <<bin, json, now>>

\* The entry and its metadata are purged; hot_state and the flag are kept.
LoadStandbyFails(m, k, h) ==
  /\ FromStandby(m, k, h)
  /\ deserialize_llama_state_fails(m)
  /\ standby_cache' = [standby_cache EXCEPT ![k] = None]
  /\ metadata_store' = [metadata_store EXCEPT ![k] = None]
  /\ UNCHANGED <<hot_state, hot_dirty, bin, json, now>>

FromCold(m, k, h) ==
  /\ ~ Mismatch(m, k, h)
  /\ ~ ServesHot(k)
  /\ standby_cache[k] = None
  /\ bin[k] # None

LoadCold(m, k, h) ==
  /\ FromCold(m, k, h)
  /\ ColdMatches(m, k, h)
  /\ ctx' = [ctx EXCEPT ![m] = bin[k]]
  /\ BecomesHot(k)
  /\ promote_to_standby(k, bin[k], [json[k] EXCEPT !.last_accessed = now])
  /\ UNCHANGED now

\* The state is restored but the eviction that makes room for it fails: the
\* call raises with the model, hot_state and the metadata already updated.
LoadColdNoRoom(m, k, h) ==
  /\ FromCold(m, k, h)
  /\ ColdMatches(m, k, h)
  /\ promote_to_standby_fails(k)
  /\ ctx' = [ctx EXCEPT ![m] = bin[k]]
  /\ BecomesHot(k)
  /\ metadata_store' = [metadata_store EXCEPT ![k] = json[k]]
  /\ UNCHANGED now

LoadColdFails(m, k, h) ==
  /\ FromCold(m, k, h)
  /\ ColdMatches(m, k, h)
  /\ deserialize_llama_state_fails(m)
  /\ UNCHANGED <<hot_state, hot_dirty, metadata_store, standby_cache,
                 bin, json, now>>

\* The pair is incomplete, or made for another model or prompt: the call
\* raises, and raises again next time, since the files stay.
LoadColdRejected(m, k, h) ==
  /\ FromCold(m, k, h)
  /\ ~ ColdMatches(m, k, h)
  /\ UNCHANGED cacheVars

LoadAbsent(m, k, h) ==
  /\ ~ Mismatch(m, k, h)
  /\ ~ ServesHot(k)
  /\ standby_cache[k] = None
  /\ bin[k] = None
  /\ UNCHANGED cacheVars

\* What the caller sees.
LoadHits(m, k, h) ==
  LoadHot(m, k, h) \/ LoadStandby(m, k, h) \/ LoadCold(m, k, h)

LoadMisses(m, k, h) == LoadMismatch(m, k, h) \/ LoadAbsent(m, k, h)

LoadRaises(m, k, h) ==
  \/ LoadStandbyFails(m, k, h)
  \/ LoadColdNoRoom(m, k, h)
  \/ LoadColdFails(m, k, h)
  \/ LoadColdRejected(m, k, h)

----------------------------------------------------------------------------
(* save_cache, mark_context_dirty, the clock and the end of the process.   *)

\* Mutant: two arguments swapped.
SwappedMetadata(m, h, r) ==
  [model_tag |-> h, prompt_hash |-> m, agent_role |-> r,
   state_size |-> len(ctx[m]), last_accessed |-> now]

NewMetadata(m, h, r) ==
  [model_tag |-> m, prompt_hash |-> h, agent_role |-> r,
   state_size |-> len(ctx[m]), last_accessed |-> now]

save_cache(m, k, h, r) ==
  /\ promote_to_standby(k, ctx[m], NewMetadata(m, h, r))
  /\ BecomesHot(k)
  /\ UNCHANGED <<ctx, now>>

\* Serialising fails before anything changed; an eviction that fails leaves
\* the victim in RAM and hot_state as it was.
save_cache_fails(k) ==
  /\ \/ /\ "save_state" \in Faults
        /\ UNCHANGED <<standby_cache, bin, json>>
     \/ promote_to_standby_fails(k)
  /\ UNCHANGED <<hot_state, hot_dirty, metadata_store, ctx, now>>

mark_context_dirty ==
  /\ hot_dirty' = TRUE
  /\ UNCHANGED <<hot_state, metadata_store, standby_cache, bin, json, ctx, now>>

Tick ==
  /\ now < MaxTime
  /\ now' = now + 1
  /\ UNCHANGED <<hot_state, hot_dirty, metadata_store, standby_cache,
                 bin, json, ctx>>

\* The process dies, possibly while a save_cache or a load_cache of some key
\* writes the victim it evicts, and is started again on the same SSD.
Restart ==
  /\ "crash" \in Faults
  /\ \/ UNCHANGED files
     \/ \E k \in Keys, v \in select_eviction_victim :
          MustEvict(k) /\ metadata_store[v] # None /\ save_to_ssd_torn(v)
  /\ hot_state' = None
  /\ hot_dirty' = FALSE
  /\ metadata_store' = [k \in Keys |-> None]
  /\ standby_cache' = [k \in Keys |-> None]
  /\ ctx' \in [Models -> Snapshot]
  /\ \A m \in Models : ctx'[m].model = m
  /\ UNCHANGED now

----------------------------------------------------------------------------
(* What the rest of the program relies on, whoever calls the cache.        *)

\* RAM never holds more states than max_ram_states allows: a save makes room
\* first.  (The manager keeps one state even when it is created with 0.)
StandbyBounded ==
  Cardinality(Resident) <= IF MaxRam = 0 THEN 1 ELSE MaxRam

\* Every state in RAM has its metadata, so eviction never drops one unwritten.
StandbyHasMetadata ==
  \A k \in Resident : metadata_store[k] # None

\* A key that would be served HOT has metadata, so its model and prompt are
\* compared before a request is let through: without it a request for another
\* model would be answered HOT on a context that was never restored.
HotIsValidated ==
  hot_state # None /\ ~hot_dirty => metadata_store[hot_state] # None

=============================================================================
