---------------------------- MODULE CacheClient ----------------------------
(***************************************************************************)
(* The cache together with callers that keep the contract the manager asks *)
(* for: one request at a time per model (the model lock), and             *)
(* mark_context_dirty, or a save, after the context was advanced and       *)
(* before the model is given to the next request.  TaskDispatcher's local  *)
(* path and the workstation's DispatchTask are two such callers when no    *)
(* exception cuts them short.                                              *)
(***************************************************************************)
EXTENDS KVCache

CONSTANT Uses   \* the models, keys and prompt hashes requests come with

ASSUME UsesAssumption == Uses \subseteq Models \X Keys \X Hashes

VARIABLE req    \* req[m]: the request that holds the lock of model m

vars == <<hot_state, hot_dirty, metadata_store, standby_cache,
          bin, json, ctx, now, req>>

\* restored: the context is the state the cache gave, or has just saved
\* empty:    a miss, nothing evaluated yet
\* advanced: the context has moved on and the manager does not know
\* declared: ... and mark_context_dirty was called
Phases  == {"restored", "empty", "advanced", "declared"}
Request == [key : Keys, hash : Hashes, phase : Phases]

ASSUME NoRequestAssumption == None \notin Request

ClientTypeOK == TypeOK /\ req \in [Models -> Request \cup {None}]

Init == CacheInit /\ req = [m \in Models |-> None]

Hold(m, k, h, p) ==
  req' = [req EXCEPT ![m] = [key |-> k, hash |-> h, phase |-> p]]

Release(m) == req' = [req EXCEPT ![m] = None]

\* The request takes the lock and asks the cache; an error ends it.
Begin(m, k, h) ==
  /\ req[m] = None
  /\ \/ LoadHits(m, k, h)   /\ Hold(m, k, h, "restored")
     \/ LoadMisses(m, k, h) /\ Hold(m, k, h, "empty")
     \/ LoadRaises(m, k, h) /\ Release(m)

\* The model evaluates tokens: after a miss it is reset and starts from the
\* prompt of the request, otherwise it goes on from whatever it holds.  After
\* mark_context_dirty there is nothing left to declare.
Evaluate(m) ==
  /\ req[m] # None
  /\ \E b \in Bodies :
       ctx' = [ctx EXCEPT ![m] =
                 IF req[m].phase = "empty"
                 THEN [model |-> m, hash |-> req[m].hash, body |-> b]
                 ELSE [@ EXCEPT !.body = b]]
  /\ req' = [req EXCEPT ![m].phase = IF @ = "declared" THEN @ ELSE "advanced"]
  /\ UNCHANGED <<hot_state, hot_dirty, metadata_store, standby_cache,
                 bin, json, now>>

Declare(m) ==
  /\ req[m] # None
  /\ req[m].phase = "advanced"
  /\ mark_context_dirty
  /\ req' = [req EXCEPT ![m].phase = "declared"]

Save(m, r) ==
  /\ req[m] # None
  /\ req[m].phase \in {"advanced", "declared"}
  /\ \/ /\ save_cache(m, req[m].key, req[m].hash, r)
        /\ req' = [req EXCEPT ![m].phase = "restored"]
     \/ /\ save_cache_fails(req[m].key)
        /\ UNCHANGED req

\* The contract: a context that moved on is declared before it is given away.
Finish(m) ==
  /\ req[m] # None
  /\ req[m].phase # "advanced"
  /\ Release(m)
  /\ UNCHANGED cacheVars

Crash == Restart /\ req' = [m \in Models |-> None]

Time == Tick /\ UNCHANGED req

Next ==
  \/ \E u \in Uses : Begin(u[1], u[2], u[3])
  \/ \E m \in Models : Evaluate(m) \/ Declare(m) \/ Finish(m)
  \/ \E m \in Models, r \in Roles : Save(m, r)
  \/ Crash
  \/ Time

Spec == Init /\ [][Next]_vars

----------------------------------------------------------------------------
\* The state the cache holds for a key: the one in RAM, else the file.
Held(k) == IF standby_cache[k] # None THEN standby_cache[k] ELSE bin[k]

\* A request that would be served HOT finds in the model exactly the state the
\* cache holds for its key, computed by this model from this prompt, although
\* nothing is restored and although the models share one hot_state.
HotIsLossless ==
  \A u \in Uses :
    LET m == u[1]  k == u[2]  h == u[3]
    IN  /\ req[m] = None
        /\ ~ Mismatch(m, k, h)
        /\ ServesHot(k)
        => ctx[m] = Held(k) /\ ctx[m].model = m /\ ctx[m].hash = h

\* A pair of files that load_from_ssd accepts describes its binary: the model
\* and the prompt that load_cache compares are those the state was computed
\* from.  This is what keeps a COLD hit from continuing another prompt.
ColdIsConsistent ==
  \A k \in Keys :
    load_from_ssd_accepts(k) => /\ bin[k].model = json[k].model_tag
                               /\ bin[k].hash  = json[k].prompt_hash

\* Within the life of one process no request is turned away by the checks on
\* the files: what eviction wrote, load_cache restores or answers with a miss.
\* An eviction that fails to write takes the old pair with it, but not the
\* state.
NeverRejected ==
  \A u \in Uses :
    FromCold(u[1], u[2], u[3]) => ColdMatches(u[1], u[2], u[3])

\* PW-LRU: eviction never picks a state that was used later than another one
\* in RAM and whose role weighs at least as much, except among roles of weight
\* 1.0 (Critic), whose score is 0 however long they have been idle.
EvictsByPriority ==
  \A v, x \in Resident :
    LET mv == metadata_store[v]
        mx == metadata_store[x]
    IN  /\ standby_cache'[v] = None /\ standby_cache'[x] # None
        /\ metadata_store'[v] # None
        => \/ Weight(mx.agent_role) = 10
           \/ Weight(mv.agent_role) < Weight(mx.agent_role)
           \/ mv.last_accessed <= mx.last_accessed

EvictionRespectsPriority == [][EvictsByPriority]_vars

----------------------------------------------------------------------------
(* Why HOT is sound: the inductive invariant, with load_state never        *)
(* failing half-way, and over crashes if a key fixes its model and prompt. *)

Describes(meta, state) ==
  /\ meta # None
  /\ meta.model_tag = state.model
  /\ meta.prompt_hash = state.hash

\* The metadata in RAM describes the state in RAM.
TagsAgree == \A k \in Resident : Describes(metadata_store[k], standby_cache[k])

\* A pair of files that is accepted: the one describes the other.
PairsAgree ==
  \A k \in Keys : load_from_ssd_accepts(k) => Describes(json[k], bin[k])

\* Nothing is recorded of a key but what a request came with.
TagsAsked ==
  /\ \A m \in Models :
       req[m] # None => <<m, req[m].key, req[m].hash>> \in Uses
  /\ \A k \in Keys : \A meta \in {metadata_store[k], json[k]} \cap CacheStateMetadata :
       <<meta.model_tag, k, meta.prompt_hash>> \in Uses

\* The state under a clean hot_state is held and described, and its model has
\* it, unless the request that holds the model has moved on and still owes the
\* declaration.  Nobody else's request can be in the way, as the metadata names
\* one model.
HotIsResident ==
  hot_state # None /\ ~hot_dirty =>
    /\ Held(hot_state) \in Snapshot
    /\ Describes(metadata_store[hot_state], Held(hot_state))
    /\ LET m == metadata_store[hot_state].model_tag
       IN  \/ req[m] = None /\ ctx[m] = Held(hot_state)
           \/ /\ req[m] # None
              /\ req[m].phase \in {"restored", "empty"}
              /\ ctx[m] = Held(hot_state)
           \/ req[m] # None /\ req[m].phase = "advanced"

\* A context is computed from the prompt of the request that uses it.
ContextsOwned ==
  \A m \in Models :
    /\ ctx[m].model = m
    /\ req[m] # None /\ req[m].phase # "empty" => ctx[m].hash = req[m].hash

HotInv == TagsAgree /\ PairsAgree /\ TagsAsked /\ HotIsResident /\ ContextsOwned

----------------------------------------------------------------------------
(* Seen from outside, the three tiers are one map from keys to states:     *)
(* eviction and promotion do not show, and a hit, HOT included, puts the   *)
(* stored state into the model.  Without crashes and undecodable states.   *)

Flat == INSTANCE FlatStore WITH
  store <- [k \in Keys |-> Held(k)],
  req <- [m \in Models |->
            IF req[m] # None /\ req[m].phase = "declared"
            THEN [req[m] EXCEPT !.phase = "advanced"] ELSE req[m]]

ImplementsFlatStore == Flat!Spec

=============================================================================
