---------------------------- MODULE Workstation ----------------------------
(***************************************************************************)
(* WorkstationCoordinatorServicer.DispatchTask: the calls of all clients   *)
(* on the one large model and its cache.  A handler holds the model lock   *)
(* from load_cache to save_cache.  It never calls mark_context_dirty: the  *)
(* save at its end is what makes the cache agree with the context again.   *)
(*                                                                         *)
(* A context is described by the calls whose tokens are in it.  Which call *)
(* gets the lock next is left open, and with it the order in which the     *)
(* worker pool takes calls up.                                             *)
(***************************************************************************)
EXTENDS KVCache

CONSTANTS
  Calls,          \* the RPCs that may be made
  Rpc,            \* Rpc[c]: session (the cache key), prompt hash, cache_disabled
  Large,          \* the model the server runs
  ServerFaults    \* "eval", "generate": an exception there

ASSUME ServerAssumption ==
  /\ IsFiniteSet(Calls) /\ None \notin Calls
  /\ Large \in Models
  /\ Rpc \in [Calls -> [key : Keys, hash : Hashes, cache_disabled : BOOLEAN]]
  /\ Bodies = SUBSET Calls
  /\ ServerFaults \subseteq {"eval", "generate"}

VARIABLES
  call,      \* where each call is
  text,      \* the context the text of each call was generated from
  lock       \* the call that holds the model, or None

serverVars == <<hot_state, hot_dirty, metadata_store, standby_cache,
                bin, json, ctx, now, call, text, lock>>

\* unsent; sent: not yet at the model; fresh: after a miss; hit: restored;
\* then evaluated, generated, saved; and replied, or refused with an error.
CallStates == {"unsent", "sent", "fresh", "hit", "evaluated", "generated",
               "saved", "replied", "error"}

ServerTypeOK ==
  /\ TypeOK
  /\ call \in [Calls -> CallStates]
  /\ text \in [Calls -> Snapshot \cup {None}]
  /\ lock \in Calls \cup {None}

ServerInit ==
  /\ CacheInit
  /\ \A m \in Models : ctx[m].body = {}
  /\ call = [c \in Calls |-> "unsent"]
  /\ text = [c \in Calls |-> None]
  /\ lock = None

CallIs(c, s) == call' = [call EXCEPT ![c] = s]

\* Authentication, the protocol version, the limits on the prompt and the rate
\* limiter turn a call away before the model is touched.
Reject(c) ==
  /\ call[c] = "sent"
  /\ CallIs(c, "error")
  /\ UNCHANGED cacheVars
  /\ UNCHANGED <<text, lock>>

\* The lock is free: restore.  When the cache raises, the lock is released
\* again and the client gets INTERNAL.
Start(c) ==
  /\ call[c] = "sent"
  /\ lock = None
  /\ \/ /\ Rpc[c].cache_disabled
        /\ UNCHANGED cacheVars
        /\ CallIs(c, "fresh") /\ lock' = c
     \/ /\ ~ Rpc[c].cache_disabled
        /\ \/ /\ LoadHits(Large, Rpc[c].key, Rpc[c].hash)
              /\ CallIs(c, "hit") /\ lock' = c
           \/ /\ LoadMisses(Large, Rpc[c].key, Rpc[c].hash)
              /\ CallIs(c, "fresh") /\ lock' = c
           \/ /\ LoadRaises(Large, Rpc[c].key, Rpc[c].hash)
              /\ CallIs(c, "error") /\ UNCHANGED lock
  /\ UNCHANGED text

\* Mutants: two arguments swapped; llama.reset() forgotten.
AdvancedSwapped(c) ==
  IF call[c] = "fresh"
  THEN [ctx EXCEPT ![Large] =
          [model |-> Rpc[c].hash, hash |-> Large, body |-> {c}]]
  ELSE [ctx EXCEPT ![Large].body = @ \cup {c}]

AdvancedNoReset(c) ==
  IF call[c] = "fresh"
  THEN [ctx EXCEPT ![Large] =
          [model |-> Large, hash |-> Rpc[c].hash, body |-> @.body \cup {c}]]
  ELSE [ctx EXCEPT ![Large].body = @ \cup {c}]

\* After a miss the model is reset and system prompt and prompt are evaluated;
\* after a hit the prompt is evaluated on top of the restored state.
Advanced(c) ==
  IF call[c] = "fresh"
  THEN [ctx EXCEPT ![Large] =
          [model |-> Large, hash |-> Rpc[c].hash, body |-> {c}]]
  ELSE [ctx EXCEPT ![Large].body = @ \cup {c}]

OnlyContext ==
  UNCHANGED <<hot_state, hot_dirty, metadata_store, standby_cache,
              bin, json, now>>

\* llama.eval may give up half-way; the outer handler answers INTERNAL.
Evaluate(c) ==
  /\ call[c] \in {"fresh", "hit"}
  /\ ctx' = Advanced(c)
  /\ \/ CallIs(c, "evaluated") /\ UNCHANGED lock
     \/ "eval" \in ServerFaults /\ CallIs(c, "error") /\ lock' = None
  /\ OnlyContext
  /\ UNCHANGED text

\* The generated tokens are appended to the context too.
Generate(c) ==
  /\ call[c] = "evaluated"
  /\ ctx' = [ctx EXCEPT ![Large].body = @ \cup {c}]
  /\ \/ /\ CallIs(c, "generated")
        /\ text' = [text EXCEPT ![c] = ctx[Large]]
        /\ UNCHANGED lock
     \/ /\ "generate" \in ServerFaults
        /\ CallIs(c, "error") /\ lock' = None
        /\ UNCHANGED text
  /\ OnlyContext

\* Mutant: the session is saved only the first time.
SaveOnce(c) ==
  /\ call[c] = "generated"
  /\ CallIs(c, "saved")
  /\ IF standby_cache[Rpc[c].key] # None \/ Rpc[c].cache_disabled
     THEN UNCHANGED cacheVars
     ELSE \E r \in Roles : save_cache(Large, Rpc[c].key, Rpc[c].hash, r)
  /\ UNCHANGED <<text, lock>>

Save(c) ==
  /\ call[c] = "generated"
  /\ \/ /\ Rpc[c].cache_disabled
        /\ UNCHANGED cacheVars
        /\ CallIs(c, "saved") /\ UNCHANGED lock
     \/ /\ ~ Rpc[c].cache_disabled
        /\ \/ /\ \E r \in Roles :
                   save_cache(Large, Rpc[c].key, Rpc[c].hash, r)
              /\ CallIs(c, "saved") /\ UNCHANGED lock
           \/ /\ save_cache_fails(Rpc[c].key)
              /\ CallIs(c, "error") /\ lock' = None
  /\ UNCHANGED text

Reply(c) ==
  /\ call[c] = "saved"
  /\ CallIs(c, "replied")
  /\ lock' = None
  /\ UNCHANGED cacheVars
  /\ UNCHANGED text

Handler(c) ==
  Reject(c) \/ Start(c) \/ Evaluate(c) \/ Generate(c) \/ Save(c) \/ Reply(c)

----------------------------------------------------------------------------
\* Without exceptions and with the cache on, the server is a client that keeps
\* the contract of the cache.
Phase(c) ==
  CASE call[c] = "fresh" -> "empty"
    [] call[c] \in {"hit", "saved"} -> "restored"
    [] OTHER -> "advanced"

Contract == INSTANCE CacheClient WITH
  Uses <- {<<Large, Rpc[c].key, Rpc[c].hash>> : c \in Calls},
  req <- [m \in Models |->
            IF lock = None \/ m # Large THEN None
            ELSE [key |-> Rpc[lock].key, hash |-> Rpc[lock].hash,
                  phase |-> Phase(lock)]]

ASSUME ContractAssumption == None \notin Contract!Request

KeepsContract == Contract!Spec

=============================================================================
