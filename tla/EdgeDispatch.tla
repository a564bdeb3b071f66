---------------------------- MODULE EdgeDispatch ----------------------------
(***************************************************************************)
(* The local path of TaskDispatcher (_execute_local) on the real cache.    *)
(* Each request is a caller, which holds the lock of its model, and the    *)
(* inference thread it starts and waits for with a timeout.  A context is  *)
(* described by the requests whose tokens are in it: a saved prefix has    *)
(* none, and a request must not find another one's tokens before its own.  *)
(*                                                                         *)
(* cache_disabled is a switch of the whole dispatcher that takes the cache *)
(* out of this path; it is left out here.                                  *)
(***************************************************************************)
EXTENDS KVCache

CONSTANTS
  Requests,     \* the calls of _execute_local
  Task,         \* Task[r]: model, cache key, hash, and whether it has a prefix
  EdgeFaults    \* "eval", "generate": an exception; "timeout": the watchdog

ASSUME EdgeAssumption ==
  /\ IsFiniteSet(Requests) /\ None \notin Requests
  /\ Task \in [Requests -> [model : Models, key : Keys, hash : Hashes,
                            prefix : BOOLEAN]]
  /\ Bodies = SUBSET Requests
  /\ EdgeFaults \subseteq {"eval", "generate", "timeout"}

\* The key of a prefix is made of its model and its hash (prefix::model::hash),
\* and no session goes by such a name.
ASSUME PrefixKeyAssumption ==
  \A q, r \in Requests :
    Task[r].prefix /\ Task[q].key = Task[r].key => Task[q] = Task[r]

VARIABLES
  lock,     \* model_locks: the request that holds each model, or None
  caller,   \* where each caller is
  thread,   \* where each inference thread is
  answer    \* the context each answer was generated from

edgeVars == <<hot_state, hot_dirty, metadata_store, standby_cache,
              bin, json, ctx, now, lock, caller, thread, answer>>

CallerStates ==
  {"waiting", "running", "leaving", "failing", "returned", "raised"}

\* fresh: after a miss; hit: after a restore; prefixed, saved: the prefix is
\* evaluated, is saved; evaluated: the prompt is; marked: and declared.
ThreadStates == {"none", "fresh", "hit", "prefixed", "saved", "evaluated",
                 "marked", "finished", "failed"}

EdgeTypeOK ==
  /\ TypeOK
  /\ lock \in [Models -> Requests \cup {None}]
  /\ caller \in [Requests -> CallerStates]
  /\ thread \in [Requests -> ThreadStates]
  /\ answer \in [Requests -> Snapshot \cup {None}]

Init ==
  /\ CacheInit
  /\ \A m \in Models : ctx[m].body = {}
  /\ lock = [m \in Models |-> None]
  /\ caller = [r \in Requests |-> "waiting"]
  /\ thread = [r \in Requests |-> "none"]
  /\ answer = [r \in Requests |-> None]

model(r) == Task[r].model
key(r)   == Task[r].key
hash(r)  == Task[r].hash

Moves(r, s)   == thread' = [thread EXCEPT ![r] = s]
CallerIs(r, s) == caller' = [caller EXCEPT ![r] = s]

----------------------------------------------------------------------------
(* The caller.                                                             *)

\* Takes the lock, asks the cache and starts the inference thread; an error of
\* the cache goes to the caller's caller.
Enter(r) ==
  /\ caller[r] = "waiting"
  /\ lock[model(r)] = None
  /\ lock' = [lock EXCEPT ![model(r)] = r]
  /\ \/ /\ LoadHits(model(r), key(r), hash(r))
        /\ CallerIs(r, "running") /\ Moves(r, "hit")
     \/ /\ LoadMisses(model(r), key(r), hash(r))
        /\ CallerIs(r, "running") /\ Moves(r, "fresh")
     \/ /\ LoadRaises(model(r), key(r), hash(r))
        /\ CallerIs(r, "failing") /\ UNCHANGED thread
  /\ UNCHANGED answer

\* Mutant: the state is stored after the answer, prefix or not.
JoinSavesAlways(r) ==
  /\ caller[r] = "running"
  /\ \/ /\ thread[r] = "finished"
        /\ \E role \in Roles : save_cache(model(r), key(r), hash(r), role)
        /\ CallerIs(r, "leaving")
     \/ /\ thread[r] = "failed"
        /\ CallerIs(r, "failing")
        /\ UNCHANGED cacheVars
  /\ UNCHANGED <<lock, thread, answer>>

\* The thread ended: with a prefix there is nothing left to store, otherwise
\* the session is saved with the answer in it.
Join(r) ==
  /\ caller[r] = "running"
  /\ \/ /\ thread[r] = "finished" /\ Task[r].prefix
        /\ CallerIs(r, "leaving")
        /\ UNCHANGED cacheVars
     \/ /\ thread[r] = "finished" /\ ~ Task[r].prefix
        /\ \E role \in Roles : save_cache(model(r), key(r), hash(r), role)
        /\ CallerIs(r, "leaving")
     \/ /\ thread[r] = "finished" /\ ~ Task[r].prefix
        /\ save_cache_fails(key(r))
        /\ CallerIs(r, "failing")
     \/ /\ thread[r] = "failed"
        /\ CallerIs(r, "failing")
        /\ UNCHANGED cacheVars
  /\ UNCHANGED <<lock, thread, answer>>

\* inf_thread.join(timeout) gives up; the daemon thread goes on.
TimeOut(r) ==
  /\ "timeout" \in EdgeFaults
  /\ caller[r] = "running"
  /\ thread[r] \notin {"finished", "failed"}
  /\ CallerIs(r, "failing")
  /\ UNCHANGED cacheVars
  /\ UNCHANGED <<lock, thread, answer>>

\* Mutant: an error leaves the lock taken.
LeaveLocked(r) ==
  /\ \/ /\ caller[r] = "leaving" /\ CallerIs(r, "returned")
        /\ lock' = [lock EXCEPT ![model(r)] = None]
     \/ /\ caller[r] = "failing" /\ CallerIs(r, "raised")
        /\ UNCHANGED lock
  /\ UNCHANGED cacheVars
  /\ UNCHANGED <<thread, answer>>

\* The finally clause.
Leave(r) ==
  /\ \/ caller[r] = "leaving" /\ CallerIs(r, "returned")
     \/ caller[r] = "failing" /\ CallerIs(r, "raised")
  /\ lock' = [lock EXCEPT ![model(r)] = None]
  /\ UNCHANGED cacheVars
  /\ UNCHANGED <<thread, answer>>

Caller(r) == Enter(r) \/ Join(r) \/ TimeOut(r) \/ Leave(r)

----------------------------------------------------------------------------
(* The inference thread (run_inference).                                   *)

OnlyContext(r, s) ==
  /\ ctx' = [ctx EXCEPT ![model(r)] = s]
  /\ UNCHANGED <<hot_state, hot_dirty, metadata_store, standby_cache,
                 bin, json, now, lock, caller>>

\* Mutant: two arguments swapped.
FreshSwapped(r, b) == [model |-> hash(r), hash |-> model(r), body |-> b]

Fresh(r, b) == [model |-> model(r), hash |-> hash(r), body |-> b]
Extended(r) == [ctx[model(r)] EXCEPT !.body = @ \cup {r}]

\* After a miss: reset, then the prefix alone, or the whole prompt.
Prefill(r) ==
  /\ thread[r] = "fresh"
  /\ IF Task[r].prefix
     THEN OnlyContext(r, Fresh(r, {})) /\ Moves(r, "prefixed")
     ELSE OnlyContext(r, Fresh(r, {r})) /\ Moves(r, "evaluated")
  /\ UNCHANGED answer

SavePrefix(r) ==
  /\ thread[r] = "prefixed"
  /\ \/ /\ \E role \in Roles : save_cache(model(r), key(r), hash(r), role)
        /\ Moves(r, "saved")
     \/ save_cache_fails(key(r)) /\ Moves(r, "failed")
  /\ UNCHANGED <<lock, caller, answer>>

\* The suffix (or, without a prefix, the whole prompt once more) on top of what
\* the model holds.
Suffix(r) ==
  /\ thread[r] \in {"hit", "saved"}
  /\ OnlyContext(r, Extended(r)) /\ Moves(r, "evaluated")
  /\ UNCHANGED answer

\* llama.eval gives up half-way, for instance when n_ctx is exceeded.
EvalRaises(r) ==
  /\ "eval" \in EdgeFaults
  /\ thread[r] \in {"fresh", "hit", "saved"}
  /\ OnlyContext(r, IF thread[r] = "fresh" THEN Fresh(r, {r}) ELSE Extended(r))
  /\ Moves(r, "failed")
  /\ UNCHANGED answer

\* Mutant: mark_context_dirty forgotten.
MarkNothing(r) ==
  /\ thread[r] = "evaluated"
  /\ Moves(r, "marked")
  /\ UNCHANGED cacheVars
  /\ UNCHANGED <<lock, caller, answer>>

MarkDirty(r) ==
  /\ thread[r] = "evaluated"
  /\ mark_context_dirty
  /\ Moves(r, "marked")
  /\ UNCHANGED <<lock, caller, answer>>

Generate(r) ==
  /\ thread[r] = "marked"
  /\ OnlyContext(r, Extended(r))
  /\ \/ /\ answer' = [answer EXCEPT ![r] = ctx[model(r)]]
        /\ Moves(r, "finished")
     \/ "generate" \in EdgeFaults /\ Moves(r, "failed") /\ UNCHANGED answer

Thread(r) ==
  Prefill(r) \/ SavePrefix(r) \/ Suffix(r) \/ EvalRaises(r) \/ MarkDirty(r)
    \/ Generate(r)

----------------------------------------------------------------------------
\* Every request has been answered: nothing more happens.
Quiet ==
  /\ \A r \in Requests : caller[r] \in {"returned", "raised"}
  /\ UNCHANGED edgeVars

Next == (\E r \in Requests : Caller(r) \/ Thread(r)) \/ Quiet

Spec == Init /\ [][Next]_edgeVars

\* The operating system runs the callers, and a join with a timeout returns.
\* Nothing is assumed of the inference threads: a llama.eval may hang.
FairSpec == Spec /\ \A r \in Requests : WF_edgeVars(Caller(r))

----------------------------------------------------------------------------
\* A request with a prefix is answered from this prefix and its own suffix, and
\* one without from its prompt and, after a hit, earlier turns of its session
\* on the same prompt: never from the tokens of anybody else.
OutputIsOwn ==
  \A r \in Requests : caller[r] = "returned" =>
    /\ answer[r].model = model(r) /\ answer[r].hash = hash(r)
    /\ r \in answer[r].body
    /\ answer[r].body \subseteq
         IF Task[r].prefix THEN {r}
         ELSE {q \in Requests : Task[q] = Task[r]}

\* What is stored under the key of a prefix is the prefix alone, in RAM and on
\* SSD: a snapshot with the tokens of some task would be reused by every other.
SnapshotsArePure ==
  \A r \in Requests : Task[r].prefix =>
    \A s \in {standby_cache[key(r)], bin[key(r)]} :
      s \in Snapshot => s.body = {} /\ s.hash = hash(r) /\ s.model = model(r)

\* The caller is always let go, whatever its inference thread does, and so is
\* everyone who waits for the same model.
CallersReturn ==
  \A r \in Requests :
    caller[r] = "waiting" ~> caller[r] \in {"returned", "raised"}

----------------------------------------------------------------------------
\* When no evaluation or save raises and no watchdog fires, the dispatcher is a
\* client that keeps the contract of the cache: HotIsLossless is its theorem.
Phase(r) ==
  CASE thread[r] = "fresh" -> "empty"
    [] thread[r] \in {"hit", "saved"} -> "restored"
    [] thread[r] \in {"prefixed", "evaluated"} -> "advanced"
    [] caller[r] = "leaving" /\ ~ Task[r].prefix -> "restored"
    [] OTHER -> "declared"

Contract == INSTANCE CacheClient WITH
  Uses <- {<<model(r), key(r), hash(r)>> : r \in Requests},
  req <- [m \in Models |->
            IF lock[m] = None \/ thread[lock[m]] = "none" THEN None
            ELSE [key |-> key(lock[m]), hash |-> hash(lock[m]),
                  phase |-> Phase(lock[m])]]

ASSUME ContractAssumption == None \notin Contract!Request

KeepsContract == Contract!Spec

=============================================================================
