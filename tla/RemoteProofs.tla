---------------------------- MODULE RemoteProofs ----------------------------
(***************************************************************************)
(* The workstation and its clients for any number of requests, attempts,   *)
(* sessions and prompts, with RPCs that time out or lose their connection. *)
(*                                                                         *)
(* A handler works only while it holds the model (HandlerHolds), and an    *)
(* attempt is made only after the one before it was refused or lost        *)
(* (AttemptsInOrder).  From the two follow what may be evaluated twice     *)
(* (TokensDone), that the server is a client of the cache (ServerStep),    *)
(* and with it whose tokens a text is generated from (OwnInv).             *)
(***************************************************************************)
EXTENDS RemoteDispatch, KVCacheProofs

LEMMA CallType ==
  ASSUME NEW c \in Calls
  PROVE  /\ Rpc[c].key \in Keys /\ Rpc[c].hash \in Hashes
         /\ Rpc[c].cache_disabled \in BOOLEAN
         /\ c # None /\ Large \in Models
BY ServerAssumption

LEMMA AttemptType ==
  ASSUME NEW r \in Requests, attempts[r] \in 0..MaxAttempts
  PROVE  /\ attempts[r] > 0 => Current(r) \in Calls
         /\ attempts[r] < MaxAttempts =>
              <<r, attempts[r] + 1>> \in Calls /\ attempts[r] + 1 \in 1..MaxAttempts
BY RemoteAssumption DEF Current

----------------------------------------------------------------------------
(* Types.                                                                  *)

LEMMA AdvancedType ==
  ASSUME TypeOK, NEW c \in Calls
  PROVE  Advanced(c) \in [Models -> Snapshot]
<1>1. ctx[Large] \in Snapshot
  BY CallType DEF TypeOK
<1>2. /\ [model |-> Large, hash |-> Rpc[c].hash, body |-> {c}] \in Snapshot
      /\ [ctx[Large] EXCEPT !.body = @ \cup {c}] \in Snapshot
  BY <1>1, CallType, ServerAssumption DEF Snapshot
<1>3. QED BY <1>2, CallType DEF Advanced, TypeOK

LEMMA HandlerType ==
  ASSUME ServerTypeOK, NEW c \in Calls, Handler(c)
  PROVE  ServerTypeOK'
<1>1. /\ TypeOK /\ call \in [Calls -> CallStates]
      /\ text \in [Calls -> Snapshot \cup {None}] /\ lock \in Calls \cup {None}
  BY DEF ServerTypeOK
<1> USE DEF CallStates
<1>2. ASSUME UNCHANGED cacheVars PROVE TypeOK'
  BY <1>1, <1>2 DEF cacheVars, TypeOK
<1>3. CASE Reject(c) \/ Reply(c)
  BY <1>1, <1>2, <1>3 DEF Reject, Reply, CallIs, ServerTypeOK
<1>4. CASE Start(c)
  <2>1. TypeOK'
    BY <1>1, <1>2, <1>4, LoadType, CallType DEF Start
  <2>2. QED BY <1>1, <1>4, <2>1 DEF Start, CallIs, ServerTypeOK
<1>5. CASE Evaluate(c)
  <2>1. TypeOK'
    BY <1>1, <1>5, AdvancedType DEF Evaluate, OnlyContext, TypeOK
  <2>2. QED BY <1>1, <1>5, <2>1 DEF Evaluate, CallIs, ServerTypeOK
<1>6. CASE Generate(c)
  <2>1. ctx[Large] \in Snapshot /\ [ctx[Large] EXCEPT !.body = @ \cup {c}] \in Snapshot
    BY <1>1, CallType, ServerAssumption DEF TypeOK, Snapshot
  <2>2. TypeOK'
    BY <1>1, <1>6, <2>1 DEF Generate, OnlyContext, TypeOK
  <2>3. QED BY <1>1, <1>6, <2>1, <2>2 DEF Generate, CallIs, ServerTypeOK
<1>7. CASE Save(c)
  <2>1. TypeOK'
    BY <1>1, <1>2, <1>7, SaveType, SaveFailsType, CallType DEF Save
  <2>2. QED BY <1>1, <1>7, <2>1 DEF Save, CallIs, ServerTypeOK
<1>8. QED BY <1>3, <1>4, <1>5, <1>6, <1>7 DEF Handler

\* A client that waits, or has its answer, has made a call.
Sent == \A r \in Requests : client[r] \in {"calling", "returned"} => attempts[r] > 0

RemoteType == RemoteTypeOK /\ Sent

LEMMA RemoteNextType == RemoteType /\ [Next]_remoteVars => RemoteType'
<1>1. SUFFICES ASSUME RemoteTypeOK, Sent, [Next]_remoteVars PROVE RemoteType'
  BY DEF RemoteType
<1>2. /\ ServerTypeOK
      /\ client \in [Requests -> {"ready", "calling", "returned", "fallback"}]
      /\ attempts \in [Requests -> 0..MaxAttempts]
      /\ late \in [Requests -> BOOLEAN] /\ lost \subseteq Calls
      /\ MaxAttempts \in Nat \ {0}
  BY <1>1, RemoteAssumption DEF RemoteTypeOK
<1>3. ASSUME ServerStill PROVE ServerTypeOK'
  BY <1>2, <1>3 DEF ServerStill, serverVars, ServerTypeOK, TypeOK
<1>4. ASSUME NEW r \in Requests, Dispatch(r) PROVE RemoteType'
  <2>1. ServerTypeOK'
    BY <1>2, <1>4, AttemptType
    DEF Dispatch, CallIs, CallStates, ServerTypeOK, TypeOK, cacheVars
  <2>2. QED
    BY <1>1, <1>2, <1>4, <2>1 DEF Dispatch, ClientIs, RemoteType, RemoteTypeOK, Sent
<1>5. ASSUME NEW r \in Requests, Disconnect(r) PROVE RemoteType'
  <2>1. lost' \subseteq Calls
    BY <1>1, <1>2, <1>5, AttemptType DEF Disconnect, Sent
  <2>2. QED
    BY <1>1, <1>2, <1>3, <1>5, <2>1 DEF Disconnect, ClientIs, RemoteType, RemoteTypeOK, Sent
<1>6. ASSUME NEW r \in Requests, Receive(r) \/ TimeOut(r) \/ Deadline(r) \/ FallBack(r)
      PROVE  RemoteType'
  BY <1>1, <1>2, <1>3, <1>6
  DEF Receive, TimeOut, Deadline, FallBack, ClientIs, RemoteType, RemoteTypeOK, Sent
<1>7. CASE ServerStep
  BY <1>1, <1>2, <1>7, HandlerType DEF ServerStep, RemoteType, RemoteTypeOK, Sent
<1>8. CASE UNCHANGED remoteVars
  BY <1>1, <1>8 DEF remoteVars, RemoteType, RemoteTypeOK, ServerTypeOK, TypeOK, Sent
<1>9. QED BY <1>1, <1>4, <1>5, <1>6, <1>7, <1>8 DEF Next, Client, Quiet

LEMMA RemoteTypeKept == Spec => []RemoteType
<1>1. Init => RemoteType
  <2>1. Init => ServerTypeOK
    BY CacheInitType DEF Init, ServerInit, ServerTypeOK, CallStates
  <2>2. QED BY <2>1, RemoteAssumption DEF Init, RemoteType, RemoteTypeOK, Sent
<1>2. QED BY <1>1, RemoteNextType, PTL DEF Spec

\* Every variable of the clients, the server and its cache keeps its type,
\* whatever raises and whatever the network does.
THEOREM RemoteTypeCorrect == Spec => []RemoteTypeOK
BY RemoteTypeKept, PTL DEF RemoteType

----------------------------------------------------------------------------
(* Calls and attempts.                                                     *)

Working == {"fresh", "hit", "evaluated", "generated", "saved"}

\* A handler that works holds the model, and nobody else does.
HandlerHolds ==
  /\ \A c \in Calls : call[c] \in Working => lock = c
  /\ lock # None => call[lock] \in Working

\* Attempts that were not made yet have reached nobody; those before the last
\* one were refused or lost, and so was the last one when the client is ready
\* to try again.
AttemptsInOrder ==
  \A r \in Requests : \A n \in 1..MaxAttempts :
    /\ n > attempts[r] => call[<<r, n>>] = "unsent"
    /\ n < attempts[r] => call[<<r, n>>] = "error" \/ <<r, n>> \in lost
    /\ n = attempts[r] /\ client[r] = "ready" =>
         call[<<r, n>>] = "error" \/ <<r, n>> \in lost \/ late[r]

ClientsServed ==
  \A r \in Requests : client[r] = "returned" => call[Current(r)] = "replied"

CallsInv == HandlerHolds /\ AttemptsInOrder /\ ClientsServed

\* A handler's step leaves the other calls and models alone, and calls that are
\* not made yet or have ended make none.
LEMMA HandlerLocal ==
  ASSUME ServerTypeOK, NEW c \in Calls, Handler(c)
  PROVE  /\ \A d \in Calls \ {c} : call'[d] = call[d] /\ text'[d] = text[d]
         /\ \A m \in Models \ {Large} : ctx'[m] = ctx[m]
         /\ call[c] \notin {"unsent", "replied", "error"}
<1>1. TypeOK /\ call \in [Calls -> CallStates] /\ text \in [Calls -> Snapshot \cup {None}]
  BY DEF ServerTypeOK
<1>2. CASE Reject(c) \/ Reply(c)
  BY <1>1, <1>2 DEF Reject, Reply, CallIs, cacheVars
<1>3. CASE Start(c)
  BY <1>1, <1>3, CallType, LoadContext DEF Start, CallIs, cacheVars
<1>4. CASE Evaluate(c) \/ Generate(c)
  BY <1>1, <1>4, CallType DEF Evaluate, Generate, Advanced, CallIs, TypeOK
<1>5. CASE Save(c)
  <2>1. ctx' = ctx /\ UNCHANGED text
    BY <1>5 DEF Save, save_cache, save_cache_fails, cacheVars
  <2>2. QED BY <1>1, <1>5, <2>1 DEF Save, CallIs
<1>6. QED BY <1>2, <1>3, <1>4, <1>5 DEF Handler

LEMMA HandlerHoldsStep ==
  ASSUME ServerTypeOK, HandlerHolds, NEW c \in Calls, Handler(c)
  PROVE  HandlerHolds'
<1>1. /\ \A d \in Calls \ {c} : call'[d] = call[d]
      /\ call \in [Calls -> CallStates] /\ lock \in Calls \cup {None}
      /\ None \notin Calls
  BY HandlerLocal, ServerAssumption DEF ServerTypeOK
<1> USE DEF Working, CallStates
<1>2. ASSUME lock \in {c, None},
             \/ call'[c] \in Working /\ lock' = c
             \/ call'[c] \notin Working /\ lock' = None
      PROVE  HandlerHolds'
  <2>1. \A d \in Calls \ {c} : call'[d] \notin Working
    BY <1>1, <1>2 DEF HandlerHolds
  <2>2. CASE call'[c] \in Working /\ lock' = c
    BY <1>1, <2>1, <2>2 DEF HandlerHolds
  <2>3. CASE call'[c] \notin Working /\ lock' = None
    BY <2>1, <2>3 DEF HandlerHolds
  <2>4. QED BY <1>2, <2>2, <2>3
<1>3. CASE Reject(c)
  <2>1. lock # c /\ call'[c] = "error" /\ lock' = lock
    BY <1>1, <1>3 DEF Reject, CallIs, HandlerHolds
  <2>2. QED BY <1>1, <2>1 DEF HandlerHolds
<1>4. CASE Start(c)
  BY <1>1, <1>2, <1>4 DEF Start, CallIs
<1>5. CASE Evaluate(c) \/ Generate(c) \/ Save(c) \/ Reply(c)
  <2>1. lock = c
    BY <1>5 DEF Evaluate, Generate, Save, Reply, HandlerHolds
  <2>2. QED BY <1>1, <1>2, <1>5, <2>1 DEF Evaluate, Generate, Save, Reply, CallIs
<1>6. QED BY <1>3, <1>4, <1>5 DEF Handler

LEMMA CallsStep == RemoteType /\ CallsInv /\ [Next]_remoteVars => CallsInv'
<1>1. SUFFICES ASSUME RemoteTypeOK, Sent, HandlerHolds, AttemptsInOrder, ClientsServed,
                      [Next]_remoteVars
               PROVE  CallsInv'
  BY DEF RemoteType, CallsInv
<1>2. /\ ServerTypeOK
      /\ client \in [Requests -> {"ready", "calling", "returned", "fallback"}]
      /\ attempts \in [Requests -> 0..MaxAttempts]
      /\ late \in [Requests -> BOOLEAN]
      /\ call \in [Calls -> CallStates] /\ lock \in Calls \cup {None}
      /\ MaxAttempts \in Nat \ {0} /\ Calls = Requests \X (1..MaxAttempts)
  BY <1>1, RemoteAssumption DEF RemoteTypeOK, ServerTypeOK
<1>3. \A q \in Requests : client[q] = "returned" => Current(q) \in Calls
  BY <1>1, <1>2, AttemptType DEF Sent
<1>4. ASSUME NEW r \in Requests, Dispatch(r) PROVE CallsInv'
  <2> DEFINE c == <<r, attempts[r] + 1>>
  <2>1. c \in Calls /\ call[c] = "unsent" /\ attempts[r] + 1 \in 1..MaxAttempts
    BY <1>1, <1>2, <1>4, AttemptType DEF Dispatch, AttemptsInOrder
  <2>2. call' = [call EXCEPT ![c] = "sent"] /\ lock' = lock /\ lost' = lost
    BY <1>4 DEF Dispatch, CallIs
  <2>3. HandlerHolds'
    BY <1>1, <1>2, <2>1, <2>2 DEF HandlerHolds, Working
  <2>4. AttemptsInOrder'
    <3>1. SUFFICES ASSUME NEW q \in Requests, NEW n \in 1..MaxAttempts
                   PROVE  /\ n > attempts'[q] => call'[<<q, n>>] = "unsent"
                          /\ n < attempts'[q] => call'[<<q, n>>] = "error" \/ <<q, n>> \in lost'
                          /\ n = attempts'[q] /\ client'[q] = "ready" =>
                               \/ call'[<<q, n>>] = "error"
                               \/ <<q, n>> \in lost' \/ late'[q]
      BY DEF AttemptsInOrder
    <3>2. CASE q = r
      <4>1. /\ attempts'[r] = attempts[r] + 1 /\ client'[r] = "calling"
            /\ client[r] = "ready" /\ ~ late[r] /\ attempts[r] \in 0..MaxAttempts
        BY <1>2, <1>4 DEF Dispatch, ClientIs
      <4>2. n # attempts[r] + 1 => call'[<<r, n>>] = call[<<r, n>>]
        BY <1>2, <2>2
      <4>3. QED BY <1>1, <1>2, <2>2, <3>2, <4>1, <4>2 DEF AttemptsInOrder
    <3>3. CASE q # r
      <4>1. attempts'[q] = attempts[q] /\ client'[q] = client[q] /\ late'[q] = late[q]
        BY <1>2, <1>4, <3>3 DEF Dispatch, ClientIs
      <4>2. call'[<<q, n>>] = call[<<q, n>>]
        BY <1>2, <2>2, <3>3
      <4>3. QED BY <1>1, <2>2, <4>1, <4>2 DEF AttemptsInOrder
    <3>4. QED BY <3>2, <3>3
  <2>5. ClientsServed'
    <3>1. \A q \in Requests : client'[q] = "returned" =>
            client[q] = "returned" /\ Current(q)' = Current(q)
      BY <1>2, <1>4 DEF Dispatch, ClientIs, Current
    <3>2. \A d \in Calls : call[d] = "replied" => call'[d] = "replied"
      BY <1>2, <2>1, <2>2
    <3>3. SUFFICES ASSUME NEW q \in Requests, client'[q] = "returned"
                   PROVE  call'[Current(q)'] = "replied"
      BY DEF ClientsServed
    <3>4. QED BY <1>1, <1>3, <3>1, <3>2, <3>3 DEF ClientsServed
  <2>6. QED BY <2>3, <2>4, <2>5 DEF CallsInv
<1>5. ASSUME NEW r \in Requests,
             Receive(r) \/ Disconnect(r) \/ TimeOut(r) \/ Deadline(r) \/ FallBack(r)
      PROVE  CallsInv'
  <2>1. UNCHANGED <<call, lock, attempts>> /\ lost \subseteq lost'
    BY <1>5 DEF Receive, Disconnect, TimeOut, Deadline, FallBack, ServerStill, serverVars
  <2>2. HandlerHolds'
    BY <1>1, <2>1 DEF HandlerHolds
  <2>3. \A q \in Requests : late[q] => late'[q]
    BY <1>2, <1>5 DEF Receive, Disconnect, TimeOut, Deadline, FallBack
  <2>4. \A q \in Requests : client'[q] = "ready" =>
          \/ client[q] = "ready" \/ late[q]
          \/ call[Current(q)] = "error" \/ Current(q) \in lost'
    BY <1>2, <1>5 DEF Receive, Disconnect, TimeOut, Deadline, FallBack, ClientIs
  <2>5. AttemptsInOrder'
    BY <1>1, <2>1, <2>3, <2>4 DEF AttemptsInOrder, Current
  <2>6. \A q \in Requests : client'[q] = "returned" =>
          client[q] = "returned" \/ call[Current(q)] = "replied"
    BY <1>2, <1>5 DEF Receive, Disconnect, TimeOut, Deadline, FallBack, ClientIs
  <2>7. ClientsServed'
    BY <1>1, <2>1, <2>6 DEF ClientsServed, Current
  <2>8. QED BY <2>2, <2>5, <2>7 DEF CallsInv
<1>6. ASSUME NEW c \in Calls, Handler(c), UNCHANGED <<client, attempts, late, lost>>
      PROVE  CallsInv'
  <2>1. HandlerHolds'
    BY <1>1, <1>2, <1>6, HandlerHoldsStep
  <2>2. \A d \in Calls : call[d] \in {"unsent", "replied", "error"} => call'[d] = call[d]
    BY <1>2, <1>6, HandlerLocal
  <2>3. AttemptsInOrder'
    BY <1>1, <1>2, <1>6, <2>2 DEF AttemptsInOrder
  <2>4. ClientsServed'
    BY <1>1, <1>3, <1>6, <2>2 DEF ClientsServed, Current
  <2>5. QED BY <2>1, <2>3, <2>4 DEF CallsInv
<1>7. CASE UNCHANGED remoteVars
  BY <1>1, <1>7 DEF remoteVars, CallsInv, HandlerHolds, AttemptsInOrder, ClientsServed,
                    Current
<1>8. QED BY <1>1, <1>4, <1>5, <1>6, <1>7 DEF Next, Client, ServerStep, Quiet

LEMMA CallsCorrect == Spec => []CallsInv
<1>1. Init => CallsInv
  BY RemoteAssumption
  DEF Init, ServerInit, CallsInv, HandlerHolds, AttemptsInOrder, ClientsServed, Working
<1>2. QED BY <1>1, CallsStep, RemoteTypeKept, PTL DEF Spec

\* The server works on one call at a time, however many clients and abandoned
\* handlers there are.
OneHandler ==
  \A c, d \in Calls : call[c] \in Working /\ call[d] \in Working => c = d

THEOREM HandlersExclude == Spec => []OneHandler
<1>1. CallsInv => OneHandler
  BY DEF CallsInv, HandlerHolds, OneHandler
<1>2. QED BY <1>1, CallsCorrect, PTL

----------------------------------------------------------------------------
(* The RAM tier under the server.                                          *)

LEMMA ServerRamStep == RemoteType /\ RamInv /\ [Next]_remoteVars => RamInv'
<1>1. SUFFICES ASSUME RemoteType, RamInv, [Next]_remoteVars PROVE RamInv'
  OBVIOUS
<1>2. TypeOK
  BY <1>1 DEF RemoteType, RemoteTypeOK, ServerTypeOK
<1>3. ASSUME UNCHANGED cacheVars PROVE RamInv'
  BY <1>1, <1>3, StillRamInv DEF cacheVars
<1>4. ASSUME NEW c \in Calls, Start(c) PROVE RamInv'
  BY <1>1, <1>2, <1>3, <1>4, CallType, LoadRamInv DEF Start
<1>5. ASSUME NEW c \in Calls, Evaluate(c) \/ Generate(c) PROVE RamInv'
  BY <1>1, <1>5, StillRamInv DEF Evaluate, Generate, OnlyContext
<1>6. ASSUME NEW c \in Calls, Save(c) PROVE RamInv'
  BY <1>1, <1>2, <1>3, <1>6, CallType, SaveRamInv, SaveFailsRamInv DEF Save
<1>7. ASSUME NEW c \in Calls, Reject(c) \/ Reply(c) PROVE RamInv'
  BY <1>3, <1>7 DEF Reject, Reply
<1>8. ASSUME NEW r \in Requests, Client(r) PROVE RamInv'
  BY <1>3, <1>8 DEF Client, Dispatch, Receive, Disconnect, TimeOut, Deadline, FallBack,
                    ServerStill, serverVars, cacheVars
<1>9. CASE UNCHANGED remoteVars
  BY <1>3, <1>9 DEF remoteVars, cacheVars
<1>10. QED
  BY <1>1, <1>4, <1>5, <1>6, <1>7, <1>8, <1>9 DEF Next, ServerStep, Handler, Quiet

\* The server's RAM tier stays bounded, no state is in it without metadata, and
\* no session is served HOT without a comparison of model and prompt, although
\* handlers raise half-way and calls without a cache come in between.
THEOREM ServerRamCorrect ==
  Spec => [](StandbyBounded /\ StandbyHasMetadata /\ HotIsValidated)
<1>1. Init => RamInv
  BY EmptyRamInv DEF Init, ServerInit
<1>2. QED BY <1>1, ServerRamStep, RemoteTypeKept, PTL DEF Spec, RamInv

----------------------------------------------------------------------------
(* What may be evaluated twice.                                            *)

\* Neither an evaluation nor a save nor a restore fails half-way.
NoServerFaults ==
  ServerFaults = {} /\ Faults \cap {"save_state", "ssd_write", "load_state"} = {}

EvalDone == {c \in Calls : call[c] \in {"evaluated", "generated", "saved", "replied"}}

\* Every token that is anywhere comes from a call that was evaluated, and such a
\* call is never refused.
TokensDone ==
  /\ \A m \in Models : ctx[m].body \subseteq EvalDone
  /\ \A k \in Keys : \A s \in {standby_cache[k], bin[k]} :
       s \in Snapshot => s.body \subseteq EvalDone
  /\ \A c \in Calls :
       /\ text[c] # None => text[c].body \subseteq EvalDone
       /\ call[c] \in {"generated", "saved", "replied"} => text[c] # None

LEMMA EvalDoneGrows ==
  ASSUME NoServerFaults, ServerTypeOK, NEW c \in Calls, Handler(c)
  PROVE  EvalDone \subseteq EvalDone'
<1>1. call \in [Calls -> CallStates] /\ \A d \in Calls \ {c} : call'[d] = call[d]
  BY HandlerLocal DEF ServerTypeOK
<1>2. ~ save_cache_fails(Rpc[c].key)
  BY DEF save_cache_fails, promote_to_standby_fails, save_to_ssd_fails, NoServerFaults
<1>3. c \in EvalDone => c \in EvalDone'
  BY <1>1, <1>2 DEF Handler, Reject, Start, Evaluate, Generate, Save, Reply, CallIs,
                    EvalDone, NoServerFaults
<1>4. QED BY <1>1, <1>3 DEF EvalDone

\* Stored states only move, apart from the one that is saved.
LEMMA ShiftsDone ==
  ASSUME TokensDone, EvalDone \subseteq EvalDone', NEW K \in SUBSET Keys,
         \A j \in K : Shifts(j), NEW k \in K,
         NEW s \in {standby_cache'[k], bin'[k]}, s \in Snapshot
  PROVE  s.body \subseteq EvalDone'
BY NullLemma DEF TokensDone, Shifts

LEMMA StoredDone ==
  ASSUME NoServerFaults, ServerTypeOK, TokensDone, NEW c \in Calls, Handler(c)
  PROVE  \A k \in Keys : \A s \in {standby_cache'[k], bin'[k]} :
           s \in Snapshot => s.body \subseteq EvalDone'
<1>1. TypeOK /\ EvalDone \subseteq EvalDone'
      /\ Rpc[c].key \in Keys /\ Rpc[c].hash \in Hashes /\ Large \in Models
  BY EvalDoneGrows, CallType DEF ServerTypeOK
<1> DEFINE Stored == \A k \in Keys : \A s \in {standby_cache'[k], bin'[k]} :
                       s \in Snapshot => s.body \subseteq EvalDone'
<1>2. ASSUME \A j \in Keys : Shifts(j) PROVE Stored
  BY <1>1, <1>2, ShiftsDone
<1>3. ASSUME UNCHANGED <<standby_cache, bin>> PROVE Stored
  BY <1>2, <1>3 DEF Shifts
<1>4. CASE Start(c)
  BY <1>1, <1>2, <1>3, <1>4, LoadShifts DEF Start, cacheVars
<1>5. CASE Save(c)
  <2>1. ASSUME NEW role \in Roles, save_cache(Large, Rpc[c].key, Rpc[c].hash, role)
        PROVE  Stored
    <3>1. /\ \A j \in Keys \ {Rpc[c].key} : Shifts(j)
          /\ standby_cache'[Rpc[c].key] = ctx[Large]
          /\ bin'[Rpc[c].key] = bin[Rpc[c].key]
      BY <1>1, <2>1, SaveShifts
    <3>2. \A k \in Keys \ {Rpc[c].key} : \A s \in {standby_cache'[k], bin'[k]} :
            s \in Snapshot => s.body \subseteq EvalDone'
      BY <1>1, <3>1, ShiftsDone
    <3>3. QED BY <1>1, <3>1, <3>2 DEF TokensDone
  <2>2. CASE save_cache_fails(Rpc[c].key)
    BY <1>1, <1>2, <2>2, SaveFailsShifts
  <2>3. QED BY <1>3, <1>5, <2>1, <2>2 DEF Save, cacheVars
<1>6. CASE Reject(c) \/ Evaluate(c) \/ Generate(c) \/ Reply(c)
  BY <1>3, <1>6 DEF Reject, Evaluate, Generate, Reply, OnlyContext, cacheVars
<1>7. QED BY <1>4, <1>5, <1>6 DEF Handler

LEMMA ContextDone ==
  ASSUME NoServerFaults, ServerTypeOK, TokensDone, NEW c \in Calls, Handler(c)
  PROVE  ctx'[Large].body \subseteq EvalDone'
<1>1. /\ TypeOK /\ EvalDone \subseteq EvalDone' /\ Large \in Models
      /\ Rpc[c].key \in Keys /\ Rpc[c].hash \in Hashes
      /\ ctx \in [Models -> Snapshot] /\ call \in [Calls -> CallStates]
  BY EvalDoneGrows, CallType DEF ServerTypeOK, TypeOK
<1>2. ctx[Large].body \subseteq EvalDone' /\ ctx[Large] \in Snapshot
  BY <1>1 DEF TokensDone
<1>3. CASE Start(c)
  <2>1. CASE ctx' = ctx
    BY <1>2, <2>1
  <2>2. CASE ctx' # ctx
    <3>1. \/ ctx'[Large] = ctx[Large]
          \/ ctx'[Large] \in {standby_cache[Rpc[c].key], bin[Rpc[c].key]} \cap Snapshot
      BY <1>1, <1>3, <2>2, LoadGives DEF Start, cacheVars, NoServerFaults
    <3>2. QED BY <1>1, <1>2, <3>1 DEF TokensDone
  <2>3. QED BY <2>1, <2>2
<1>4. CASE Evaluate(c)
  <2>1. c \in EvalDone'
    BY <1>1, <1>4 DEF Evaluate, CallIs, EvalDone, NoServerFaults
  <2>2. \/ ctx'[Large] = [model |-> Large, hash |-> Rpc[c].hash, body |-> {c}]
        \/ ctx'[Large] = [ctx[Large] EXCEPT !.body = @ \cup {c}]
    BY <1>1, <1>4 DEF Evaluate, Advanced
  <2>3. ctx'[Large].body \subseteq ctx[Large].body \cup {c}
    BY <1>2, <2>2 DEF Snapshot
  <2>4. QED BY <1>2, <2>1, <2>3
<1>5. CASE Generate(c)
  <2>1. c \in EvalDone'
    BY <1>1, <1>5 DEF Generate, CallIs, EvalDone, NoServerFaults
  <2>2. ctx'[Large] = [ctx[Large] EXCEPT !.body = @ \cup {c}]
    BY <1>1, <1>5 DEF Generate
  <2>3. ctx'[Large].body \subseteq ctx[Large].body \cup {c}
    BY <1>2, <2>2 DEF Snapshot
  <2>4. QED BY <1>2, <2>1, <2>3
<1>6. CASE Save(c) \/ Reject(c) \/ Reply(c)
  <2>1. ctx' = ctx
    BY <1>6 DEF Save, save_cache, save_cache_fails, Reject, Reply, cacheVars
  <2>2. QED BY <1>2, <2>1
<1>7. QED BY <1>3, <1>4, <1>5, <1>6 DEF Handler

LEMMA TextDone ==
  ASSUME NoServerFaults, ServerTypeOK, TokensDone, NEW c \in Calls, Handler(c)
  PROVE  /\ text'[c] # None => text'[c].body \subseteq EvalDone'
         /\ call'[c] \in {"generated", "saved", "replied"} => text'[c] # None
<1>1. /\ EvalDone \subseteq EvalDone' /\ Large \in Models
      /\ ctx \in [Models -> Snapshot] /\ call \in [Calls -> CallStates]
      /\ text \in [Calls -> Snapshot \cup {None}]
  BY EvalDoneGrows, CallType DEF ServerTypeOK, TypeOK
<1>2. CASE Generate(c)
  <2>1. text'[c] = ctx[Large] /\ ctx[Large] # None
    BY <1>1, <1>2, NullLemma DEF Generate, NoServerFaults
  <2>2. QED BY <1>1, <2>1 DEF TokensDone
<1>3. CASE ~ Generate(c)
  <2>1. text'[c] = text[c]
    BY <1>3 DEF Handler, Reject, Start, Evaluate, Save, Reply
  <2>2. call'[c] \in {"generated", "saved", "replied"} =>
          call[c] \in {"generated", "saved", "replied"}
    BY <1>1, <1>3 DEF Handler, Reject, Start, Evaluate, Save, Reply, CallIs
  <2>3. QED BY <1>1, <2>1, <2>2 DEF TokensDone
<1>4. QED BY <1>2, <1>3

LEMMA TokensStep ==
  NoServerFaults /\ RemoteType /\ CallsInv /\ TokensDone /\ [Next]_remoteVars => TokensDone'
<1>1. SUFFICES ASSUME NoServerFaults, RemoteType, CallsInv, TokensDone, [Next]_remoteVars
               PROVE  TokensDone'
  OBVIOUS
<1>2. /\ ServerTypeOK /\ call \in [Calls -> CallStates]
      /\ attempts \in [Requests -> 0..MaxAttempts]
  BY <1>1 DEF RemoteType, RemoteTypeOK, ServerTypeOK
<1>3. ASSUME NEW c \in Calls, Handler(c) PROVE TokensDone'
  <2>1. \A d \in Calls \ {c} : call'[d] = call[d] /\ text'[d] = text[d]
    BY <1>2, <1>3, HandlerLocal
  <2>2. \A m \in Models \ {Large} : ctx'[m] = ctx[m]
    BY <1>2, <1>3, HandlerLocal
  <2>3. EvalDone \subseteq EvalDone'
    BY <1>1, <1>2, <1>3, EvalDoneGrows
  <2>4. \A m \in Models : ctx'[m].body \subseteq EvalDone'
    BY <1>1, <1>2, <1>3, <2>2, <2>3, ContextDone DEF TokensDone
  <2>5. \A k \in Keys : \A s \in {standby_cache'[k], bin'[k]} :
          s \in Snapshot => s.body \subseteq EvalDone'
    BY <1>1, <1>2, <1>3, StoredDone
  <2>6. /\ text'[c] # None => text'[c].body \subseteq EvalDone'
        /\ call'[c] \in {"generated", "saved", "replied"} => text'[c] # None
    BY <1>1, <1>2, <1>3, TextDone
  <2>7. \A d \in Calls \ {c} :
          /\ text'[d] # None => text'[d].body \subseteq EvalDone'
          /\ call'[d] \in {"generated", "saved", "replied"} => text'[d] # None
    BY <1>1, <2>1, <2>3 DEF TokensDone
  <2>8. QED BY <2>4, <2>5, <2>6, <2>7 DEF TokensDone
<1>4. ASSUME UNCHANGED <<ctx, standby_cache, bin, text>>, EvalDone \subseteq EvalDone',
             \A c \in Calls : call'[c] = call[c] \/ call'[c] = "sent"
      PROVE  TokensDone'
  BY <1>1, <1>4 DEF TokensDone
<1>5. ASSUME NEW r \in Requests, Dispatch(r) PROVE TokensDone'
  <2>1. /\ <<r, attempts[r] + 1>> \in Calls /\ call[<<r, attempts[r] + 1>>] = "unsent"
    BY <1>1, <1>2, <1>5, AttemptType, RemoteAssumption
    DEF Dispatch, CallsInv, AttemptsInOrder
  <2>2. \A c \in Calls :
          call'[c] = call[c] \/ (call[c] = "unsent" /\ call'[c] = "sent")
    BY <1>2, <1>5, <2>1 DEF Dispatch, CallIs
  <2>3. EvalDone \subseteq EvalDone'
    BY <2>2 DEF EvalDone
  <2>4. QED BY <1>4, <1>5, <2>2, <2>3 DEF Dispatch, cacheVars
<1>6. ASSUME UNCHANGED serverVars PROVE TokensDone'
  <2>1. UNCHANGED <<call, ctx, standby_cache, bin, text>>
    BY <1>6 DEF serverVars
  <2>2. EvalDone' = EvalDone
    BY <2>1 DEF EvalDone
  <2>3. QED BY <1>4, <2>1, <2>2
<1>7. ASSUME NEW r \in Requests,
             Receive(r) \/ Disconnect(r) \/ TimeOut(r) \/ Deadline(r) \/ FallBack(r)
      PROVE  TokensDone'
  BY <1>6, <1>7 DEF Receive, Disconnect, TimeOut, Deadline, FallBack, ServerStill
<1>8. CASE UNCHANGED remoteVars
  BY <1>6, <1>8 DEF remoteVars, serverVars
<1>9. QED BY <1>1, <1>3, <1>5, <1>7, <1>8 DEF Next, Client, ServerStep, Quiet

LEMMA TokensCorrect == ASSUME NoServerFaults PROVE Spec => []TokensDone
<1>1. Init => TokensDone
  BY NullLemma DEF Init, ServerInit, CacheInit, TokensDone
<1>2. QED BY <1>1, TokensStep, RemoteTypeKept, CallsCorrect, PTL DEF Spec

\* A prompt is evaluated again on top of an earlier attempt of the same request
\* only when that attempt's connection broke: the server may serve any number of
\* clients, with and without a cache, in any order, and RPCs may time out.
THEOREM EvaluatedOnce == ASSUME NoServerFaults PROVE Spec => []NoDoubleEval
<1>1. RemoteType /\ CallsInv /\ TokensDone => NoDoubleEval
  <2>1. SUFFICES ASSUME RemoteType, CallsInv, TokensDone,
                        NEW r \in Requests, client[r] = "returned",
                        NEW n \in 1..MaxAttempts, <<r, n>> \in text[Current(r)].body
                 PROVE  n = attempts[r] \/ <<r, n>> \in lost
    BY DEF NoDoubleEval
  <2>2. attempts[r] \in 1..MaxAttempts /\ Current(r) \in Calls
    <3>1. attempts[r] \in 0..MaxAttempts /\ attempts[r] > 0
      BY <2>1 DEF RemoteType, RemoteTypeOK, Sent
    <3>2. attempts[r] \in 1..MaxAttempts
      BY <3>1, RemoteAssumption
    <3>3. QED BY <3>1, <3>2, AttemptType
  <2>3. call[Current(r)] = "replied"
    BY <2>1 DEF CallsInv, ClientsServed
  <2>4. <<r, n>> \in EvalDone
    BY <2>1, <2>2, <2>3 DEF TokensDone
  <2>5. call[<<r, n>>] \notin {"unsent", "error"}
    BY <2>4 DEF EvalDone
  <2>6. QED BY <2>1, <2>2, <2>5 DEF CallsInv, AttemptsInOrder
<1>2. QED BY <1>1, RemoteTypeKept, CallsCorrect, TokensCorrect, PTL

----------------------------------------------------------------------------
(* The contract of the cache, step by step.                                *)

\* The operations the contract speaks of are the operations of the server.
LEMMA SameOperations ==
  ASSUME NEW m, NEW k, NEW h, NEW role
  PROVE  /\ Contract!LoadHits(m, k, h) <=> LoadHits(m, k, h)
         /\ Contract!LoadMisses(m, k, h) <=> LoadMisses(m, k, h)
         /\ Contract!LoadRaises(m, k, h) <=> LoadRaises(m, k, h)
         /\ Contract!save_cache(m, k, h, role) <=> save_cache(m, k, h, role)
         /\ Contract!CacheInit <=> CacheInit
         /\ Contract!cacheVars = cacheVars
BY DEF Snapshot, Contract!Snapshot, CacheStateMetadata,
       Contract!CacheStateMetadata, len, Contract!len, cacheVars,
       Contract!cacheVars, files, Contract!files, Resident, Contract!Resident,
       ROLE_PRIORITIES, Contract!ROLE_PRIORITIES, Weight, Contract!Weight,
       compute_eviction_score, Contract!compute_eviction_score, Score,
       Contract!Score, select_eviction_victim, Contract!select_eviction_victim,
       MustEvict, Contract!MustEvict, save_to_ssd, Contract!save_to_ssd,
       save_to_ssd_fails, Contract!save_to_ssd_fails, promote_to_standby,
       Contract!promote_to_standby, promote_to_standby_fails,
       Contract!promote_to_standby_fails, Cardinality, Contract!Cardinality,
       BecomesHot, Contract!BecomesHot, load_from_ssd_accepts,
       Contract!load_from_ssd_accepts, ColdMatches, Contract!ColdMatches, Touch,
       Contract!Touch, Mismatch, Contract!Mismatch, ServesHot, Contract!ServesHot,
       LoadMismatch, Contract!LoadMismatch, LoadHot, Contract!LoadHot, FromStandby,
       Contract!FromStandby, LoadStandby, Contract!LoadStandby,
       deserialize_llama_state_fails, Contract!deserialize_llama_state_fails,
       LoadStandbyFails, Contract!LoadStandbyFails, FromCold, Contract!FromCold,
       LoadCold, Contract!LoadCold, LoadColdNoRoom, Contract!LoadColdNoRoom,
       LoadColdFails, Contract!LoadColdFails, LoadColdRejected,
       Contract!LoadColdRejected, LoadAbsent, Contract!LoadAbsent, LoadHits,
       Contract!LoadHits, LoadMisses, Contract!LoadMisses, LoadRaises,
       Contract!LoadRaises, NewMetadata, Contract!NewMetadata, save_cache,
       Contract!save_cache, save_cache_fails, Contract!save_cache_fails,
       mark_context_dirty, Contract!mark_context_dirty, CacheInit,
       Contract!CacheInit

\* The request the server is making: only on its own model.
ServerReq ==
  [m \in Models |->
     IF lock = None \/ m # Large THEN None
     ELSE [key |-> Rpc[lock].key, hash |-> Rpc[lock].hash, phase |-> Phase(lock)]]

\* Evaluations do not raise, saves do not fail and every call uses the cache.
Cautious ==
  /\ ServerFaults = {}
  /\ Faults \cap {"save_state", "ssd_write"} = {}
  /\ \A c \in Calls : ~ Rpc[c].cache_disabled

LEMMA ReqOf ==
  ASSUME NEW c \in Calls
  PROVE  /\ lock = c => ServerReq[Large] =
              [key |-> Rpc[c].key, hash |-> Rpc[c].hash, phase |-> Phase(c)]
         /\ lock' = c => ServerReq'[Large] =
              [key |-> Rpc[c].key, hash |-> Rpc[c].hash, phase |-> Phase(c)']
         /\ lock = None => ServerReq[Large] = None
         /\ lock' = None => ServerReq'[Large] = None
         /\ [key |-> Rpc[c].key, hash |-> Rpc[c].hash, phase |-> Phase(c)] # None
<1>1. Phase(c) \in Contract!Phases
  BY DEF Phase, Contract!Phases
<1>2. [key |-> Rpc[c].key, hash |-> Rpc[c].hash, phase |-> Phase(c)] # None
  BY <1>1, CallType, ContractAssumption DEF Contract!Request
<1>3. QED BY <1>2, CallType DEF ServerReq

LEMMA ReqElsewhere ==
  /\ ServerReq = [m \in Models |-> ServerReq[m]]
  /\ ServerReq' = [ServerReq EXCEPT ![Large] = ServerReq'[Large]]
BY ServerAssumption DEF ServerReq

LEMMA ContractStart ==
  ASSUME Cautious, ServerTypeOK, NEW c \in Calls, Start(c)
  PROVE  Contract!Next
<1>1. /\ Large \in Models /\ lock = None /\ ServerReq[Large] = None
      /\ ServerReq' = [ServerReq EXCEPT ![Large] = ServerReq'[Large]]
  BY CallType, ReqOf, ReqElsewhere DEF Start
<1> DEFINE k == Rpc[c].key
           h == Rpc[c].hash
           of(p) == [key |-> k, hash |-> h, phase |-> p]
<1>2. \/ LoadHits(Large, k, h) /\ CallIs(c, "hit") /\ lock' = c
      \/ LoadMisses(Large, k, h) /\ CallIs(c, "fresh") /\ lock' = c
      \/ LoadRaises(Large, k, h) /\ lock' = None
  BY <1>1 DEF Start, Cautious
<1>3. /\ call[c] = "sent" /\ Contract!LoadHits(Large, k, h) <=> LoadHits(Large, k, h)
      /\ Contract!LoadMisses(Large, k, h) <=> LoadMisses(Large, k, h)
      /\ Contract!LoadRaises(Large, k, h) <=> LoadRaises(Large, k, h)
  BY SameOperations DEF Start
<1>4. ASSUME \/ /\ LoadHits(Large, k, h)
                /\ ServerReq' = [ServerReq EXCEPT ![Large] = of("restored")]
             \/ /\ LoadMisses(Large, k, h)
                /\ ServerReq' = [ServerReq EXCEPT ![Large] = of("empty")]
             \/ /\ LoadRaises(Large, k, h)
                /\ ServerReq' = [ServerReq EXCEPT ![Large] = None]
      PROVE  Contract!Begin(Large, k, h)
  BY <1>1, <1>3, <1>4 DEF Contract!Begin, Contract!Hold, Contract!Release, ServerReq
<1>5. ASSUME LoadHits(Large, k, h), CallIs(c, "hit"), lock' = c
      PROVE  Contract!Begin(Large, k, h)
  <2>1. Phase(c)' = "restored"
    BY <1>3, <1>5 DEF CallIs, Phase, ServerTypeOK
  <2>2. ServerReq'[Large] = of("restored")
    BY <1>5, <2>1, ReqOf
  <2>3. QED BY <1>1, <1>4, <1>5, <2>2
<1>6. ASSUME LoadMisses(Large, k, h), CallIs(c, "fresh"), lock' = c
      PROVE  Contract!Begin(Large, k, h)
  <2>1. Phase(c)' = "empty"
    BY <1>3, <1>6 DEF CallIs, Phase, ServerTypeOK
  <2>2. ServerReq'[Large] = of("empty")
    BY <1>6, <2>1, ReqOf
  <2>3. QED BY <1>1, <1>4, <1>6, <2>2
<1>7. ASSUME LoadRaises(Large, k, h), lock' = None
      PROVE  Contract!Begin(Large, k, h)
  <2>1. ServerReq'[Large] = None
    BY <1>7, ReqOf
  <2>2. QED BY <1>1, <1>4, <1>7, <2>1
<1>8. Contract!Begin(Large, k, h)
  BY <1>2, <1>5, <1>6, <1>7
<1> DEFINE u == <<Large, k, h>>
<1>9. /\ u \in {<<Large, Rpc[d].key, Rpc[d].hash>> : d \in Calls}
      /\ Contract!Begin(u[1], u[2], u[3])
  BY <1>8
<1> HIDE DEF u
<1>10. QED BY <1>9 DEF Contract!Next

\* The other steps are those of the call that holds the model.
LEMMA ContractHandler ==
  ASSUME Cautious, ServerTypeOK, HandlerHolds, NEW c \in Calls, Handler(c)
  PROVE  Contract!Next \/ UNCHANGED Contract!vars
<1> DEFINE old == [key |-> Rpc[c].key, hash |-> Rpc[c].hash, phase |-> Phase(c)]
<1>1. /\ Large \in Models /\ call \in [Calls -> CallStates]
      /\ ctx \in [Models -> Snapshot] /\ Bodies = SUBSET Calls /\ c # None
      /\ ServerReq' = [ServerReq EXCEPT ![Large] = ServerReq'[Large]]
      /\ ServerReq = [m \in Models |-> ServerReq[m]]
  BY CallType, ServerAssumption, ReqElsewhere DEF ServerTypeOK, TypeOK
<1>2. CASE Start(c)
  BY <1>2, ContractStart
<1>3. CASE Reject(c)
  <2>1. lock # c /\ lock' = lock /\ UNCHANGED cacheVars
    BY <1>1, <1>3 DEF Reject, HandlerHolds, Working
  <2>2. \A d \in Calls \ {c} : call'[d] = call[d]
    BY HandlerLocal
  <2>3. lock # None => lock \in Calls \ {c}
    BY <2>1 DEF ServerTypeOK
  <2>4. ServerReq' = ServerReq
    BY <2>1, <2>2, <2>3 DEF ServerReq, Phase
  <2>5. QED BY <2>1, <2>4 DEF Contract!vars, cacheVars, ServerReq
<1>4. CASE call[c] \in Working
  <2>1. lock = c /\ ServerReq[Large] = old /\ ServerReq[Large] # None
    BY <1>4, ReqOf DEF HandlerHolds
  <2>2. /\ ServerReq[Large].key = Rpc[c].key /\ ServerReq[Large].hash = Rpc[c].hash
        /\ ServerReq[Large].phase = Phase(c)
    BY <2>1
  <2>3. ASSUME NEW p, lock' = c, Phase(c)' = p
        PROVE  ServerReq' = [ServerReq EXCEPT ![Large].phase = p]
    <3>1. ServerReq'[Large] = [key |-> Rpc[c].key, hash |-> Rpc[c].hash, phase |-> p]
      BY <2>3, ReqOf
    <3>2. [key |-> Rpc[c].key, hash |-> Rpc[c].hash, phase |-> p]
            = [old EXCEPT !.phase = p]
      OBVIOUS
    <3>3. ServerReq'[Large] = [ServerReq[Large] EXCEPT !.phase = p]
      BY <2>1, <3>1, <3>2
    <3>4. QED BY <1>1, <3>3
  <2>4. ASSUME NEW b \in Bodies, OnlyContext, lock' = c, Phase(c)' = "advanced",
               Phase(c) # "declared",
               ctx' = [ctx EXCEPT ![Large] =
                         IF Phase(c) = "empty"
                         THEN [model |-> Large, hash |-> Rpc[c].hash, body |-> b]
                         ELSE [@ EXCEPT !.body = b]]
        PROVE  Contract!Next
    <3>1. ServerReq' = [ServerReq EXCEPT ![Large].phase =
                          IF @ = "declared" THEN @ ELSE "advanced"]
      BY <2>2, <2>3, <2>4
    <3>2. ctx' = [ctx EXCEPT ![Large] =
                    IF ServerReq[Large].phase = "empty"
                    THEN [model |-> Large, hash |-> ServerReq[Large].hash, body |-> b]
                    ELSE [@ EXCEPT !.body = b]]
      BY <2>2, <2>4
    <3>3. UNCHANGED <<hot_state, hot_dirty, metadata_store, standby_cache, bin, json, now>>
      BY <2>4 DEF OnlyContext
    <3>4. Contract!Evaluate(Large)
      BY <2>1, <3>1, <3>2, <3>3 DEF Contract!Evaluate, ServerReq
    <3>5. QED BY <1>1, <3>4 DEF Contract!Next
  <2>5. CASE Evaluate(c)
    <3>1. /\ call'[c] = "evaluated" /\ lock' = c /\ OnlyContext
          /\ ctx' = Advanced(c) /\ call[c] \in {"fresh", "hit"}
      BY <1>1, <2>1, <2>5 DEF Evaluate, CallIs, Cautious
    <3>2. Phase(c)' = "advanced"
      BY <3>1 DEF Phase
    <3>3. CASE call[c] = "fresh"
      <4>1. Phase(c) = "empty"
        BY <3>3 DEF Phase
      <4>2. {c} \in Bodies
        BY <1>1
      <4>3. ctx' = [ctx EXCEPT ![Large] =
                      [model |-> Large, hash |-> Rpc[c].hash, body |-> {c}]]
        BY <3>1, <3>3 DEF Advanced
      <4>4. QED BY <2>4, <3>1, <3>2, <4>1, <4>2, <4>3
    <3>4. CASE call[c] = "hit"
      <4>1. Phase(c) = "restored"
        BY <3>4 DEF Phase
      <4>2. ctx[Large].body \cup {c} \in Bodies /\ ctx[Large] \in Snapshot
        BY <1>1 DEF Snapshot
      <4>3. ctx' = [ctx EXCEPT ![Large] =
                      [ctx[Large] EXCEPT !.body = ctx[Large].body \cup {c}]]
        BY <1>1, <3>1, <3>4 DEF Advanced
      <4>4. QED BY <2>4, <3>1, <3>2, <4>1, <4>2, <4>3
    <3>5. QED BY <3>1, <3>3, <3>4
  <2>6. CASE Generate(c)
    <3>1. /\ call[c] = "evaluated" /\ call'[c] = "generated" /\ lock' = c /\ OnlyContext
          /\ ctx' = [ctx EXCEPT ![Large] =
                       [ctx[Large] EXCEPT !.body = ctx[Large].body \cup {c}]]
      BY <1>1, <2>1, <2>6 DEF Generate, CallIs, Cautious
    <3>2. Phase(c) = "advanced" /\ Phase(c)' = "advanced"
      BY <3>1 DEF Phase
    <3>3. ctx[Large].body \cup {c} \in Bodies
      BY <1>1 DEF Snapshot
    <3>4. QED BY <2>4, <3>1, <3>2, <3>3
  <2>7. CASE Save(c)
    <3>1. ~ save_cache_fails(Rpc[c].key)
      BY DEF save_cache_fails, promote_to_standby_fails, save_to_ssd_fails, Cautious
    <3>2. PICK role \in Roles : save_cache(Large, Rpc[c].key, Rpc[c].hash, role)
      BY <2>7, <3>1 DEF Save, Cautious
    <3>3. call[c] = "generated" /\ call'[c] = "saved" /\ lock' = c
      BY <1>1, <2>1, <2>7, <3>1 DEF Save, CallIs, Cautious
    <3>4. Phase(c) = "advanced" /\ Phase(c)' = "restored"
      BY <3>3 DEF Phase
    <3>5. ServerReq' = [ServerReq EXCEPT ![Large].phase = "restored"]
      BY <2>3, <3>3, <3>4
    <3>6. Contract!save_cache(Large, ServerReq[Large].key, ServerReq[Large].hash, role)
      BY <2>2, <3>2, SameOperations
    <3>7. Contract!Save(Large, role)
      BY <2>1, <2>2, <3>4, <3>5, <3>6 DEF Contract!Save, ServerReq
    <3>8. QED BY <1>1, <3>7 DEF Contract!Next
  <2>8. CASE Reply(c)
    <3>1. Phase(c) = "restored"
      BY <2>8 DEF Reply, Phase
    <3>2. ServerReq' = [ServerReq EXCEPT ![Large] = None]
      BY <1>1, <2>8, ReqOf DEF Reply
    <3>3. Contract!Finish(Large)
      BY <2>1, <2>2, <2>8, <3>1, <3>2
      DEF Reply, Contract!Finish, Contract!Release, ServerReq, Contract!cacheVars, cacheVars
    <3>4. QED BY <1>1, <3>3 DEF Contract!Next
  <2>9. QED
    BY <1>2, <1>3, <2>5, <2>6, <2>7, <2>8 DEF Handler
<1>5. QED
  BY <1>2, <1>3, <1>4
  DEF Handler, Evaluate, Generate, Save, Reply, Working

LEMMA ContractClients ==
  ASSUME RemoteType, CallsInv, NEW r \in Requests, Client(r)
  PROVE  UNCHANGED Contract!vars
<1>1. /\ call \in [Calls -> CallStates] /\ attempts \in [Requests -> 0..MaxAttempts]
      /\ lock \in Calls \cup {None}
  BY DEF RemoteType, RemoteTypeOK, ServerTypeOK
<1>2. UNCHANGED cacheVars /\ UNCHANGED lock
  BY DEF Client, Dispatch, Receive, Disconnect, TimeOut, Deadline, FallBack,
         ServerStill, serverVars, cacheVars
<1>3. lock # None => call'[lock] = call[lock]
  <2>1. CASE Dispatch(r)
    <3>1. /\ <<r, attempts[r] + 1>> \in Calls /\ call[<<r, attempts[r] + 1>>] = "unsent"
      BY <1>1, <2>1, AttemptType, RemoteAssumption DEF Dispatch, CallsInv, AttemptsInOrder
    <3>2. lock # <<r, attempts[r] + 1>>
      BY <3>1, RemoteAssumption, ServerAssumption DEF CallsInv, HandlerHolds, Working
    <3>3. QED BY <1>1, <2>1, <3>1, <3>2 DEF Dispatch, CallIs
  <2>2. CASE ~ Dispatch(r)
    BY <2>2 DEF Client, Receive, Disconnect, TimeOut, Deadline, FallBack, ServerStill,
                serverVars
  <2>3. QED BY <2>1, <2>2
<1>4. ServerReq' = ServerReq
  BY <1>2, <1>3 DEF ServerReq, Phase
<1>5. QED BY <1>2, <1>4 DEF Contract!vars, cacheVars, ServerReq

\* The workstation is a client that keeps the contract of the cache, for any
\* number of sessions and although handlers outlive the RPCs they answer: as long
\* as nothing raises half-way and every call uses the cache.
THEOREM ServerKeepsContract == ASSUME Cautious PROVE Spec => KeepsContract
<1>1. Init => Contract!Init
  <2>1. Init => ServerReq = [m \in Models |-> None]
    BY DEF Init, ServerInit, ServerReq
  <2>2. QED BY <2>1, SameOperations DEF Init, ServerInit, Contract!Init, ServerReq
<1>2. RemoteType /\ CallsInv /\ [Next]_remoteVars => [Contract!Next]_(Contract!vars)
  <2>1. UNCHANGED remoteVars => UNCHANGED Contract!vars
    BY DEF remoteVars, Contract!vars, Phase
  <2>2. ASSUME RemoteType, CallsInv, NEW c \in Calls, Handler(c)
        PROVE  [Contract!Next]_(Contract!vars)
    BY <2>2, ContractHandler DEF RemoteType, RemoteTypeOK, CallsInv
  <2>3. QED BY <2>1, <2>2, ContractClients DEF Next, ServerStep, Quiet
<1>3. QED
  BY <1>1, <1>2, RemoteTypeKept, CallsCorrect, PTL DEF Spec, KeepsContract, Contract!Spec

----------------------------------------------------------------------------
(* What the cache gives to a client that keeps its contract.               *)

Cache == INSTANCE HotProofs WITH
  Uses <- {<<Large, Rpc[c].key, Rpc[c].hash>> : c \in Calls},
  req <- [m \in Models |->
            IF lock = None \/ m # Large THEN None
            ELSE [key |-> Rpc[lock].key, hash |-> Rpc[lock].hash,
                  phase |-> Phase(lock)]]

\* What the cache and its client assume of their constants holds here.
LEMMA CacheAssumptions ==
  /\ Cache!IsFiniteSet(Keys)
  /\ BodySize \in [Bodies -> Nat]
  /\ MaxRam \in Nat /\ MaxTime \in Nat
  /\ Faults \subseteq {"decode", "load_state", "save_state", "ssd_write", "crash"}
  /\ None # Torn
  /\ None \notin Keys
  /\ {None, Torn} \cap (Cache!Snapshot \cup Cache!CacheStateMetadata) = {}
  /\ {<<Large, Rpc[c].key, Rpc[c].hash>> : c \in Calls} \subseteq Models \X Keys \X Hashes
  /\ None \notin Cache!Request
<1>1. Cache!IsFiniteSet(Keys)
  BY KeysAssumption DEF IsFiniteSet, Cache!IsFiniteSet
<1>2. Cache!Snapshot = Snapshot /\ Cache!CacheStateMetadata = CacheStateMetadata
  BY DEF Cache!Snapshot, Snapshot, Cache!CacheStateMetadata, CacheStateMetadata
<1>3. {<<Large, Rpc[c].key, Rpc[c].hash>> : c \in Calls} \subseteq Models \X Keys \X Hashes
  BY CallType
<1>4. None \notin Cache!Request
  BY ContractAssumption
  DEF Cache!Request, Cache!Phases, Contract!Request, Contract!Phases
<1>5. QED
  BY <1>1, <1>2, <1>3, <1>4, SizeAssumption, BoundsAssumption, FaultsAssumption,
     NullAssumption

LEMMA SameSpec == Contract!Spec => Cache!Spec
<1>1. Contract!Init => Cache!Init
  BY DEF Contract!Init, Cache!Init, Contract!vars, Cache!vars, Contract!CacheInit,
         Cache!CacheInit, Contract!Snapshot, Cache!Snapshot
<1>2. Contract!Next => Cache!Next
  BY DEF Contract!Snapshot, Cache!Snapshot, Contract!CacheStateMetadata,
         Cache!CacheStateMetadata, Contract!len, Cache!len, Contract!cacheVars,
         Cache!cacheVars, Contract!files, Cache!files, Contract!Resident,
         Cache!Resident, Contract!ROLE_PRIORITIES, Cache!ROLE_PRIORITIES,
         Contract!Weight, Cache!Weight, Contract!compute_eviction_score,
         Cache!compute_eviction_score, Contract!Score, Cache!Score,
         Contract!select_eviction_victim, Cache!select_eviction_victim,
         Contract!MustEvict, Cache!MustEvict, Contract!save_to_ssd,
         Cache!save_to_ssd, Contract!save_to_ssd_fails, Cache!save_to_ssd_fails,
         Contract!promote_to_standby, Cache!promote_to_standby,
         Contract!promote_to_standby_fails, Cache!promote_to_standby_fails,
         Contract!Cardinality, Cache!Cardinality, Contract!BecomesHot,
         Cache!BecomesHot, Contract!load_from_ssd_accepts,
         Cache!load_from_ssd_accepts, Contract!ColdMatches, Cache!ColdMatches,
         Contract!Touch, Cache!Touch, Contract!Mismatch, Cache!Mismatch,
         Contract!ServesHot, Cache!ServesHot, Contract!LoadMismatch,
         Cache!LoadMismatch, Contract!LoadHot, Cache!LoadHot, Contract!FromStandby,
         Cache!FromStandby, Contract!LoadStandby, Cache!LoadStandby,
         Contract!deserialize_llama_state_fails,
         Cache!deserialize_llama_state_fails, Contract!LoadStandbyFails,
         Cache!LoadStandbyFails, Contract!FromCold, Cache!FromCold,
         Contract!LoadCold, Cache!LoadCold, Contract!LoadColdNoRoom,
         Cache!LoadColdNoRoom, Contract!LoadColdFails, Cache!LoadColdFails,
         Contract!LoadColdRejected, Cache!LoadColdRejected, Contract!LoadAbsent,
         Cache!LoadAbsent, Contract!LoadHits, Cache!LoadHits, Contract!LoadMisses,
         Cache!LoadMisses, Contract!LoadRaises, Cache!LoadRaises,
         Contract!NewMetadata, Cache!NewMetadata, Contract!save_cache,
         Cache!save_cache, Contract!save_cache_fails, Cache!save_cache_fails,
         Contract!mark_context_dirty, Cache!mark_context_dirty,
         Contract!save_to_ssd_torn, Cache!save_to_ssd_torn, Contract!Tick,
         Cache!Tick, Contract!Restart, Cache!Restart, Contract!CacheInit,
         Cache!CacheInit, Contract!vars, Cache!vars, Contract!Phases, Cache!Phases,
         Contract!Request, Cache!Request, Contract!Init, Cache!Init, Contract!Hold,
         Cache!Hold, Contract!Release, Cache!Release, Contract!Begin, Cache!Begin,
         Contract!Evaluate, Cache!Evaluate, Contract!Declare, Cache!Declare,
         Contract!Save, Cache!Save, Contract!Finish, Cache!Finish, Contract!Crash,
         Cache!Crash, Contract!Time, Cache!Time, Contract!Next, Cache!Next
<1>3. Contract!vars = Cache!vars /\ Contract!vars' = Cache!vars'
  BY DEF Contract!vars, Cache!vars
<1>4. [Contract!Next]_(Contract!vars) => [Cache!Next]_(Cache!vars)
  BY <1>2, <1>3
<1>5. QED BY <1>1, <1>4, PTL DEF Contract!Spec, Cache!Spec

LEMMA CacheIsKept == ASSUME Cautious, Cache!Whole PROVE Spec => []Cache!IInv
<1>1. Spec => Contract!Spec
  BY ServerKeepsContract DEF KeepsContract
<1>2. Cache!Spec => []Cache!IInv
  BY CacheAssumptions, Cache!IInvCorrect
<1>3. QED BY <1>1, <1>2, SameSpec, PTL

----------------------------------------------------------------------------
(* Whose tokens a text is generated from.                                  *)

\* What a call that is served finds in the model is what is stored for it.
Served(c) ==
  /\ ctx'[Large] \in {standby_cache[Rpc[c].key], bin[Rpc[c].key]}
  /\ ctx'[Large].hash = Rpc[c].hash

LEMMA HitIsServed ==
  ASSUME ServerTypeOK, Cache!IInv, NEW c \in Calls, lock = None,
         LoadHits(Large, Rpc[c].key, Rpc[c].hash)
  PROVE  Served(c)
<1> DEFINE k == Rpc[c].key
           h == Rpc[c].hash
<1>1. /\ Large \in Models /\ k \in Keys /\ ctx \in [Models -> Snapshot]
      /\ standby_cache \in [Keys -> Snapshot \cup {None}]
      /\ hot_state \in Keys \cup {None}
  BY CallType DEF ServerTypeOK, TypeOK
<1>2. /\ standby_cache[k] # None =>
           /\ metadata_store[k] # None
           /\ metadata_store[k].prompt_hash = standby_cache[k].hash
      /\ load_from_ssd_accepts(k) => json[k].prompt_hash = bin[k].hash
  <2>1. Cache!load_from_ssd_accepts(k) <=> load_from_ssd_accepts(k)
    BY DEF Cache!load_from_ssd_accepts, load_from_ssd_accepts, Cache!len, len,
           Cache!Snapshot, Snapshot, Cache!CacheStateMetadata, CacheStateMetadata
  <2>2. QED
    BY <1>1, <2>1 DEF Cache!IInv, Cache!HotInv, Cache!TagsAgree, Cache!PairsAgree,
                      Cache!Resident, Cache!Describes
<1>3. CASE LoadHot(Large, k, h)
  <2>1. /\ ~ Mismatch(Large, k, h) /\ hot_state = k /\ ~ hot_dirty /\ ctx' = ctx
    BY <1>3 DEF LoadHot, ServesHot
  <2>2. k # None
    BY <1>1, NullLemma
  <2>3. /\ Cache!Describes(metadata_store[k], Cache!Held(k))
        /\ \/ ServerReq[metadata_store[k].model_tag] = None
              /\ ctx[metadata_store[k].model_tag] = Cache!Held(k)
           \/ ServerReq[metadata_store[k].model_tag] # None
    BY <2>1, <2>2 DEF Cache!IInv, Cache!HotInv, Cache!HotIsResident, ServerReq
  <2>4. /\ metadata_store[k] # None /\ metadata_store[k].model_tag = Large
        /\ metadata_store[k].prompt_hash = h
    BY <2>1, <2>3 DEF Cache!Describes, Mismatch
  <2>5. ServerReq[Large] = None
    BY <1>1 DEF ServerReq
  <2>6. ctx[Large] = Cache!Held(k) /\ ctx[Large].hash = h
    BY <2>3, <2>4, <2>5 DEF Cache!Describes
  <2>7. QED BY <2>1, <2>6 DEF Cache!Held, Served
<1>4. CASE LoadStandby(Large, k, h)
  BY <1>1, <1>2, <1>4 DEF LoadStandby, FromStandby, Mismatch, Served
<1>5. CASE LoadCold(Large, k, h)
  BY <1>1, <1>2, <1>5 DEF LoadCold, FromCold, ColdMatches, Served
<1>6. QED BY <1>3, <1>4, <1>5 DEF LoadHits

\* The calls of one session with one prompt.
Turns(c) == {d \in Calls : Rpc[d] = Rpc[c]}

Belongs(s, c) == s.hash = Rpc[c].hash /\ s.body \subseteq Turns(c)

SessionsOwned ==
  \A c \in Calls : \A s \in {standby_cache[Rpc[c].key], bin[Rpc[c].key]} :
    s \in Snapshot /\ s.hash = Rpc[c].hash => s.body \subseteq Turns(c)

CallOwn(c) ==
  /\ call[c] = "hit" => Belongs(ctx[Large], c)
  /\ call[c] \in {"evaluated", "generated"} =>
       Belongs(ctx[Large], c) /\ c \in ctx[Large].body
  /\ call[c] \in {"generated", "saved", "replied"} =>
       Belongs(text[c], c) /\ c \in text[c].body

OwnInv == SessionsOwned /\ \A c \in Calls : CallOwn(c)

LEMMA ShiftsOwned ==
  ASSUME SessionsOwned, NEW K \in SUBSET Keys, \A j \in K : Shifts(j),
         NEW d \in Calls, Rpc[d].key \in K,
         NEW s \in {standby_cache'[Rpc[d].key], bin'[Rpc[d].key]}, s \in Snapshot,
         s.hash = Rpc[d].hash
  PROVE  s.body \subseteq Turns(d)
BY NullLemma DEF SessionsOwned, Shifts

LEMMA SessionsStep ==
  ASSUME Cautious, ServerTypeOK, SessionsOwned, NEW c \in Calls, CallOwn(c), Handler(c)
  PROVE  SessionsOwned'
<1>1. Large \in Models /\ Rpc[c].key \in Keys /\ Rpc[c].hash \in Hashes /\ TypeOK
  BY CallType DEF ServerTypeOK
<1>2. ASSUME \A j \in Keys : Shifts(j) PROVE SessionsOwned'
  BY <1>2, ShiftsOwned, CallType DEF SessionsOwned, Turns
<1>3. CASE Start(c)
  BY <1>1, <1>2, <1>3, LoadShifts DEF Start, Cautious
<1>4. CASE Save(c)
  <2>1. ~ save_cache_fails(Rpc[c].key)
    BY DEF save_cache_fails, promote_to_standby_fails, save_to_ssd_fails, Cautious
  <2>2. PICK role \in Roles : save_cache(Large, Rpc[c].key, Rpc[c].hash, role)
    BY <1>4, <2>1 DEF Save, Cautious
  <2>3. /\ \A j \in Keys \ {Rpc[c].key} : Shifts(j)
        /\ standby_cache'[Rpc[c].key] = ctx[Large]
        /\ bin'[Rpc[c].key] = bin[Rpc[c].key]
    BY <1>1, <2>2, SaveShifts
  <2>4. Belongs(ctx[Large], c)
    BY <1>4 DEF Save, CallOwn
  <2>5. SUFFICES ASSUME NEW d \in Calls,
                        NEW s \in {standby_cache'[Rpc[d].key], bin'[Rpc[d].key]},
                        s \in Snapshot, s.hash = Rpc[d].hash
                 PROVE  s.body \subseteq Turns(d)
    BY DEF SessionsOwned, Turns
  <2>6. CASE Rpc[d].key # Rpc[c].key
    BY <2>3, <2>5, <2>6, ShiftsOwned, CallType
  <2>7. CASE Rpc[d].key = Rpc[c].key /\ s = bin[Rpc[c].key]
    BY <2>5, <2>7 DEF SessionsOwned
  <2>8. CASE Rpc[d].key = Rpc[c].key /\ s = ctx[Large]
    <3>1. /\ Rpc[d].hash = Rpc[c].hash
          /\ Rpc[d].cache_disabled = FALSE /\ Rpc[c].cache_disabled = FALSE
      BY <2>4, <2>5, <2>8, CallType DEF Belongs, Cautious
    <3>2. Rpc[d] = Rpc[c]
      BY <2>8, <3>1, ServerAssumption
    <3>3. QED BY <2>4, <2>8, <3>2 DEF Belongs, Turns
  <2>9. QED BY <2>3, <2>5, <2>6, <2>7, <2>8
<1>5. CASE Reject(c) \/ Evaluate(c) \/ Generate(c) \/ Reply(c)
  <2>1. UNCHANGED <<standby_cache, bin>>
    BY <1>5 DEF Reject, Evaluate, Generate, Reply, OnlyContext, cacheVars
  <2>2. QED BY <1>2, <2>1 DEF Shifts
<1>6. QED BY <1>3, <1>4, <1>5 DEF Handler

LEMMA CallStep ==
  ASSUME Cautious, ServerTypeOK, Cache!IInv, SessionsOwned,
         NEW c \in Calls, CallOwn(c), Handler(c)
  PROVE  CallOwn(c)'
<1>1. /\ Large \in Models /\ Rpc[c].key \in Keys /\ Rpc[c].hash \in Hashes
      /\ ctx \in [Models -> Snapshot] /\ call \in [Calls -> CallStates]
      /\ text \in [Calls -> Snapshot \cup {None}] /\ TypeOK
      /\ standby_cache \in [Keys -> Snapshot \cup {None}]
      /\ bin \in [Keys -> Snapshot \cup {None, Torn}]
  BY CallType DEF ServerTypeOK, TypeOK
<1>2. ctx[Large] \in Snapshot /\ c \in Turns(c)
  BY <1>1 DEF Turns
<1> USE DEF Turns, CallStates
<1>3. CASE Reject(c)
  BY <1>1, <1>3 DEF Reject, CallIs, CallOwn
<1>4. CASE Start(c)
  <2>1. CASE LoadHits(Large, Rpc[c].key, Rpc[c].hash) /\ CallIs(c, "hit")
    <3>1. Served(c) /\ ctx' \in [Models -> Snapshot]
      BY <1>1, <1>4, <2>1, HitIsServed, LoadType DEF Start, TypeOK
    <3>2. Belongs(ctx'[Large], c)
      BY <1>1, <3>1 DEF Served, Belongs, SessionsOwned
    <3>3. QED BY <1>1, <2>1, <3>2 DEF CallIs, CallOwn, Belongs
  <2>2. CASE call'[c] \in {"fresh", "error"}
    BY <2>2 DEF CallOwn
  <2>3. QED BY <1>1, <1>4, <2>1, <2>2 DEF Start, CallIs, Cautious
<1>5. CASE Evaluate(c)
  <2>1. call'[c] = "evaluated"
    BY <1>1, <1>5 DEF Evaluate, CallIs, Cautious
  <2>2. CASE call[c] = "fresh"
    <3>1. ctx'[Large] = [model |-> Large, hash |-> Rpc[c].hash, body |-> {c}]
      BY <1>1, <1>5, <2>2 DEF Evaluate, Advanced
    <3>2. QED BY <1>2, <2>1, <3>1 DEF CallOwn, Belongs
  <2>3. CASE call[c] = "hit"
    <3>1. ctx'[Large] = [ctx[Large] EXCEPT !.body = @ \cup {c}]
      BY <1>1, <1>5, <2>3 DEF Evaluate, Advanced
    <3>2. Belongs(ctx[Large], c)
      BY <2>3 DEF CallOwn
    <3>3. Belongs(ctx'[Large], c) /\ c \in ctx'[Large].body
      BY <1>2, <3>1, <3>2 DEF Belongs, Snapshot
    <3>4. QED BY <2>1, <3>3 DEF CallOwn, Belongs
  <2>4. QED BY <1>5, <2>2, <2>3 DEF Evaluate
<1>6. CASE Generate(c)
  <2>1. /\ call[c] = "evaluated" /\ call'[c] = "generated" /\ text'[c] = ctx[Large]
        /\ ctx'[Large] = [ctx[Large] EXCEPT !.body = @ \cup {c}]
    BY <1>1, <1>6 DEF Generate, CallIs, Cautious
  <2>2. Belongs(ctx[Large], c) /\ c \in ctx[Large].body
    BY <2>1 DEF CallOwn
  <2>3. Belongs(ctx'[Large], c) /\ c \in ctx'[Large].body
    BY <1>2, <2>1, <2>2 DEF Belongs, Snapshot
  <2>4. QED BY <2>1, <2>2, <2>3 DEF CallOwn, Belongs
<1>7. CASE Save(c) \/ Reply(c)
  <2>1. /\ text' = text /\ call[c] \in {"generated", "saved"}
        /\ call'[c] \in {"saved", "replied", "error"}
    BY <1>1, <1>7 DEF Save, Reply, CallIs
  <2>2. QED BY <2>1 DEF CallOwn, Belongs
<1>8. QED BY <1>3, <1>4, <1>5, <1>6, <1>7 DEF Handler

\* Whoever is at work finds the model as it left it.
LEMMA CallElsewhere ==
  ASSUME ServerTypeOK, HandlerHolds, NEW c \in Calls, Handler(c),
         NEW d \in Calls \ {c}, CallOwn(d)
  PROVE  CallOwn(d)'
<1>1. call'[d] = call[d] /\ text'[d] = text[d]
  BY HandlerLocal
<1>2. CASE call[d] \notin {"hit", "evaluated", "generated"}
  BY <1>1, <1>2 DEF CallOwn, Belongs, Turns
<1>3. CASE call[d] \in {"hit", "evaluated", "generated"}
  <2>1. lock = d /\ d # c /\ lock # None
    BY <1>3, CallType DEF HandlerHolds, Working
  <2>2. Reject(c)
    BY <2>1 DEF Handler, Start, Evaluate, Generate, Save, Reply, HandlerHolds, Working
  <2>3. ctx' = ctx
    BY <2>2 DEF Reject, cacheVars
  <2>4. QED BY <1>1, <2>3 DEF CallOwn, Belongs, Turns
<1>4. QED BY <1>2, <1>3

LEMMA OwnClients ==
  ASSUME RemoteType, CallsInv, OwnInv, NEW r \in Requests, Client(r)
  PROVE  OwnInv'
<1>1. /\ call \in [Calls -> CallStates] /\ attempts \in [Requests -> 0..MaxAttempts]
  BY DEF RemoteType, RemoteTypeOK, ServerTypeOK
<1>2. UNCHANGED <<ctx, standby_cache, bin, text>>
  BY DEF Client, Dispatch, Receive, Disconnect, TimeOut, Deadline, FallBack,
         ServerStill, serverVars, cacheVars
<1>3. \A c \in Calls : call'[c] = call[c] \/ call'[c] = "sent"
  <2>1. CASE Dispatch(r)
    BY <1>1, <2>1 DEF Dispatch, CallIs
  <2>2. CASE ~ Dispatch(r)
    BY <2>2 DEF Client, Receive, Disconnect, TimeOut, Deadline, FallBack, ServerStill,
                serverVars
  <2>3. QED BY <2>1, <2>2
<1>4. SessionsOwned'
  BY <1>2 DEF OwnInv, SessionsOwned, Turns
<1>5. \A c \in Calls : CallOwn(c)'
  BY <1>2, <1>3 DEF OwnInv, CallOwn, Belongs, Turns
<1>6. QED BY <1>4, <1>5 DEF OwnInv

LEMMA OwnCorrect == ASSUME Cautious, Cache!Whole PROVE Spec => []OwnInv
<1>1. Init => OwnInv
  BY NullLemma, CallType
  DEF Init, ServerInit, CacheInit, OwnInv, SessionsOwned, CallOwn
<1>2. RemoteType /\ CallsInv /\ Cache!IInv /\ OwnInv /\ [Next]_remoteVars => OwnInv'
  <2>1. UNCHANGED remoteVars /\ OwnInv => OwnInv'
    BY DEF remoteVars, OwnInv, SessionsOwned, CallOwn, Belongs, Turns
  <2>2. ASSUME RemoteType, CallsInv, Cache!IInv, OwnInv, NEW c \in Calls, Handler(c)
        PROVE  OwnInv'
    <3>1. ServerTypeOK /\ HandlerHolds /\ SessionsOwned /\ CallOwn(c)
      BY <2>2 DEF RemoteType, RemoteTypeOK, CallsInv, OwnInv
    <3>2. SessionsOwned' /\ CallOwn(c)'
      BY <2>2, <3>1, SessionsStep, CallStep
    <3>3. \A d \in Calls \ {c} : CallOwn(d)'
      BY <2>2, <3>1, CallElsewhere DEF OwnInv
    <3>4. QED BY <3>2, <3>3 DEF OwnInv
  <2>3. QED BY <2>1, <2>2, OwnClients DEF Next, ServerStep, Quiet
<1>3. QED
  BY <1>1, <1>2, RemoteTypeKept, CallsCorrect, CacheIsKept, PTL DEF Spec

\* No session sees another one's context: an answer rests on the prompt of the
\* request and on earlier calls with the same session and prompt alone, for any
\* sessions, retries and abandoned handlers, and however small the RAM tier is.
THEOREM ContextsStayHome ==
  ASSUME Cautious, Cache!Whole PROVE Spec => []NoForeignContext
<1>1. RemoteType /\ CallsInv /\ OwnInv => NoForeignContext
  <2>1. SUFFICES ASSUME RemoteType, CallsInv, OwnInv, NEW r \in Requests,
                        client[r] = "returned"
                 PROVE  LET t == text[Current(r)]
                        IN  /\ t.hash = Rpc[Current(r)].hash
                            /\ Current(r) \in t.body
                            /\ \A c \in t.body :
                                 ~ Rpc[Current(r)].cache_disabled =>
                                   Rpc[c] = Rpc[Current(r)]
                            /\ Rpc[Current(r)].cache_disabled => t.body = {Current(r)}
    BY DEF NoForeignContext
  <2>2. Current(r) \in Calls
    BY <2>1, AttemptType DEF RemoteType, RemoteTypeOK, Sent
  <2>3. call[Current(r)] = "replied"
    BY <2>1 DEF CallsInv, ClientsServed
  <2>4. /\ Belongs(text[Current(r)], Current(r))
        /\ Current(r) \in text[Current(r)].body
    BY <2>1, <2>2, <2>3 DEF OwnInv, CallOwn
  <2>5. ~ Rpc[Current(r)].cache_disabled
    BY <2>2 DEF Cautious
  <2>6. QED BY <2>4, <2>5 DEF Belongs, Turns
<1>2. QED BY <1>1, OwnCorrect, RemoteTypeKept, CallsCorrect, PTL
=============================================================================
