--------------------------- MODULE RemoteDispatch ---------------------------
(***************************************************************************)
(* TaskDispatcher._execute_remote_with_fallback against the workstation: a *)
(* request is tried MaxAttempts times until it is answered or 180 seconds  *)
(* have passed, and then executed on the edge.  The timeout of one RPC is  *)
(* also 180 seconds, so an RPC that times out ends after the deadline of   *)
(* the whole request.  A connection may break at any time; the handler on  *)
(* the server does not notice.                                             *)
(***************************************************************************)
EXTENDS Workstation

CONSTANTS
  Requests,      \* the requests of all clients
  MaxAttempts,   \* max_retries + 1
  NetFaults      \* "timeout": an RPC exceeds its timeout; "disconnect"

ASSUME RemoteAssumption ==
  /\ IsFiniteSet(Requests)
  /\ MaxAttempts \in Nat \ {0}
  /\ Calls = Requests \X (1..MaxAttempts)
  /\ \A c, d \in Calls : c[1] = d[1] => Rpc[c] = Rpc[d]
  /\ NetFaults \subseteq {"timeout", "disconnect"}

VARIABLES
  client,     \* where each request is
  attempts,   \* how often it was sent
  late,       \* whether its deadline has passed
  lost        \* the RPCs whose connection broke before they were answered

remoteVars == <<hot_state, hot_dirty, metadata_store, standby_cache, bin, json,
                ctx, now, call, text, lock, client, attempts, late, lost>>

RemoteTypeOK ==
  /\ ServerTypeOK
  /\ client \in [Requests -> {"ready", "calling", "returned", "fallback"}]
  /\ attempts \in [Requests -> 0..MaxAttempts]
  /\ late \in [Requests -> BOOLEAN]
  /\ lost \subseteq Calls

Init ==
  /\ ServerInit
  /\ client = [r \in Requests |-> "ready"]
  /\ attempts = [r \in Requests |-> 0]
  /\ late = [r \in Requests |-> FALSE]
  /\ lost = {}

\* The RPC that r made last.
Current(r) == <<r, attempts[r]>>

ClientIs(r, s) == client' = [client EXCEPT ![r] = s]

ServerStill == UNCHANGED serverVars

Dispatch(r) ==
  /\ client[r] = "ready"
  /\ attempts[r] < MaxAttempts
  /\ ~ late[r]
  /\ attempts' = [attempts EXCEPT ![r] = @ + 1]
  /\ ClientIs(r, "calling")
  /\ CallIs(<<r, attempts[r] + 1>>, "sent")
  /\ UNCHANGED cacheVars
  /\ UNCHANGED <<text, lock, late, lost>>

Receive(r) ==
  /\ client[r] = "calling"
  /\ \/ call[Current(r)] = "replied" /\ ClientIs(r, "returned")
     \/ call[Current(r)] = "error"   /\ ClientIs(r, "ready")
  /\ ServerStill
  /\ UNCHANGED <<attempts, late, lost>>

Disconnect(r) ==
  /\ "disconnect" \in NetFaults
  /\ client[r] = "calling"
  /\ ClientIs(r, "ready")
  /\ lost' = lost \cup {Current(r)}
  /\ ServerStill
  /\ UNCHANGED <<attempts, late>>

\* Mutant: an RPC that times out before the deadline of the request.
TimeOutEarly(r) ==
  /\ "timeout" \in NetFaults
  /\ client[r] = "calling"
  /\ ClientIs(r, "ready")
  /\ ServerStill
  /\ UNCHANGED <<attempts, late, lost>>

TimeOut(r) ==
  /\ "timeout" \in NetFaults
  /\ client[r] = "calling"
  /\ late[r]
  /\ ClientIs(r, "ready")
  /\ ServerStill
  /\ UNCHANGED <<attempts, late, lost>>

Deadline(r) ==
  /\ client[r] \in {"ready", "calling"}
  /\ ~ late[r]
  /\ late' = [late EXCEPT ![r] = TRUE]
  /\ ServerStill
  /\ UNCHANGED <<client, attempts, lost>>

\* Mutant: the loop is left only when the attempts are used up.
FallBackOnCount(r) ==
  /\ client[r] = "ready"
  /\ attempts[r] = MaxAttempts
  /\ ClientIs(r, "fallback")
  /\ ServerStill
  /\ UNCHANGED <<attempts, late, lost>>

\* The local execution, or the ConnectionError of the policy "fail".
FallBack(r) ==
  /\ client[r] = "ready"
  /\ attempts[r] = MaxAttempts \/ late[r]
  /\ ClientIs(r, "fallback")
  /\ ServerStill
  /\ UNCHANGED <<attempts, late, lost>>

Client(r) ==
  Dispatch(r) \/ Receive(r) \/ Disconnect(r) \/ TimeOut(r) \/ Deadline(r)
    \/ FallBack(r)

ServerStep ==
  /\ \E c \in Calls : Handler(c)
  /\ UNCHANGED <<client, attempts, late, lost>>

\* Every request is done and every call has ended: nothing more happens.
Quiet ==
  /\ \A r \in Requests : client[r] \in {"returned", "fallback"}
  /\ \A c \in Calls : call[c] \in {"unsent", "replied", "error"}
  /\ UNCHANGED remoteVars

Next == (\E r \in Requests : Client(r)) \/ ServerStep \/ Quiet

Spec == Init /\ [][Next]_remoteVars

\* Time passes and the client reacts to it.  Nothing is assumed of the server,
\* whose handler may hang in llama.eval while it holds the lock.
FairSpec ==
  Spec /\ \A r \in Requests :
            WF_remoteVars(Dispatch(r) \/ Receive(r) \/ TimeOut(r)
                            \/ Deadline(r) \/ FallBack(r))

----------------------------------------------------------------------------
\* A request is answered from its own prompt on top of nothing but earlier
\* calls with the same session and prompt: not from another session, however
\* the calls, the retries and the calls nobody waits for any more interleave.
NoForeignContext ==
  \A r \in Requests : client[r] = "returned" =>
    LET t == text[Current(r)]
    IN  /\ t.hash = Rpc[Current(r)].hash
        /\ Current(r) \in t.body
        /\ \A c \in t.body :
             ~ Rpc[Current(r)].cache_disabled => Rpc[c] = Rpc[Current(r)]
        /\ Rpc[Current(r)].cache_disabled => t.body = {Current(r)}

\* A prompt is evaluated again on top of an earlier attempt only if that attempt
\* was lost to a broken connection: never after an RPC that timed out, and never
\* after one that the server refused.
NoDoubleEval ==
  \A r \in Requests : client[r] = "returned" =>
    \A n \in 1..MaxAttempts :
      <<r, n>> \in text[Current(r)].body => n = attempts[r] \/ <<r, n>> \in lost

\* The dispatcher comes back with an answer or falls back, although the server
\* may hang or crash.
DispatcherReturns ==
  \A r \in Requests :
    client[r] = "ready" ~> client[r] \in {"returned", "fallback"}

=============================================================================
