----------------------------- MODULE FlatStore -----------------------------
(***************************************************************************)
(* What a KV-cache promises to its callers: a map from session keys to     *)
(* saved contexts.  There are no tiers and nothing is evicted.  A request  *)
(* is given the last context saved under its key if model and prompt       *)
(* agree, and is told that there is none only if there is none.            *)
(***************************************************************************)
CONSTANTS Keys, Models, Hashes, Bodies, Uses, None

VARIABLES
  store,   \* store[k]: the last context saved under k, or None
  ctx,     \* the context each model holds
  req      \* the request that holds each model

vars == <<store, ctx, req>>

Serve(m, k, h, p) ==
  req' = [req EXCEPT ![m] = [key |-> k, hash |-> h, phase |-> p]]

Usable(m, k, h) ==
  store[k] # None /\ store[k].model = m /\ store[k].hash = h

Init ==
  /\ store = [k \in Keys |-> None]
  /\ ctx \in [Models -> [model : Models, hash : Hashes, body : Bodies]]
  /\ \A m \in Models : ctx[m].model = m
  /\ req = [m \in Models |-> None]

\* The stored context is put into the model; the request goes on with it, or is
\* cut short because the store could not be reorganised around it.
Get(m, k, h) ==
  /\ req[m] = None
  /\ Usable(m, k, h)
  /\ ctx' = [ctx EXCEPT ![m] = store[k]]
  /\ Serve(m, k, h, "restored") \/ UNCHANGED req
  /\ UNCHANGED store

Refuse(m, k, h) ==
  /\ req[m] = None
  /\ ~ Usable(m, k, h)
  /\ Serve(m, k, h, "empty")
  /\ UNCHANGED <<store, ctx>>

Compute(m) ==
  /\ req[m] # None
  /\ \E b \in Bodies :
       ctx' = [ctx EXCEPT ![m] =
                 IF req[m].phase = "empty"
                 THEN [model |-> m, hash |-> req[m].hash, body |-> b]
                 ELSE [@ EXCEPT !.body = b]]
  /\ req' = [req EXCEPT ![m].phase = "advanced"]
  /\ UNCHANGED store

Put(m) ==
  /\ req[m] # None
  /\ req[m].phase = "advanced"
  /\ store' = [store EXCEPT ![req[m].key] = ctx[m]]
  /\ req' = [req EXCEPT ![m].phase = "restored"]
  /\ UNCHANGED ctx

Finish(m) ==
  /\ req[m] # None
  /\ req' = [req EXCEPT ![m] = None]
  /\ UNCHANGED <<store, ctx>>

Next ==
  \/ \E u \in Uses : Get(u[1], u[2], u[3]) \/ Refuse(u[1], u[2], u[3])
  \/ \E m \in Models : Compute(m) \/ Put(m) \/ Finish(m)

Spec == Init /\ [][Next]_vars

=============================================================================
