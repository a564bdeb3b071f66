---------------------------- MODULE RateLimiter ----------------------------
(***************************************************************************)
(* The token bucket in front of DispatchTask (_check_rate_limit).  Its lock *)
(* makes a call one step; the requests of all clients share the bucket.    *)
(* Time and tokens are counted in ticks: a token is worth one second.      *)
(***************************************************************************)
EXTENDS Integers

CONSTANTS
  Capacity,   \* tokens the bucket holds (60 in the code)
  Second,     \* ticks of the clock in a second
  MaxTime     \* bound of the clock

ASSUME LimiterAssumption ==
  Capacity \in Nat \ {0} /\ Second \in Nat \ {0} /\ MaxTime \in Nat

VARIABLES
  last_tokens, last_update,   \* the two fields of the servicer
  now,                        \* time.time()
  admitted,                   \* how many requests were let through ...
  last_admit,                 \* ... and when the last one was
  window                      \* when an observer began to count, and from what

limiterVars == <<last_tokens, last_update, now, admitted, last_admit, window>>

LimiterTypeOK ==
  /\ last_tokens \in 0 .. Capacity * Second
  /\ {last_update, last_admit, window.from} \subseteq 0..now
  /\ now \in 0..MaxTime
  /\ admitted \in Nat
  /\ window \in [from : Nat, before : Nat]

Init ==
  /\ last_tokens = Capacity * Second
  /\ last_update = 0
  /\ now = 0
  /\ admitted = 0
  /\ last_admit = 0
  /\ window = [from |-> 0, before |-> 0]

\* Mutant: the bucket without its maximum.
Unlimited == last_tokens + (now - last_update)

Replenished ==
  IF last_tokens + (now - last_update) > Capacity * Second
  THEN Capacity * Second ELSE last_tokens + (now - last_update)

Admit ==
  /\ Replenished >= Second
  /\ last_tokens' = Replenished - Second
  /\ last_update' = now
  /\ admitted' = admitted + 1
  /\ last_admit' = now
  /\ UNCHANGED <<now, window>>

\* Mutant: a refused request restarts the wait but keeps no part of it.
RefuseForgets ==
  /\ Replenished < Second
  /\ last_update' = now
  /\ UNCHANGED <<last_tokens, now, admitted, last_admit, window>>

Refuse ==
  /\ Replenished < Second
  /\ last_tokens' = Replenished
  /\ last_update' = now
  /\ UNCHANGED <<now, admitted, last_admit, window>>

Tick ==
  /\ now < MaxTime
  /\ now' = now + 1
  /\ UNCHANGED <<last_tokens, last_update, admitted, last_admit, window>>

\* An observer begins to count, at any time.
Watch ==
  /\ window' = [from |-> now, before |-> admitted]
  /\ UNCHANGED <<last_tokens, last_update, now, admitted, last_admit>>

Next == Admit \/ Refuse \/ Tick \/ Watch

Spec == Init /\ [][Next]_limiterVars

----------------------------------------------------------------------------
\* In any stretch of time the server lets through at most Capacity requests
\* plus one for each second of it, whatever the pattern of the calls.
WindowBounded ==
  Second * (admitted - window.before) <=
    Capacity * Second + (now - window.from)

\* Refused requests cost the clients nothing: a request made at least a second
\* after the last one that was admitted is never refused.
NoStarvation == [][Refuse => now - last_admit < Second]_limiterVars

----------------------------------------------------------------------------
\* Why: what was spent in the window and what is left in the bucket come out of
\* one full bucket and the time since, up to the last call; and the bucket
\* holds at least what came in since the last admission.
BucketInv ==
  /\ last_update < window.from => admitted = window.before
  /\ last_update >= window.from =>
       Second * (admitted - window.before) + last_tokens <=
         Capacity * Second + (last_update - window.from)
  /\ last_admit <= last_update
  /\ last_tokens < Capacity * Second => last_tokens >= last_update - last_admit

=============================================================================
