------------------------------ MODULE MCRemote ------------------------------
(* Instances of RemoteDispatch: the requests and the sets they range over. *)
EXTENDS RemoteDispatch

CONSTANTS r1, r2, r3, s1, s2, h1, h2

AllAttempts == Requests \X (1..MaxAttempts)
AllBodies   == SUBSET Calls
SameSize    == [b \in Bodies |-> 1]

rpc(k, h, d) == [key |-> k, hash |-> h, cache_disabled |-> d]

\* r1 and r2 are turns of one session with one prompt, r3 belongs to another.
Sessions ==
  [c \in Calls |-> IF c[1] = r3 THEN rpc(s2, h2, FALSE) ELSE rpc(s1, h1, FALSE)]

\* As before, but r3 comes from a run without a cache.
Uncached ==
  [c \in Calls |-> IF c[1] = r3 THEN rpc(s2, h2, TRUE) ELSE rpc(s1, h1, FALSE)]
=============================================================================
