------------------------------- MODULE MCEdge -------------------------------
(* Instances of EdgeDispatch: the requests and the sets they range over.   *)
EXTENDS EdgeDispatch, TLC

CONSTANTS r1, r2, r3, r4, r5, p1, p2, s1, m1, m2, h1, h2

AllBodies == SUBSET Requests
SameSize  == [b \in Bodies |-> 1]

task(m, k, h, p) == [model |-> m, key |-> k, hash |-> h, prefix |-> p]

\* Two tasks of one benchmark share the prefix p1 of a model; the third call
\* belongs to a session that uses no prefix, on the same model.
OneModel == r1 :> task(m1, p1, h1, TRUE) @@ r2 :> task(m1, p1, h1, TRUE)
            @@ r3 :> task(m1, s1, h2, FALSE)

\* ... and the session and another prefix are used on the second model too.
TwoModels == OneModel @@ r4 :> task(m2, p2, h1, TRUE)
             @@ r5 :> task(m2, s1, h2, FALSE)
=============================================================================
