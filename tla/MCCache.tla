------------------------------ MODULE MCCache ------------------------------
(* Instances of CacheClient: values for its constants.                     *)
EXTENDS CacheClient, TLC

CONSTANTS k1, k2, k3, m1, m2, h1, h2, b1, b2

\* Every state has the same length, so sizes never tell two states apart.
SameSize == [b \in Bodies |-> 1]

\* Session keys: any model and any prompt may come with any key.
AnyUse == Models \X Keys \X Hashes

\* Prefix keys prefix::{model}::{hash}: the key determines model and prompt.
PrefixUse == {<<m1, k1, h1>>, <<m1, k2, h2>>, <<m2, k3, h1>>}

Symm == Permutations(Keys) \cup Permutations(Models) \cup
        Permutations(Hashes) \cup Permutations(Bodies)
=============================================================================
