------------------------------ MODULE MCBatch ------------------------------
(* An instance of BatchRuns: the configurations, tasks and candidates.     *)
EXTENDS BatchRuns

TwoConfigs    == <<"liteagent", "flat_cache">>
ThreeTasks    == <<"t1", "t2", "t3">>
TwoCandidates == <<"c1", "c2">>
=============================================================================
