SPECIFICATION FairSpec
CONSTANTS
  theta_low = 35
  theta_high = 75
  MaxRevisions = 2
  MaxEscalations = 2
  Faulty = {"Planner", "Retriever", "Executor", "Critic"}
INVARIANTS ChainTypeOK OutcomeJustified DiscardedWasRejected FailureJustified
  FreshEyes OneModelPerKey CallsBounded
PROPERTY ChainEnds
