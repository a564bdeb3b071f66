------------------------------- MODULE Router -------------------------------
(***************************************************************************)
(* What the router does with the complexity score of a task: the model     *)
(* tier, the agents that are pruned, and the margin of the decision.       *)
(* Scores and thresholds are in hundredths; how a prompt gets its score is  *)
(* left out, so every score is possible.                                   *)
(***************************************************************************)
EXTENDS Integers, Sequences

CONSTANTS
  theta_low, theta_high   \* the thresholds of router_config.yaml (35 and 75)

ASSUME RouterAssumption ==
  /\ theta_low \in 0..100
  /\ theta_high \in theta_low..100

Scores == 0..100

\* Cheapest to most capable; `Rung' is the position of a tier on the ladder.
TIER_LADDER == <<"Small", "Medium", "Large">>
Tiers == {"Small", "Medium", "Large"}
Rung(tier) == CASE tier = "Small" -> 1 [] tier = "Medium" -> 2 [] tier = "Large" -> 3

CHAIN_ORDER == <<"Planner", "Retriever", "Executor", "Critic">>
Roles == {"Planner", "Retriever", "Executor", "Critic"}

confidence(score) == IF score > 50 THEN 2 * (score - 50) ELSE 2 * (50 - score)

model_tier(score) ==
  CASE score < theta_low -> "Small"
    [] score >= theta_low /\ score < theta_high -> "Medium"
    [] OTHER -> "Large"

\* The agents of the task; the other ones of Roles are pruned.
active_agents(score, benchmark) ==
  {"Executor"} \cup (IF score < theta_low THEN {} ELSE {"Planner"})
               \cup (IF benchmark = "hotpotqa" THEN {"Retriever"} ELSE {})

compute_routing_margin(score, tier) ==
  CASE tier = "Small"  -> theta_low - score
    [] tier = "Medium" -> IF score - theta_low < theta_high - score
                          THEN score - theta_low ELSE theta_high - score
    [] tier = "Large"  -> score - theta_high

route_task(score, benchmark) ==
  [tier   |-> model_tier(score),
   chain  |-> active_agents(score, benchmark),
   margin |-> compute_routing_margin(score, model_tier(score))]
=============================================================================
