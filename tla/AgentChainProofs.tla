-------------------------- MODULE AgentChainProofs --------------------------
(* Theorems about the router and the agent chain, for all thresholds and   *)
(* budgets, and whatever the steps of the agents answer.                   *)
EXTENDS AgentChain, TLAPS

(***************************************************************************)
(* The router.                                                             *)
(***************************************************************************)

\* A higher score never gets a smaller tier, nor an agent less
\* (map_tier_and_pruning).
THEOREM RouterMonotone ==
  ASSUME NEW s \in Scores, NEW t \in Scores, s <= t
  PROVE  /\ Rung(model_tier(s)) <= Rung(model_tier(t))
         /\ \A b : active_agents(s, b) \subseteq active_agents(t, b)
<1>1. theta_low \in Int /\ theta_high \in Int /\ theta_low <= theta_high
  BY RouterAssumption
<1>2. s \in Int /\ t \in Int
  BY DEF Scores
<1>3. Rung("Small") = 1 /\ Rung("Medium") = 2 /\ Rung("Large") = 3
  BY DEF Rung
<1>4. Rung(model_tier(s)) <= Rung(model_tier(t))
  BY <1>1, <1>2, <1>3 DEF model_tier
<1>5. t < theta_low => s < theta_low
  BY <1>1, <1>2
<1>6. QED BY <1>4, <1>5 DEF active_agents

\* The margin of a decision is the distance to a threshold on the right side: it
\* is never negative (compute_routing_margin with the tier of route_task).
THEOREM MarginNatural ==
  ASSUME NEW s \in Scores, NEW b
  PROVE  route_task(s, b).margin \in Nat
<1>1. theta_low \in Int /\ theta_high \in Int /\ theta_low <= theta_high
  BY RouterAssumption
<1>2. s \in Int
  BY DEF Scores
<1>3. compute_routing_margin(s, model_tier(s)) \in Nat
  BY <1>1, <1>2 DEF compute_routing_margin, model_tier
<1>4. QED BY <1>3 DEF route_task

(***************************************************************************)
(* Types.                                                                  *)
(***************************************************************************)
SettingType ==
  [chain : SUBSET Roles, tier : Tiers, escalate_on_reject : BOOLEAN,
   verifier : {"critic", "execution"}]

LEMMA SettingFacts ==
  ASSUME NEW t \in Benchmarks, NEW c \in Settings(t)
  PROVE  /\ c \in SettingType
         /\ "Executor" \in c.chain
         /\ c.verifier = "execution" => "Critic" \notin c.chain
<1> USE DEF SettingType, Setting
<1>1. ASSUME NEW s \in Scores
      PROVE  /\ route_task(s, t).chain \in SUBSET Roles
             /\ route_task(s, t).tier \in Tiers
             /\ "Executor" \in route_task(s, t).chain
  <2>1. active_agents(s, t) \subseteq Roles /\ "Executor" \in active_agents(s, t)
    BY DEF active_agents, Roles
  <2>2. model_tier(s) \in Tiers
    BY DEF model_tier, Tiers
  <2>3. QED BY <2>1, <2>2 DEF route_task
<1>2. CASE c \in Routed(t)
  <2>1. PICK s \in Scores :
          c = Setting(route_task(s, t).chain, route_task(s, t).tier, FALSE, "critic")
    BY <1>2 DEF Routed
  <2> DEFINE ch == route_task(s, t).chain
             ti == route_task(s, t).tier
  <2>2. ch \in SUBSET Roles /\ ti \in Tiers /\ "Executor" \in ch
    BY <1>1
  <2> HIDE DEF ch, ti
  <2>3. c = [chain |-> ch, tier |-> ti, escalate_on_reject |-> FALSE,
             verifier |-> "critic"]
    BY <2>1 DEF ch, ti
  <2>4. QED BY <2>2, <2>3
<1>3. CASE c \in Fixed
  <2>1. PICK ti \in Tiers : c = Setting(DEFAULT_CHAIN, ti, FALSE, "critic")
    BY <1>3 DEF Fixed
  <2>2. DEFAULT_CHAIN \in SUBSET Roles /\ "Executor" \in DEFAULT_CHAIN
    BY DEF DEFAULT_CHAIN, Roles
  <2>3. QED BY <2>1, <2>2
<1>4. CASE c = Cascade
  BY <1>4 DEF Cascade, Roles, Tiers
<1>5. CASE c = ExecCascade
  BY <1>5 DEF ExecCascade, DEFAULT_CHAIN, Roles, Tiers
<1>6. CASE c \in Reviewed
  <2>1. PICK ti \in Tiers : c = Setting({"Executor", "Critic"}, ti, FALSE, "critic")
    BY <1>6 DEF Reviewed
  <2>2. QED BY <2>1 DEF Roles
<1>7. QED BY <1>2, <1>3, <1>4, <1>5, <1>6 DEF Settings

\* The blackboard is reasoned about as a sequence.
USE DEF Numbers, latest, Drafts

\* What a message changes on the blackboard.
LEMMA Appended ==
  ASSUME NEW m \in Seq(Message), NEW msg \in Message
  PROVE  LET n == Append(m, msg)
             L == Len(m) + 1
         IN  /\ n \in Seq(Message)
             /\ L \in Nat \ {0} /\ Len(n) = L
             /\ n[L] = msg
             /\ \A i \in 1..Len(m) : n[i] = m[i] /\ i < L
             /\ OfType(n, msg.type) = OfType(m, msg.type) \cup {L}
             /\ LastOf(OfType(n, msg.type)) = L
             /\ \A u \in MessageTypes \ {msg.type} : OfType(n, u) = OfType(m, u)
             /\ \A u \in MessageTypes : OfType(m, u) \subseteq 1..Len(m)
<1> DEFINE n == Append(m, msg)
           L == Len(m) + 1
<1>1. Len(m) \in Nat
  OBVIOUS
<1>2. /\ n \in Seq(Message) /\ Len(n) = L
      /\ DOMAIN n = 1..L /\ DOMAIN m = 1..Len(m)
      /\ \A i \in 1..Len(m) : n[i] = m[i]
      /\ n[L] = msg
  OBVIOUS
<1>3. 1..L = 1..Len(m) \cup {L} /\ L \notin 1..Len(m)
  BY <1>1
<1> HIDE DEF n
<1>4. \A u : OfType(m, u) \subseteq 1..Len(m)
  BY <1>2 DEF OfType
<1>5. OfType(n, msg.type) = OfType(m, msg.type) \cup {L}
  BY <1>2, <1>3 DEF OfType
<1>6. \A u \in MessageTypes \ {msg.type} : OfType(n, u) = OfType(m, u)
  BY <1>2, <1>3 DEF OfType
<1>7. LastOf(OfType(n, msg.type)) = L
  <2> DEFINE S == OfType(n, msg.type)
  <2>1. L \in S /\ \A j \in S : j \in Nat /\ j <= L
    BY <1>1, <1>4, <1>5
  <2> HIDE DEF S
  <2>2. S # {} /\ \A i \in S : (\A j \in S : j <= i) => i = L
    BY <2>1, <1>1
  <2>3. (CHOOSE i \in S : \A j \in S : j <= i) = L
    BY <2>1, <2>2
  <2>4. LastOf(S) = L
    BY <2>2, <2>3 DEF LastOf
  <2>5. QED BY <2>4 DEF S
<1>8. QED BY <1>1, <1>2, <1>3, <1>4, <1>5, <1>6, <1>7 DEF n

LEMMA LatestFacts ==
  ASSUME ChainTypeOK, ShapeInv, NEW t \in MessageTypes
  PROVE  /\ latest(t) \in 0..Len(messages)
         /\ Numbers(t) = {} <=> latest(t) = 0
         /\ latest(t) # 0 => latest(t) \in Numbers(t)
<1>1. Numbers(t) \subseteq 1..Len(messages) /\ Len(messages) \in Nat
  BY DEF ChainTypeOK, OfType
<1>2. Numbers(t) # {} => latest(t) \in Numbers(t)
  BY DEF ShapeInv
<1>3. Numbers(t) = {} => latest(t) = 0
  BY DEF LastOf
<1>4. QED BY <1>1, <1>2, <1>3

\* The type of the message an agent posts.
Posts(role) ==
  CASE role = "Planner"   -> "PLAN"
    [] role = "Retriever" -> "EVIDENCE"
    [] role = "Executor"  -> "DRAFT"
    [] role = "Critic"    -> "CRITIQUE"

LEMMA AnswersPosts ==
  ASSUME ChainTypeOK, ShapeInv, NEW role \in Roles, Answers(role)
  PROVE  \E msg \in Message :
           /\ messages' = Append(messages, msg)
           /\ msg.type = Posts(role)
           /\ role = "Critic" => msg.shown = latest("DRAFT")
           /\ role = "Executor" => msg.shown = Feedback
<1>1. latest("DRAFT") \in Nat /\ latest("CRITIQUE") \in Nat
  BY LatestFacts DEF MessageTypes
<1>2. Feedback \in Nat
  BY <1>1 DEF Feedback
<1> USE DEF Answers, Posts, post, Message, MessageTypes
<1>3. CASE role = "Planner"
  BY <1>3
<1>4. CASE role = "Retriever"
  BY <1>4
<1>5. CASE role = "Executor"
  <2>1. PICK e \in BOOLEAN :
          messages' = Append(messages, [type |-> "DRAFT", empty |-> e,
                                        approved |-> TRUE, shown |-> Feedback])
    BY <1>5
  <2> DEFINE msg == [type |-> "DRAFT", empty |-> e, approved |-> TRUE, shown |-> Feedback]
  <2>2. /\ msg \in Message /\ msg.type = "DRAFT" /\ msg.shown = Feedback
        /\ messages' = Append(messages, msg)
    BY <1>2, <2>1
  <2> HIDE DEF msg
  <2>3. QED BY <1>5, <2>2
<1>6. CASE role = "Critic"
  <2>1. PICK a \in BOOLEAN :
          messages' = Append(messages, [type |-> "CRITIQUE", empty |-> FALSE,
                                        approved |-> a, shown |-> latest("DRAFT")])
    BY <1>6
  <2> DEFINE msg == [type |-> "CRITIQUE", empty |-> FALSE, approved |-> a,
                     shown |-> latest("DRAFT")]
  <2>2. /\ msg \in Message /\ msg.type = "CRITIQUE" /\ msg.shown = latest("DRAFT")
        /\ messages' = Append(messages, msg)
    BY <1>1, <2>1
  <2> HIDE DEF msg
  <2>3. QED BY <1>6, <2>2
<1>7. QED BY <1>3, <1>4, <1>5, <1>6 DEF Roles

CallType == [key : Tiers \X Roles, model : Models]

LEMMA CallFacts ==
  ASSUME ChainTypeOK, NEW role \in Roles, Call(role)
  PROVE  /\ calls' \in Seq(CallType)
         /\ Len(calls') = Len(calls) + 1
         /\ KeyInv => KeyInv'
<1>1. PICK m \in ModelOf(tier) :
        calls' = Append(calls, [key |-> session_key(role), model |-> m])
  BY DEF Call
<1>2. tier \in Tiers /\ calls \in Seq(CallType)
  BY DEF ChainTypeOK, CallType
<1> DEFINE c == [key |-> <<tier, role>>, model |-> m]
<1>3. m \in Models
  BY <1>1, <1>2 DEF ModelOf, Models, Tiers
<1>4. c \in CallType /\ c.model \in ModelOf(c.key[1])
  BY <1>1, <1>2, <1>3 DEF CallType
<1>5. calls' = Append(calls, c)
  BY <1>1 DEF session_key
<1> HIDE DEF c
<1>6. /\ calls' \in Seq(CallType)
      /\ Len(calls') = Len(calls) + 1
      /\ \A i \in DOMAIN calls' :
           (i \in DOMAIN calls /\ calls'[i] = calls[i]) \/ calls'[i] = c
  BY <1>2, <1>4, <1>5
<1>7. QED BY <1>4, <1>6 DEF KeyInv

LEMMA AnswersFacts ==
  ASSUME ChainTypeOK, ShapeInv, NEW role \in Roles, Answers(role)
  PROVE  /\ messages' \in Seq(Message)
         /\ OfType(messages', Posts(role)) # {}
         /\ \A t \in MessageTypes \ {Posts(role)} :
              OfType(messages', t) = OfType(messages, t)
         /\ \A t \in MessageTypes : OfType(messages', t) # {} =>
              LastOf(OfType(messages', t)) \in OfType(messages', t)
<1>1. PICK msg \in Message :
        messages' = Append(messages, msg) /\ msg.type = Posts(role)
  BY AnswersPosts
<1>2. messages \in Seq(Message)
  BY DEF ChainTypeOK
<1>3. /\ messages' \in Seq(Message)
      /\ OfType(messages', Posts(role)) = OfType(messages, Posts(role)) \cup {Len(messages) + 1}
      /\ LastOf(OfType(messages', Posts(role))) = Len(messages) + 1
      /\ \A u \in MessageTypes \ {Posts(role)} : OfType(messages', u) = OfType(messages, u)
  BY <1>1, <1>2, Appended
<1>4. QED BY <1>3 DEF ShapeInv

LEMMA SameBoard ==
  ASSUME UNCHANGED messages
  PROVE  \A t : Numbers(t)' = Numbers(t) /\ latest(t)' = latest(t)
<1>1. ASSUME NEW t PROVE Numbers(t)' = Numbers(t)
  BY DEF OfType
<1>2. QED BY <1>1

LEMMA VerdictType ==
  ASSUME ChainTypeOK, ShapeInv, NEW r \in {"pass", "fail", "unverifiable"}
  PROVE  current_verdict(r) \in Verdict
<1>1. latest("DRAFT") \in Nat /\ latest("CRITIQUE") \in Nat
  BY LatestFacts DEF MessageTypes
<1>2. CASE r \in {"pass", "fail"}
  BY <1>1, <1>2 DEF current_verdict, verdict, Verdict
<1>3. CASE r = "unverifiable" /\ latest("CRITIQUE") = 0
  BY <1>1, <1>3 DEF current_verdict, verdict, Verdict
<1>4. CASE r = "unverifiable" /\ latest("CRITIQUE") # 0
  <2>1. latest("CRITIQUE") \in DOMAIN messages
    BY <1>4, LatestFacts DEF MessageTypes, OfType
  <2>2. messages[latest("CRITIQUE")] \in Message
    BY <2>1 DEF ChainTypeOK
  <2> DEFINE c == messages[latest("CRITIQUE")]
  <2>3. c.approved \in BOOLEAN /\ c.shown \in Nat
    BY <2>2 DEF Message
  <2>4. current_verdict(r) = verdict("critic", c.approved, c.shown)
    BY <1>4 DEF current_verdict
  <2> HIDE DEF c
  <2>5. QED BY <1>1, <2>3, <2>4 DEF verdict, Verdict
<1>5. QED BY <1>1, <1>2, <1>3, <1>4

(***************************************************************************)
(* The types and the shape of the chain.                                   *)
(***************************************************************************)
LEMMA ChainInit == Init => ChainTypeOK /\ ShapeInv
<1> SUFFICES ASSUME Init PROVE ChainTypeOK /\ ShapeInv
  OBVIOUS
<1>1. setting \in SettingType /\ "Executor" \in setting.chain
      /\ (setting.verifier = "execution" => "Critic" \notin setting.chain)
  BY SettingFacts DEF Init
<1>2. tier \in Tiers
  BY <1>1 DEF Init, SettingType
<1>3. ChainTypeOK
  BY <1>1, <1>2 DEF Init, ChainTypeOK, SettingType
<1>4. \A t : Numbers(t) = {}
  BY DEF Init, OfType
<1>5. ShapeInv
  BY <1>1, <1>4 DEF Init, ShapeInv
<1>6. QED BY <1>3, <1>5

LEMMA RunKeepsShape ==
  ASSUME ChainTypeOK, ShapeInv, Run
  PROVE  ChainTypeOK' /\ ShapeInv'
<1> DEFINE role == CHAIN_ORDER[step]
<1>1. step \in 1..4 /\ stage = "chain"
  BY DEF Run, ShapeInv
<1>2. /\ role \in Roles /\ role \in setting.chain
      /\ (role = "Executor") = (step = 3) /\ (role = "Critic") = (step = 4)
  BY <1>1 DEF CHAIN_ORDER, Roles, Run
<1>3. CASE Answers(role) /\ NextRole
  <2>1. /\ messages' \in Seq(Message)
        /\ OfType(messages', Posts(role)) # {}
        /\ \A t \in MessageTypes \ {Posts(role)} : OfType(messages', t) = OfType(messages, t)
        /\ \A t \in MessageTypes : OfType(messages', t) # {} =>
             LastOf(OfType(messages', t)) \in OfType(messages', t)
    BY <1>2, <1>3, AnswersFacts
  <2>2. calls' \in Seq(CallType)
    BY <1>2, <1>3, CallFacts DEF Answers
  <2>3. ChainTypeOK'
    BY <1>1, <1>3, <2>1, <2>2
    DEF ChainTypeOK, CallType, Run, NextRole, Answers, Configuration, Loop
  <2>4. /\ (Posts(role) = "DRAFT") = (step = 3)
        /\ (Posts(role) = "CRITIQUE") = (step = 4)
    BY <1>1, <1>2 DEF Posts, CHAIN_ORDER
  <2>5. /\ (OfType(messages', "DRAFT") = {}) = (step < 3)
        /\ step < 4 => OfType(messages', "CRITIQUE") = {}
        /\ "Critic" \notin setting.chain => OfType(messages', "CRITIQUE") = {}
    BY <1>1, <1>2, <2>1, <2>4 DEF ShapeInv, MessageTypes
  <2>6. QED
    BY <1>1, <1>3, <2>1, <2>3, <2>5
    DEF ShapeInv, Run, NextRole, Configuration, Loop
<1>4. ASSUME StepFails(role)
      PROVE  /\ calls' \in Seq(CallType)
             /\ degraded' \subseteq Roles
             /\ messages' = messages
  BY <1>2, <1>4, CallFacts DEF StepFails, ChainTypeOK
<1>5. CASE StepFails(role) /\ role # "Executor" /\ NextRole
  <2>1. ChainTypeOK'
    BY <1>1, <1>4, <1>5
    DEF ChainTypeOK, CallType, Run, NextRole, Configuration, Loop
  <2>2. (Drafts = {}) = (step < 3)
    BY <1>1, <1>2, <1>5 DEF ShapeInv
  <2>3. QED
    BY <1>1, <1>4, <1>5, <2>1, <2>2 DEF ShapeInv, Run, NextRole, Configuration, Loop
<1>6. CASE StepFails(role) /\ stage' = "failed" /\ UNCHANGED step
  <2>1. UNCHANGED <<setting, task, tier, revisions, escalations, include_feedback,
                    verdicts, messages>>
    BY <1>4, <1>6 DEF Run, Configuration, Loop
  <2>2. ChainTypeOK'
    BY <1>1, <1>4, <1>6, <2>1 DEF ChainTypeOK, CallType
  <2>3. QED
    BY <1>6, <2>1, <2>2 DEF ShapeInv
<1>7. QED BY <1>3, <1>5, <1>6 DEF Run

LEMMA LoopKeepsShape ==
  ASSUME ChainTypeOK, ShapeInv,
         \/ Skip \/ Judge \/ VerifierRaises \/ Escalate \/ Revise \/ GiveUp \/ Answer
         \/ UNCHANGED chainVars
  PROVE  ChainTypeOK' /\ ShapeInv'
<1>1. CASE Skip
  <2>1. step \in 1..4 /\ stage = "chain" /\ step # 3
    BY <1>1 DEF Skip, ShapeInv, CHAIN_ORDER
  <2>2. ChainTypeOK'
    BY <1>1, <2>1 DEF Skip, ChainTypeOK, NextRole, Configuration, Loop
  <2>3. (Drafts = {}) = (step < 3)
    BY <2>1 DEF ShapeInv
  <2>4. QED
    BY <1>1, <2>1, <2>2, <2>3 DEF Skip, ShapeInv, NextRole, Configuration, Loop
<1>2. CASE Judge
  <2>1. PICK r \in Verifications :
          /\ verdicts' = verdicts \cup {current_verdict(r)}
          /\ stage' \in {"answer", "rejected"}
    BY <1>2 DEF Judge
  <2>2. r \in {"pass", "fail", "unverifiable"}
    BY DEF Verifications, verify_program
  <2>3. current_verdict(r) \in Verdict
    BY <2>2, VerdictType
  <2>4. ChainTypeOK'
    BY <1>2, <2>1, <2>3 DEF Judge, ChainTypeOK, Configuration, Loop
  <2>5. QED
    BY <1>2, <2>1, <2>4 DEF Judge, ShapeInv, Configuration, Loop
<1>3. CASE Escalate
  <2>1. tier' \in Tiers
    BY <1>3 DEF Escalate, ChainTypeOK, Rung, TIER_LADDER, Tiers
  <2>2. /\ escalations' \in Nat /\ stage' = "redraft" /\ stage = "rejected"
        /\ UNCHANGED <<task, setting, step, revisions, messages, verdicts, degraded, calls>>
    BY <1>3 DEF Escalate, ChainTypeOK, Configuration
  <2>3. include_feedback' \in BOOLEAN
    BY <1>3, Zenon DEF Escalate
  <2>4. ChainTypeOK'
    BY <2>1, <2>2, <2>3 DEF ChainTypeOK
  <2>5. QED
    BY <2>2, <2>4 DEF ShapeInv
<1>4. CASE Revise
  <2>1. ChainTypeOK'
    BY <1>4 DEF Revise, ChainTypeOK, Configuration
  <2>2. QED
    BY <1>4, <2>1 DEF Revise, ShapeInv, Configuration
<1>5. CASE GiveUp
  BY <1>5 DEF GiveUp, ChainTypeOK, ShapeInv, Configuration, Loop
<1>6. CASE Answer
  <2>1. stage' \in {"failed", "returned"}
    BY <1>6 DEF Answer
  <2>2. QED
    BY <1>6, <2>1 DEF Answer, ChainTypeOK, ShapeInv, Configuration, Loop
<1>7. CASE VerifierRaises
  BY <1>7 DEF VerifierRaises, ChainTypeOK, ShapeInv, Configuration, Loop
<1>8. CASE UNCHANGED chainVars
  BY <1>8 DEF chainVars, ChainTypeOK, ShapeInv
<1>9. QED BY <1>1, <1>2, <1>3, <1>4, <1>5, <1>6, <1>7, <1>8

LEMMA RedraftKeepsShape ==
  ASSUME ChainTypeOK, ShapeInv, Redraft \/ Recheck
  PROVE  ChainTypeOK' /\ ShapeInv'
<1> DEFINE role == IF stage = "redraft" THEN "Executor" ELSE "Critic"
<1>1. /\ role \in Roles
      /\ Answers(role) \/ StepFails(role)
      /\ stage = "recheck" => "Critic" \in setting.chain
      /\ stage \in {"redraft", "recheck"}
      /\ stage' \in {"recheck", "verdict", "failed"}
      /\ stage' = "recheck" => "Critic" \in setting.chain
      /\ UNCHANGED <<task, setting, step, tier, revisions, escalations,
                     include_feedback, verdicts>>
  BY DEF Redraft, Recheck, Roles, ShapeInv, Configuration, Loop
<1>2. CASE Answers(role)
  <2>1. /\ messages' \in Seq(Message)
        /\ OfType(messages', Posts(role)) # {}
        /\ \A t \in MessageTypes \ {Posts(role)} : OfType(messages', t) = OfType(messages, t)
        /\ \A t \in MessageTypes : OfType(messages', t) # {} =>
             LastOf(OfType(messages', t)) \in OfType(messages', t)
    BY <1>1, <1>2, AnswersFacts
  <2>2. calls' \in Seq(CallType) /\ degraded' = degraded
    BY <1>1, <1>2, CallFacts DEF Answers
  <2>3. ChainTypeOK'
    BY <1>1, <2>1, <2>2 DEF ChainTypeOK, CallType
  <2>4. Posts(role) = IF stage = "redraft" THEN "DRAFT" ELSE "CRITIQUE"
    BY DEF Posts
  <2>5. /\ OfType(messages', "DRAFT") # {}
        /\ "Critic" \notin setting.chain => OfType(messages', "CRITIQUE") = {}
    BY <1>1, <2>1, <2>4 DEF ShapeInv, MessageTypes
  <2>6. QED
    BY <1>1, <2>1, <2>3, <2>5 DEF ShapeInv
<1>3. CASE StepFails(role)
  <2>1. calls' \in Seq(CallType) /\ degraded' \subseteq Roles /\ messages' = messages
    BY <1>1, <1>3, CallFacts DEF StepFails, ChainTypeOK
  <2>2. ChainTypeOK'
    BY <1>1, <2>1 DEF ChainTypeOK, CallType
  <2>3. QED
    BY <1>1, <2>1, <2>2 DEF ShapeInv
<1>4. QED BY <1>1, <1>2, <1>3

LEMMA ShapeStep == ChainTypeOK /\ ShapeInv /\ [Next]_chainVars => ChainTypeOK' /\ ShapeInv'
BY RunKeepsShape, LoopKeepsShape, RedraftKeepsShape DEF Next, Work, Over

\* All variables of the chain keep their types.
THEOREM ChainTypeCorrect == Spec => []ChainTypeOK
<1>1. Spec => [](ChainTypeOK /\ ShapeInv)
  BY ChainInit, ShapeStep, PTL DEF Spec
<1>2. QED BY <1>1, PTL

(***************************************************************************)
(* What a task may cost.                                                   *)
(***************************************************************************)
LEMMA CalledOnce ==
  ASSUME ChainTypeOK, NEW role \in Roles, Answers(role) \/ StepFails(role)
  PROVE  Len(calls') = Len(calls) + 1 /\ (KeyInv => KeyInv')
<1>1. Call(role)
  BY DEF Answers, StepFails
<1>2. QED BY <1>1, CallFacts

LEMMA BudgetFacts ==
  ASSUME ChainTypeOK
  PROVE  /\ Len(calls) \in Nat /\ revisions \in Nat /\ escalations \in Nat
         /\ Attempt \in {1, 2} /\ Paid \in Nat
         /\ \A r \in setting.chain : InChain(r) = 1
<1>1. Len(calls) \in Nat /\ revisions \in Nat /\ escalations \in Nat
  BY DEF ChainTypeOK
<1>2. \A r : InChain(r) \in {0, 1} /\ (r \in setting.chain => InChain(r) = 1)
  BY DEF InChain
<1>3. Attempt \in {1, 2}
  BY <1>2 DEF Attempt
<1>4. QED BY <1>1, <1>2, <1>3 DEF Paid

LEMMA PaidMore ==
  ASSUME ChainTypeOK
  PROVE  Attempt * (revisions + escalations + 1) - Attempt = Paid
<1>1. Attempt = 1 \/ Attempt = 2
  BY BudgetFacts
<1>2. revisions + escalations \in Nat
  BY BudgetFacts
<1>3. CASE Attempt = 1
  BY <1>2, <1>3, BudgetFacts DEF Paid
<1>4. CASE Attempt = 2
  BY <1>2, <1>4, BudgetFacts DEF Paid
<1>5. QED BY <1>1, <1>3, <1>4

LEMMA ChainFacts ==
  /\ Chain(1) = 0 /\ Chain(2) = Chain(1) + InChain("Planner")
  /\ Chain(3) = Chain(2) + InChain("Retriever")
  /\ Chain(4) = Chain(3) + InChain("Executor")
  /\ Chain(5) = Chain(4) + InChain("Critic")
  /\ Chain(1) \in Nat /\ Chain(2) \in Nat /\ Chain(3) \in Nat /\ Chain(4) \in Nat
  /\ Chain(5) \in Nat
  /\ \A n \in 1..4 : Chain(n) <= Chain(n + 1) /\ Chain(n + 1) <= Chain(5)
<1>1. /\ InChain("Planner") \in {0, 1} /\ InChain("Retriever") \in {0, 1}
      /\ InChain("Executor") \in {0, 1} /\ InChain("Critic") \in {0, 1}
  BY DEF InChain
<1>2. /\ Chain(1) = 0 /\ Chain(2) = Chain(1) + InChain("Planner")
      /\ Chain(3) = Chain(2) + InChain("Retriever")
      /\ Chain(4) = Chain(3) + InChain("Executor")
      /\ Chain(5) = Chain(4) + InChain("Critic")
  BY <1>1 DEF Chain
<1>3. /\ Chain(1) \in Nat /\ Chain(2) \in Nat /\ Chain(3) \in Nat /\ Chain(4) \in Nat
      /\ Chain(5) \in Nat
  BY <1>1, <1>2
<1>4. ASSUME NEW n \in 1..4 PROVE Chain(n) <= Chain(n + 1) /\ Chain(n + 1) <= Chain(5)
  <2>1. n = 1 \/ n = 2 \/ n = 3 \/ n = 4
    OBVIOUS
  <2>2. QED BY <1>1, <1>2, <1>3, <2>1
<1>5. QED BY <1>2, <1>3, <1>4

\* Spending over the chain and over the loop.
LEMMA ChainSpends ==
  ASSUME ChainTypeOK, ShapeInv, BudgetInv, Run \/ Skip
  PROVE  BudgetInv'
<1>1. step \in 1..4 /\ stage = "chain" /\ revisions = 0 /\ escalations = 0
  BY DEF Run, Skip, ShapeInv
<1>2. UNCHANGED <<setting, revisions, escalations>>
  BY DEF Run, Skip, Configuration, Loop
<1>3. \/ Len(calls') = Len(calls) /\ stage' # "failed"
      \/ Len(calls') = Len(calls) + 1 /\ Chain(step + 1) = Chain(step) + 1
  <2>1. CASE Skip
    BY <1>1, <2>1 DEF Skip, NextRole
  <2>2. CASE Run
    <3>1. CHAIN_ORDER[step] \in Roles /\ CHAIN_ORDER[step] \in setting.chain
      BY <1>1, <2>2 DEF Run, CHAIN_ORDER, Roles
    <3>2. Len(calls') = Len(calls) + 1
      BY <2>2, <3>1, CalledOnce DEF Run
    <3>3. InChain(CHAIN_ORDER[step]) = 1
      BY <3>1, BudgetFacts
    <3>4. step = 1 \/ step = 2 \/ step = 3 \/ step = 4
      BY <1>1
    <3>5. Chain(step + 1) = Chain(step) + 1
      BY <3>3, <3>4, ChainFacts DEF CHAIN_ORDER
    <3>6. QED BY <3>2, <3>5
  <2>3. QED BY <2>1, <2>2
<1>4. /\ Chain(step) \in Nat /\ Chain(step + 1) \in Nat
      /\ Chain(step) <= Chain(step + 1) /\ Chain(step + 1) <= Chain(5)
  <2>1. step = 1 \/ step = 2 \/ step = 3 \/ step = 4
    BY <1>1
  <2>2. QED BY <1>1, <2>1, ChainFacts
<1>5. Len(calls) <= Chain(step)
  BY <1>1 DEF BudgetInv, Spendable
<1>6. Len(calls') <= Chain(step + 1)
  BY <1>1, <1>3, <1>4, <1>5, BudgetFacts
<1>7. /\ Chain(5)' = Chain(5) /\ Chain(step)' = Chain(step')
      /\ Paid' = Paid
  BY <1>2 DEF Chain, Attempt, InChain, Paid
<1>8. CASE step' = step + 1 /\ stage' = "chain"
  <2>1. Spendable' = Chain(step + 1)
    BY <1>7, <1>8 DEF Spendable
  <2>2. QED BY <1>2, <1>6, <2>1 DEF BudgetInv
<1>9. CASE stage' \in {"verdict", "failed"}
  <2>1. Spendable' = Chain(5) + Paid
    BY <1>7, <1>9 DEF Spendable
  <2>2. Paid \in Nat /\ Chain(5) \in Nat /\ Len(calls') \in Nat
    BY <1>3, BudgetFacts, ChainFacts
  <2>3. Len(calls') <= Chain(5) + Paid
    BY <1>4, <1>6, <2>2
  <2>4. QED BY <1>1, <1>2, <2>1, <2>3 DEF BudgetInv
<1>10. QED
  BY <1>8, <1>9 DEF Run, Skip, NextRole

LEMMA AttemptSpends ==
  ASSUME ChainTypeOK, ShapeInv, BudgetInv, Redraft \/ Recheck
  PROVE  BudgetInv'
<1>1. UNCHANGED <<setting, revisions, escalations>>
  BY DEF Redraft, Recheck, Configuration, Loop
<1>2. Len(calls') = Len(calls) + 1
  BY CalledOnce DEF Redraft, Recheck, Roles
<1>3. /\ Chain(5)' = Chain(5) /\ Attempt' = Attempt
      /\ Paid' = Paid
  BY <1>1 DEF Chain, Attempt, InChain, Paid
<1>0. /\ Chain(5) \in Nat /\ Paid \in Nat
      /\ Len(calls) \in Nat /\ Attempt \in {1, 2}
  BY BudgetFacts, ChainFacts
<1>4. CASE Redraft
  <2>1. /\ stage = "redraft"
        /\ \/ stage' = "recheck" /\ Attempt = 2
           \/ stage' \in {"verdict", "failed"}
    BY <1>4 DEF Redraft, InChain, Attempt
  <2>2. Len(calls) <= Chain(5) + Paid - Attempt
    BY <2>1 DEF BudgetInv, Spendable
  <2>3. Spendable' = IF stage' = "recheck"
                     THEN Chain(5) + Paid - 1
                     ELSE Chain(5) + Paid
    BY <1>3, <2>1 DEF Spendable
  <2>4. Len(calls) + 1 <= Spendable'
    <3>1. CASE stage' = "recheck"
      BY <1>0, <2>1, <2>2, <2>3, <3>1
    <3>2. CASE stage' # "recheck"
      BY <1>0, <2>2, <2>3, <3>2
    <3>3. QED BY <3>1, <3>2
  <2>5. QED BY <1>1, <1>2, <2>4 DEF BudgetInv
<1>5. CASE Recheck
  <2>1. stage = "recheck" /\ stage' = "verdict"
    BY <1>5 DEF Recheck
  <2>2. Len(calls) <= Chain(5) + Paid - 1
    BY <2>1 DEF BudgetInv, Spendable
  <2>3. Spendable' = Chain(5) + Paid
    BY <1>3, <2>1 DEF Spendable
  <2>4. Len(calls) + 1 <= Spendable'
    BY <1>0, <2>2, <2>3
  <2>5. QED BY <1>1, <1>2, <2>4 DEF BudgetInv
<1>6. QED BY <1>4, <1>5

LEMMA LoopSpends ==
  ASSUME ChainTypeOK, ShapeInv, BudgetInv,
         \/ Judge \/ VerifierRaises \/ GiveUp \/ Answer \/ Escalate \/ Revise
         \/ UNCHANGED chainVars
  PROVE  BudgetInv'
<1>1. UNCHANGED <<setting, calls>>
  BY DEF Judge, VerifierRaises, GiveUp, Answer, Escalate, Revise, chainVars, Configuration
<1>2. Chain(5)' = Chain(5) /\ Attempt' = Attempt
  BY <1>1 DEF Chain, Attempt, InChain
<1>3. CASE Judge \/ VerifierRaises \/ GiveUp \/ Answer
  <2>1. /\ UNCHANGED <<revisions, escalations>>
        /\ stage \notin {"chain", "redraft", "recheck"}
        /\ stage' \notin {"chain", "redraft", "recheck"}
    BY <1>3 DEF Judge, VerifierRaises, GiveUp, Answer, Loop
  <2>2. Paid' = Paid
    BY <1>2, <2>1 DEF Paid
  <2>3. Spendable' = Spendable
    BY <1>2, <2>1, <2>2 DEF Spendable
  <2>4. QED BY <1>1, <2>1, <2>3 DEF BudgetInv
<1>4. CASE Escalate \/ Revise
  <2>1. /\ stage = "rejected" /\ stage' = "redraft"
        /\ revisions' + escalations' = revisions + escalations + 1
        /\ revisions' <= MaxRevisions /\ escalations' <= MaxEscalations
    <3>1. revisions \in Nat /\ escalations \in Nat
      BY BudgetFacts
    <3>2. CASE Escalate
      BY <3>1, <3>2, ChainAssumption DEF Escalate, BudgetInv
    <3>3. CASE Revise
      BY <3>1, <3>3, ChainAssumption DEF Revise, BudgetInv
    <3>4. QED BY <1>4, <3>2, <3>3
  <2>2. Spendable = Chain(5) + Paid
    BY <2>1 DEF Spendable
  <2>3. Spendable' = Chain(5) + Attempt * (revisions + escalations + 1) - Attempt
    BY <1>2, <2>1 DEF Spendable, Paid
  <2>4. Spendable' = Spendable
    BY <2>2, <2>3, BudgetFacts, PaidMore, ChainFacts
  <2>5. QED BY <1>1, <2>1, <2>4 DEF BudgetInv
<1>5. CASE UNCHANGED chainVars
  <2>1. Spendable' = Spendable
    BY <1>5 DEF chainVars, Spendable, Chain, Attempt, InChain, Paid
  <2>2. QED BY <1>5, <2>1 DEF BudgetInv, chainVars
<1>6. QED BY <1>3, <1>4, <1>5

LEMMA BudgetStep == ChainTypeOK /\ ShapeInv /\ BudgetInv /\ [Next]_chainVars => BudgetInv'
BY ChainSpends, AttemptSpends, LoopSpends DEF Next, Work, Over

LEMMA BudgetInit == Init => BudgetInv
<1>1. SUFFICES ASSUME Init PROVE BudgetInv
  OBVIOUS
<1>2. Spendable = 0
  BY <1>1 DEF Init, Spendable, Chain
<1>3. QED BY <1>1, <1>2, ChainAssumption DEF Init, BudgetInv

\* A task costs at most one step per agent of the chain and one attempt per
\* revision or escalation, and those stay within their limits.
THEOREM CostIsBounded == Spec => []CallsBounded
<1>1. Init => BudgetInv
  BY BudgetInit
<1>2. ChainTypeOK /\ ShapeInv /\ BudgetInv => CallsBounded
  <2>1. SUFFICES ASSUME ChainTypeOK, ShapeInv, BudgetInv PROVE CallsBounded
    OBVIOUS
  <2>2. stage = "chain" => step \in 1..4
    BY <2>1 DEF ShapeInv
  <2>3. Spendable <= Chain(5) + Paid /\ Spendable \in Int
    <3>1. CASE stage = "chain"
      <4>1. Spendable = Chain(step)
        BY <3>1 DEF Spendable
      <4>2. step = 1 \/ step = 2 \/ step = 3 \/ step = 4
        BY <2>2, <3>1
      <4>3. Chain(step) \in Nat /\ Chain(step) <= Chain(5)
        BY <4>2, ChainFacts
      <4>4. QED BY <2>1, <4>1, <4>3, BudgetFacts, ChainFacts
    <3>2. CASE stage # "chain"
      <4>1. /\ Paid \in Int /\ Chain(5) \in Int
            /\ Attempt \in Int /\ Attempt >= 0
        BY <2>1, BudgetFacts, ChainFacts
      <4>2. Spendable \in {Chain(5) + Paid - Attempt, Chain(5) + Paid - 1, Chain(5) + Paid}
        BY <3>2 DEF Spendable
      <4>3. QED BY <4>1, <4>2
    <3>3. QED BY <3>1, <3>2
  <2>4. Chain(5) = InChain("Planner") + InChain("Retriever") + InChain("Executor")
                     + InChain("Critic")
    BY DEF Chain
  <2>5. QED BY <2>1, <2>3, <2>4, BudgetFacts, ChainFacts 
       DEF BudgetInv, CallsBounded, Paid, Attempt
<1>3. Spec => [](ChainTypeOK /\ ShapeInv /\ BudgetInv)
  BY <1>1, ChainInit, ShapeStep, BudgetStep, PTL DEF Spec
<1>4. QED BY <1>2, <1>3, PTL

(***************************************************************************)
(* Keys, the verdicts on the drafts, and failures.                         *)
(***************************************************************************)

\* A session key is used with one model of the edge.
THEOREM KeysCorrect == Spec => []OneModelPerKey
<1>1. Init => KeyInv
  BY DEF Init, KeyInv
<1>2. ChainTypeOK /\ ShapeInv /\ KeyInv /\ [Next]_chainVars => KeyInv'
  <2>1. SUFFICES ASSUME ChainTypeOK, ShapeInv, KeyInv, [Next]_chainVars
                 PROVE  KeyInv'
    OBVIOUS
  <2>2. CASE UNCHANGED calls
    BY <2>1, <2>2 DEF KeyInv
  <2>3. CASE Run
    <3>1. CHAIN_ORDER[step] \in Roles
      BY <2>1, <2>3 DEF Run, ShapeInv, CHAIN_ORDER, Roles
    <3>2. QED BY <2>1, <2>3, <3>1, CalledOnce DEF Run
  <2>4. CASE Redraft \/ Recheck
    BY <2>1, <2>4, CalledOnce DEF Redraft, Recheck, Roles
  <2>5. QED
    BY <2>1, <2>2, <2>3, <2>4
    DEF Next, Work, Over, chainVars, Skip, Judge, VerifierRaises, Escalate, Revise,
        GiveUp, Answer
<1>3. ChainTypeOK /\ KeyInv => OneModelPerKey
  <2>1. SUFFICES ASSUME ChainTypeOK, KeyInv, NEW i \in DOMAIN calls, NEW j \in DOMAIN calls,
                        calls[i].key = calls[j].key,
                        "workstation" \notin {calls[i].model, calls[j].model}
                 PROVE  calls[i].model = calls[j].model
    BY DEF OneModelPerKey
  <2>0. calls \in Seq(CallType)
    BY <2>1 DEF ChainTypeOK, CallType
  <2>2. calls[i] \in CallType
    BY <2>0, <2>1
  <2>3. calls[i].key[1] \in Tiers
    BY <2>2 DEF CallType
  <2>4. calls[i].model \in ModelOf(calls[i].key[1]) /\ calls[j].model \in ModelOf(calls[i].key[1])
    BY <2>1 DEF KeyInv
  <2>5. QED BY <2>1, <2>3, <2>4 DEF ModelOf, Tiers
<1>4. Spec => [](ChainTypeOK /\ ShapeInv /\ KeyInv)
  BY <1>1, <1>2, ChainInit, ShapeStep, PTL DEF Spec
<1>5. QED BY <1>3, <1>4, PTL

\* A verdict on a draft stays one: verdicts and failed roles only accumulate.
LEMMA JudgesStays ==
  ASSUME NEW v, NEW i, Judges(v, i), degraded \subseteq degraded'
  PROVE  Judges(v, i)'
BY DEF Judges

\* The state after a message of type t is posted, in the names of that state.
LEMMA PostedOne ==
  ASSUME messages \in Seq(Message), NEW msg \in Message, NEW t, t = msg.type,
         messages' = Append(messages, msg)
  PROVE  LET L == Len(messages) + 1
         IN  /\ messages'[L] = msg /\ L \in Nat \ {0}
             /\ \A i \in 1..Len(messages) : messages'[i] = messages[i]
             /\ OfType(messages', t) = OfType(messages, t) \cup {L}
             /\ LastOf(OfType(messages', t)) = L
             /\ \A u \in MessageTypes \ {t} : OfType(messages', u) = OfType(messages, u)
             /\ \A u \in MessageTypes : OfType(messages, u) \subseteq 1..Len(messages)
<1> DEFINE L == Len(messages) + 1
<1>1. /\ messages'[L] = msg /\ L \in Nat \ {0}
      /\ OfType(messages', msg.type) = OfType(messages, msg.type) \cup {L}
      /\ LastOf(OfType(messages', msg.type)) = L
      /\ \A u \in MessageTypes \ {msg.type} : OfType(messages', u) = OfType(messages, u)
  BY Appended
<1>2. \A i \in 1..Len(messages) : messages'[i] = messages[i]
  BY Appended
<1>3. \A u \in MessageTypes : OfType(messages, u) \subseteq 1..Len(messages)
  BY Appended
<1>4. QED BY <1>1, <1>2, <1>3

LEMMA ChainJudged ==
  ASSUME ChainTypeOK, ShapeInv, JudgeInv, Run \/ Skip
  PROVE  JudgeInv'
<1> DEFINE role == CHAIN_ORDER[step]
           L == Len(messages) + 1
<1>1. /\ step \in 1..4 /\ stage = "chain" /\ verdicts' = verdicts /\ verdicts = {}
      /\ OfType(messages, "CRITIQUE") = {} /\ LastOf({}) = 0
      /\ stage' \in {"chain", "verdict", "failed"}
      /\ step < 4 => stage' \in {"chain", "failed"}
  BY DEF Run, Skip, ShapeInv, NextRole, LastOf
<1>2. (step < 4) = (OfType(messages, "DRAFT") = {})
  BY <1>1 DEF ShapeInv
<1>3. CASE messages' = messages
  <2>1. RejectedOnes'
    BY <1>1, <1>3 DEF RejectedOnes, JudgeInv
  <2>2. QED BY <1>1, <1>3, <2>1 DEF JudgeInv, CritiqueFits, StaleRejects, Justified
<1>4. CASE Answers(role)
  <2>1. role \in Roles /\ (Posts(role) = "DRAFT") = (step = 3) /\ (role = "Critic") = (step = 4)
        /\ (Posts(role) = "CRITIQUE") = (step = 4) /\ Posts(role) \in MessageTypes
    BY <1>1 DEF CHAIN_ORDER, Roles, Posts, MessageTypes
  <2>2. PICK msg \in Message :
          /\ messages' = Append(messages, msg) /\ msg.type = Posts(role)
          /\ role = "Critic" => msg.shown = latest("DRAFT")
    BY <1>4, <2>1, AnswersPosts
  <2>3. /\ messages'[L] = msg /\ L \in Nat \ {0}
        /\ OfType(messages', Posts(role)) = OfType(messages, Posts(role)) \cup {L}
        /\ LastOf(OfType(messages', Posts(role))) = L
        /\ \A u \in MessageTypes \ {Posts(role)} : OfType(messages', u) = OfType(messages, u)
    <3>1. messages \in Seq(Message)
      BY DEF ChainTypeOK
    <3> HIDE DEF role, Posts
    <3>2. QED BY <2>2, <3>1, PostedOne
  <2>4. \A i \in OfType(messages', "DRAFT") : i # LastOf(OfType(messages', "DRAFT")) =>
          i \in OfType(messages, "DRAFT") /\ i # LastOf(OfType(messages, "DRAFT"))
    <3>1. CASE step = 3
      <4>1. OfType(messages', "DRAFT") = {L}
        BY <1>2, <2>1, <2>3, <3>1
      <4>2. LastOf(OfType(messages', "DRAFT")) = L
        BY <2>1, <2>3, <3>1
      <4>3. QED BY <4>1, <4>2
    <3>2. CASE step # 3
      <4>1. OfType(messages', "DRAFT") = OfType(messages, "DRAFT")
        BY <2>1, <2>3, <3>2 DEF MessageTypes
      <4>2. QED BY <4>1
    <3>3. QED BY <3>1, <3>2
  <2>5. RejectedOnes'
    BY <1>1, <2>4 DEF RejectedOnes, JudgeInv
  <2>6. CritiqueFits'
    <3>1. SUFFICES ASSUME stage' = "verdict" PROVE CritiqueFits'
      BY DEF CritiqueFits
    <3>2. step = 4
      BY <1>1, <3>1
    <3>3. /\ LastOf(OfType(messages', "CRITIQUE")) = L
          /\ OfType(messages', "DRAFT") = OfType(messages, "DRAFT")
          /\ messages'[L].shown = LastOf(OfType(messages, "DRAFT"))
      BY <2>1, <2>2, <2>3, <3>2 DEF MessageTypes
    <3>4. QED BY <3>3 DEF CritiqueFits, LastCritique
  <2>7. QED BY <1>1, <2>5, <2>6 DEF JudgeInv, StaleRejects, Justified
<1>5. QED BY <1>3, <1>4 DEF Run, Skip, StepFails

LEMMA VerdictFits ==
  ASSUME ChainTypeOK, ShapeInv, JudgeInv, stage = "verdict", NEW r \in Verifications
  PROVE  LET v == current_verdict(r)
         IN  /\ Judges(v, latest("DRAFT"))
             /\ v.approved /\ v.source # "none" => v.about = v.draft
             /\ ~ v.approved /\ latest("CRITIQUE") # 0 => ~ LastCritique.approved
<1>1. r \in {"pass", "fail", "unverifiable"}
  BY DEF Verifications, verify_program
<1>2. CASE r \in {"pass", "fail"}
  <2>1. setting.verifier = "execution"
    BY <1>2 DEF Verifications
  <2>2. latest("CRITIQUE") = 0
    BY <2>1 DEF ShapeInv, LastOf
  <2>3. current_verdict(r) = verdict("execution", r = "pass", latest("DRAFT"))
    BY <1>2 DEF current_verdict
  <2>4. QED BY <2>2, <2>3 DEF verdict, Judges
<1>3. CASE r = "unverifiable" /\ latest("CRITIQUE") = 0
  <2>1. current_verdict(r) = verdict("none", TRUE, 0)
    BY <1>3 DEF current_verdict
  <2>2. QED BY <1>3, <2>1 DEF verdict, Judges
<1>4. CASE r = "unverifiable" /\ latest("CRITIQUE") # 0
  <2> DEFINE c == messages[latest("CRITIQUE")]
  <2>1. current_verdict(r) = verdict("critic", c.approved, c.shown)
    BY <1>4 DEF current_verdict
  <2>2. /\ c.shown = latest("DRAFT") \/ "Critic" \in degraded
        /\ c.approved => c.shown = latest("DRAFT")
    BY <1>4 DEF JudgeInv, CritiqueFits, LastCritique
  <2>3. QED BY <2>1, <2>2 DEF verdict, Judges, LastCritique
<1>5. QED BY <1>1, <1>2, <1>3, <1>4

LEMMA LoopJudged ==
  ASSUME ChainTypeOK, ShapeInv, BudgetInv, JudgeInv,
         \/ Judge \/ VerifierRaises \/ Escalate \/ Revise \/ GiveUp \/ Answer
         \/ UNCHANGED chainVars
  PROVE  JudgeInv'
<1>1. UNCHANGED <<setting, messages, degraded>>
  BY DEF Judge, VerifierRaises, Escalate, Revise, GiveUp, Answer, chainVars, Configuration
<1>2. CASE Judge
  <2>1. PICK r \in Verifications :
          /\ verdicts' = verdicts \cup {current_verdict(r)}
          /\ stage' = IF current_verdict(r).approved THEN "answer" ELSE "rejected"
    BY <1>2 DEF Judge
  <2> DEFINE v == current_verdict(r)
  <2>2. stage = "verdict"
    BY <1>2 DEF Judge
  <2>3. /\ Judges(v, latest("DRAFT"))
        /\ v.approved /\ v.source # "none" => v.about = v.draft
        /\ ~ v.approved /\ latest("CRITIQUE") # 0 => ~ LastCritique.approved
    BY <2>2, VerdictFits
  <2> HIDE DEF v
  <2>4. v \in verdicts' /\ verdicts \subseteq verdicts'
        /\ stage' = IF v.approved THEN "answer" ELSE "rejected"
    BY <2>1 DEF v
  <2>5. RejectedOnes'
    BY <1>1, <2>2, <2>3, <2>4 DEF JudgeInv, RejectedOnes, Judges
  <2>6. StaleRejects'
    BY <1>1, <2>3, <2>4 DEF StaleRejects, LastCritique
  <2>7. Justified'
    BY <1>1, <2>3, <2>4 DEF Justified, Judges
  <2>8. QED BY <2>4, <2>5, <2>6, <2>7 DEF JudgeInv, CritiqueFits
<1>3. CASE Escalate \/ Revise
  <2>1. stage = "rejected" /\ stage' = "redraft" /\ UNCHANGED verdicts
    BY <1>3 DEF Escalate, Revise
  <2>2. RejectedOnes' /\ StaleRejects'
    BY <1>1, <2>1 DEF JudgeInv, RejectedOnes, StaleRejects, Judges, LastCritique
  <2>3. QED BY <2>1, <2>2 DEF JudgeInv, CritiqueFits, Justified
<1>4. CASE GiveUp
  <2>1. stage = "rejected" /\ stage' = "answer"
        /\ UNCHANGED <<verdicts, tier, revisions, escalations>>
    BY <1>4 DEF GiveUp, Loop
  <2>2. latest("DRAFT") \in Drafts
    BY <2>1, LatestFacts DEF ShapeInv, MessageTypes
  <2>3. PICK v \in verdicts : Judges(v, latest("DRAFT")) /\ ~ v.approved
    BY <2>1, <2>2 DEF JudgeInv, RejectedOnes
  <2>4. IF setting.escalate_on_reject
        THEN tier = "Large" \/ escalations = MaxEscalations
        ELSE revisions = MaxRevisions
    <3>1. /\ revisions \in Nat /\ escalations \in Nat /\ tier \in Tiers
          /\ MaxRevisions \in Nat /\ MaxEscalations \in Nat
          /\ revisions <= MaxRevisions /\ escalations <= MaxEscalations
      BY ChainAssumption DEF ChainTypeOK, BudgetInv
    <3>2. Rung(tier) = 3 => tier = "Large"
      BY <3>1 DEF Rung, Tiers
    <3>3. QED BY <1>4, <3>1, <3>2 DEF GiveUp
  <2>5. Justified'
    BY <1>1, <2>1, <2>3, <2>4 DEF Justified, Judges
  <2>6. RejectedOnes'
    BY <1>1, <2>1 DEF JudgeInv, RejectedOnes, Judges
  <2>7. QED BY <2>1, <2>5, <2>6 DEF JudgeInv, CritiqueFits, StaleRejects
<1>5. CASE Answer
  <2>1. /\ stage = "answer" /\ stage' \in {"failed", "returned"}
        /\ stage' = "returned" => ~ messages[latest("DRAFT")].empty
        /\ UNCHANGED <<verdicts, tier, revisions, escalations>>
    BY <1>5 DEF Answer, Loop
  <2>2. RejectedOnes' /\ Justified'
    BY <1>1, <2>1 DEF JudgeInv, RejectedOnes, Justified, Judges
  <2>3. QED BY <1>1, <2>1, <2>2 DEF JudgeInv, CritiqueFits, StaleRejects
<1>6. CASE VerifierRaises
  <2>1. stage = "verdict" /\ stage' = "raised" /\ UNCHANGED verdicts
    BY <1>6 DEF VerifierRaises
  <2>2. RejectedOnes'
    BY <1>1, <2>1 DEF JudgeInv, RejectedOnes, Judges
  <2>3. QED BY <2>1, <2>2 DEF JudgeInv, CritiqueFits, StaleRejects, Justified
<1>7. CASE UNCHANGED chainVars
  BY <1>7 DEF chainVars, JudgeInv, RejectedOnes, CritiqueFits, StaleRejects, Justified,
              Judges, LastCritique
<1>8. QED BY <1>2, <1>3, <1>4, <1>5, <1>6, <1>7

LEMMA RedraftJudged ==
  ASSUME ChainTypeOK, ShapeInv, JudgeInv, Redraft
  PROVE  JudgeInv'
<1> DEFINE L == Len(messages) + 1
<1>1. /\ stage = "redraft" /\ UNCHANGED <<setting, verdicts>>
      /\ \/ /\ Answers("Executor")
            /\ stage' = IF "Critic" \in setting.chain THEN "recheck" ELSE "verdict"
         \/ StepFails("Executor") /\ stage' = "failed"
  BY DEF Redraft, Configuration
<1>2. \A i \in Drafts : \E v \in verdicts : Judges(v, i) /\ ~ v.approved
  BY <1>1 DEF JudgeInv, RejectedOnes
<1>3. CASE /\ Answers("Executor")
           /\ stage' = IF "Critic" \in setting.chain THEN "recheck" ELSE "verdict"
  <2>1. PICK msg \in Message : messages' = Append(messages, msg) /\ msg.type = "DRAFT"
    <3>1. "Executor" \in Roles /\ Posts("Executor") = "DRAFT"
      BY DEF Roles, Posts
    <3>2. QED BY <1>3, <3>1, AnswersPosts
  <2>2. messages \in Seq(Message)
    BY DEF ChainTypeOK
  <2>3. /\ \A i \in 1..Len(messages) : messages'[i] = messages[i]
        /\ OfType(messages', "DRAFT") = OfType(messages, "DRAFT") \cup {L}
        /\ LastOf(OfType(messages', "DRAFT")) = L
        /\ OfType(messages', "CRITIQUE") = OfType(messages, "CRITIQUE")
        /\ OfType(messages, "CRITIQUE") \subseteq 1..Len(messages)
    BY <2>1, <2>2, PostedOne DEF MessageTypes
  <2>4. degraded' = degraded /\ stage' \in {"recheck", "verdict"}
    BY <1>3 DEF Answers
  <2>5. RejectedOnes'
    BY <1>1, <1>2, <2>3, <2>4 DEF RejectedOnes, Judges
  <2>6. latest("CRITIQUE") # 0 => latest("CRITIQUE") \in 1..Len(messages)
    BY <2>3, LatestFacts DEF MessageTypes
  <2>7. StaleRejects'
    BY <1>1, <2>3, <2>6 DEF JudgeInv, StaleRejects, LastCritique
  <2>8. CASE stage' = "recheck"
    BY <2>5, <2>7, <2>8 DEF JudgeInv, CritiqueFits, Justified
  <2>9. CASE stage' = "verdict" /\ "Critic" \notin setting.chain
    <3>1. OfType(messages', "CRITIQUE") = {}
      BY <2>3, <2>9 DEF ShapeInv
    <3>2. CritiqueFits'
      BY <3>1 DEF CritiqueFits, LastOf
    <3>3. QED BY <2>5, <2>7, <2>9, <3>2 DEF JudgeInv, Justified
  <2>10. QED BY <1>3, <2>8, <2>9
<1>4. CASE StepFails("Executor") /\ stage' = "failed"
  <2>1. messages' = messages /\ degraded \subseteq degraded'
    BY <1>4 DEF StepFails
  <2>2. RejectedOnes'
    BY <1>1, <1>2, <2>1 DEF RejectedOnes, Judges
  <2>3. QED BY <1>4, <2>2 DEF JudgeInv, CritiqueFits, StaleRejects, Justified
<1>5. QED BY <1>1, <1>3, <1>4

LEMMA RecheckJudged ==
  ASSUME ChainTypeOK, ShapeInv, JudgeInv, Recheck
  PROVE  JudgeInv'
<1> DEFINE L == Len(messages) + 1
<1>1. /\ stage = "recheck" /\ stage' = "verdict" /\ UNCHANGED <<setting, verdicts>>
      /\ Answers("Critic") \/ StepFails("Critic")
  BY DEF Recheck, Configuration
<1>2. CASE Answers("Critic")
  <2>1. PICK msg \in Message :
          /\ messages' = Append(messages, msg) /\ msg.type = "CRITIQUE"
          /\ msg.shown = latest("DRAFT")
    <3>1. "Critic" \in Roles /\ Posts("Critic") = "CRITIQUE"
      BY DEF Roles, Posts
    <3>2. QED BY <1>2, <3>1, AnswersPosts
  <2>2. messages \in Seq(Message)
    BY DEF ChainTypeOK
  <2>3. /\ messages'[L] = msg
        /\ OfType(messages', "DRAFT") = OfType(messages, "DRAFT")
        /\ LastOf(OfType(messages', "CRITIQUE")) = L
    BY <2>1, <2>2, PostedOne DEF MessageTypes
  <2>4. RejectedOnes'
    BY <1>1, <1>2, <2>3 DEF JudgeInv, RejectedOnes, Judges, Answers
  <2>5. CritiqueFits'
    BY <2>1, <2>3 DEF CritiqueFits, LastCritique
  <2>6. QED BY <1>1, <2>4, <2>5 DEF JudgeInv, StaleRejects, Justified
<1>3. CASE StepFails("Critic")
  <2>1. messages' = messages /\ degraded \subseteq degraded' /\ "Critic" \in degraded'
    BY <1>3 DEF StepFails
  <2>2. RejectedOnes'
    BY <1>1, <2>1 DEF JudgeInv, RejectedOnes, Judges
  <2>3. CritiqueFits'
    BY <1>1, <2>1 DEF JudgeInv, StaleRejects, CritiqueFits, LastCritique
  <2>4. QED BY <1>1, <2>2, <2>3 DEF JudgeInv, StaleRejects, Justified
<1>4. QED BY <1>1, <1>2, <1>3

LEMMA JudgeStep ==
  ChainTypeOK /\ ShapeInv /\ BudgetInv /\ JudgeInv /\ [Next]_chainVars => JudgeInv'
BY ChainJudged, LoopJudged, RedraftJudged, RecheckJudged DEF Next, Work, Over

LEMMA Judged == Spec => [](ChainTypeOK /\ ShapeInv /\ BudgetInv /\ JudgeInv)
<1>1. Init => JudgeInv
  BY DEF Init, JudgeInv, RejectedOnes, CritiqueFits, StaleRejects, Justified, OfType
<1>2. Init => BudgetInv
  BY BudgetInit
<1>3. QED BY <1>1, <1>2, ChainInit, ShapeStep, BudgetStep, JudgeStep, PTL DEF Spec

\* What is returned is the standing draft, judged itself, and approved unless
\* the attempts are used up.
THEOREM OutcomeCorrect == Spec => []OutcomeJustified
<1>1. JudgeInv => OutcomeJustified
  <2>1. SUFFICES ASSUME JudgeInv, stage = "returned" PROVE OutcomeJustified
    BY DEF OutcomeJustified
  <2>2. QED BY <2>1 DEF JudgeInv, Justified, OutcomeJustified, Judges
<1>2. QED BY <1>1, Judged, PTL

\* No draft is replaced that was not rejected.
THEOREM DiscardedCorrect == Spec => []DiscardedWasRejected
<1>1. JudgeInv => DiscardedWasRejected
  BY DEF JudgeInv, RejectedOnes, DiscardedWasRejected
<1>2. QED BY <1>1, Judged, PTL

\* Nothing but the three reasons ends a task without an answer, and what the
\* Executor wrote before was either rejected or is the draft whose examples
\* could not be run.
LEMMA FailureStep ==
  ASSUME ChainTypeOK, ShapeInv, JudgeInv, FailureJustified, [Next]_chainVars
  PROVE  FailureJustified'
<1>1. CASE stage' \notin {"failed", "raised"}
  BY <1>1 DEF FailureJustified
<1>2. CASE UNCHANGED chainVars
  BY <1>2 DEF chainVars, FailureJustified, Judges
<1>3. CASE VerifierRaises
  <2>1. /\ stage = "verdict" /\ stage' = "raised"
        /\ setting.verifier = "execution" /\ IsCode(task)
        /\ UNCHANGED <<task, setting, messages, verdicts, degraded>>
    BY <1>3 DEF VerifierRaises, Configuration
  <2>2. QED BY <2>1 DEF JudgeInv, RejectedOnes, FailureJustified, Judges
<1>4. CASE Answer /\ stage' = "failed"
  <2>1. /\ stage = "answer" /\ Drafts # {}
        /\ UNCHANGED <<messages, verdicts, degraded>>
    BY <1>4 DEF Answer, ShapeInv
  <2>2. messages[latest("DRAFT")].empty
    BY <1>4, <2>1, LatestFacts DEF Answer, MessageTypes
  <2>3. QED BY <1>4, <2>1, <2>2 DEF JudgeInv, RejectedOnes, FailureJustified, Judges
<1>5. CASE Run /\ stage' = "failed"
  <2>1. /\ stage = "chain" /\ step = 3 /\ "Executor" \in degraded'
        /\ UNCHANGED messages
    BY <1>5 DEF Run, NextRole, ShapeInv, StepFails, CHAIN_ORDER
  <2>2. Drafts = {}
    BY <2>1 DEF ShapeInv
  <2>3. QED BY <1>5, <2>1, <2>2 DEF FailureJustified
<1>6. CASE Redraft /\ stage' = "failed"
  <2>1. /\ stage = "redraft" /\ "Executor" \in degraded' /\ degraded \subseteq degraded'
        /\ UNCHANGED <<messages, verdicts>>
    BY <1>6 DEF Redraft, StepFails
  <2>2. \A i \in Drafts : \E v \in verdicts : Judges(v, i) /\ ~ v.approved
    BY <2>1 DEF JudgeInv, RejectedOnes
  <2>3. QED BY <1>6, <2>1, <2>2 DEF FailureJustified, Judges
<1>7. CASE Skip \/ Judge \/ Escalate \/ Revise \/ GiveUp \/ Recheck
  BY <1>1, <1>7 DEF Skip, NextRole, Judge, Escalate, Revise, GiveUp, Recheck
<1>8. CASE (Run \/ Redraft \/ Answer) /\ stage' # "failed"
  BY <1>1, <1>8 DEF Run, NextRole, Redraft, Answer
<1>9. QED
  BY <1>2, <1>3, <1>4, <1>5, <1>6, <1>7, <1>8 DEF Next, Work, Over

\* A task ends without an answer only when the Executor failed, its draft is
\* empty or the examples could not be run, and takes no unrejected draft along
\* but that one, whichever other steps fail.
THEOREM FailureCorrect == Spec => []FailureJustified
<1>1. Init => FailureJustified
  BY DEF Init, FailureJustified
<1>2. QED BY <1>1, FailureStep, Judged, PTL DEF Spec

(***************************************************************************)
(* What an attempt is shown.                                               *)
(***************************************************************************)
\* Only a cascade runs the examples, and only an escalation hides the feedback.
FeedbackInv ==
  /\ setting.escalate_on_reject \/ setting.verifier = "critic"
  /\ include_feedback \/ setting.escalate_on_reject
  /\ stage = "redraft" /\ setting.escalate_on_reject => ~ include_feedback

\* On one tier a draft is only about to be replaced after a critique of it.
RejectedBy ==
  stage \in {"rejected", "redraft"} /\ ~ setting.escalate_on_reject =>
    /\ latest("CRITIQUE") # 0
    /\ ~ LastCritique.approved
    /\ LastCritique.shown = latest("DRAFT") \/ "Critic" \in degraded

FreshInv == FeedbackInv /\ RejectedBy /\ FreshEyes

\* FreshEyes of one draft, by what it was shown and the draft it replaced.
FreshAt(i, c, old) ==
  IF old = 0 \/ setting.escalate_on_reject
  THEN c = 0
  ELSE /\ c \in Numbers("CRITIQUE")
       /\ c < i
       /\ ~ messages[c].approved
       /\ messages[c].shown = old \/ "Critic" \in degraded

FreshDraft(i) == FreshAt(i, messages[i].shown, Replaced(i))

LEMMA FreshEach ==
  /\ FreshEyes <=> \A i \in Drafts : FreshDraft(i)
  /\ FreshEyes' <=> \A i \in Drafts' : FreshDraft(i)'
BY DEF FreshEyes, FreshDraft, FreshAt

LEMMA SettingVerifier ==
  ASSUME NEW t \in Benchmarks, NEW c \in Settings(t)
  PROVE  c.escalate_on_reject \/ c.verifier = "critic"
BY DEF Settings, Setting, Routed, Fixed, Cascade, ExecCascade, Reviewed

\* The blackboard stays: so does everything that was shown.
LEMMA StillFresh ==
  ASSUME FreshEyes, UNCHANGED <<setting, messages>>, degraded \subseteq degraded'
  PROVE  FreshEyes'
<1>1. Numbers("CRITIQUE")' = Numbers("CRITIQUE") /\ Drafts' = Drafts
  BY SameBoard
<1>2. ASSUME NEW i \in Drafts PROVE Replaced(i)' = Replaced(i)
  BY <1>1 DEF Replaced
<1>3. QED BY <1>1, <1>2, FreshEach DEF FreshDraft, FreshAt

\* A message is posted: the drafts before it keep their places, their critiques
\* and the drafts they replaced.
LEMMA PostKeepsFresh ==
  ASSUME ChainTypeOK, FreshEyes, UNCHANGED setting, degraded \subseteq degraded',
         NEW msg \in Message, messages' = Append(messages, msg),
         NEW i \in Drafts
  PROVE  FreshDraft(i)'
<1> DEFINE L == Len(messages) + 1
<1>1. messages \in Seq(Message) /\ msg.type \in MessageTypes
  BY DEF ChainTypeOK, Message
<1>2. /\ L \in Nat \ {0}
      /\ \A j \in 1..Len(messages) : messages'[j] = messages[j]
      /\ OfType(messages', msg.type) = OfType(messages, msg.type) \cup {L}
      /\ \A u \in MessageTypes \ {msg.type} : OfType(messages', u) = OfType(messages, u)
      /\ \A u \in MessageTypes : OfType(messages, u) \subseteq 1..Len(messages)
  BY <1>1, PostedOne
<1>3. /\ i \in 1..Len(messages) /\ Len(messages) \in Nat
      /\ Numbers("CRITIQUE") \subseteq 1..Len(messages)
      /\ Numbers("CRITIQUE") \subseteq OfType(messages', "CRITIQUE")
      /\ \A j : j \in OfType(messages', "DRAFT") => j \in Drafts \/ j = L
      /\ Drafts \subseteq OfType(messages', "DRAFT")
  BY <1>1, <1>2 DEF MessageTypes
<1>4. {j \in OfType(messages', "DRAFT") : j < i} = {j \in Drafts : j < i}
  BY <1>3
<1>5. Replaced(i)' = Replaced(i)
  BY <1>4 DEF Replaced
<1>6. messages'[i] = messages[i]
  BY <1>2, <1>3
<1>7. FreshAt(i, messages[i].shown, Replaced(i))
  BY FreshEach DEF FreshDraft
<1>8. QED BY <1>2, <1>3, <1>5, <1>6, <1>7 DEF FreshDraft, FreshAt

\* Another role answers: no draft is added.
LEMMA OthersKeepFresh ==
  ASSUME ChainTypeOK, ShapeInv, FreshEyes, UNCHANGED setting,
         NEW role \in Roles \ {"Executor"}, Answers(role)
  PROVE  FreshEyes'
<1>1. PICK msg \in Message :
        messages' = Append(messages, msg) /\ msg.type = Posts(role)
  BY AnswersPosts
<1>2. Posts(role) # "DRAFT" /\ "DRAFT" \in MessageTypes
  BY DEF Posts, Roles, MessageTypes
<1>3. OfType(messages', "DRAFT") = Drafts
  BY <1>2, AnswersFacts
<1>4. degraded' = degraded
  BY DEF Answers
<1>5. QED BY <1>1, <1>3, <1>4, PostKeepsFresh, FreshEach

\* The Executor answers: the new draft replaces the standing one and was shown
\* the feedback.
LEMMA DraftKeepsFresh ==
  ASSUME ChainTypeOK, ShapeInv, FreshEyes, UNCHANGED setting, Answers("Executor"),
         FreshAt(Len(messages) + 1, Feedback, latest("DRAFT"))
  PROVE  FreshEyes'
<1>0. PICK L : L = Len(messages) + 1
  OBVIOUS
<1>1. PICK msg \in Message :
        messages' = Append(messages, msg) /\ msg.type = "DRAFT" /\ msg.shown = Feedback
  <2>1. "Executor" \in Roles /\ Posts("Executor") = "DRAFT"
    BY DEF Roles, Posts
  <2>2. QED BY <2>1, AnswersPosts
<1>2. messages \in Seq(Message) /\ Len(messages) \in Nat /\ degraded' = degraded
  BY DEF ChainTypeOK, Answers
<1>3. /\ messages'[L] = msg /\ L \in Nat \ {0}
      /\ \A i \in 1..Len(messages) : messages'[i] = messages[i]
      /\ OfType(messages', "DRAFT") = Drafts \cup {L}
      /\ OfType(messages', "CRITIQUE") = Numbers("CRITIQUE")
      /\ Drafts \subseteq 1..Len(messages)
      /\ Numbers("CRITIQUE") \subseteq 1..Len(messages)
  BY <1>0, <1>1, <1>2, PostedOne DEF MessageTypes
<1>4. {j \in OfType(messages', "DRAFT") : j < L} = Drafts
  BY <1>0, <1>2, <1>3
<1>5. Replaced(L)' = latest("DRAFT")
  BY <1>4 DEF Replaced
<1>6. FreshDraft(L)'
  BY <1>0, <1>1, <1>2, <1>3, <1>5 DEF FreshDraft, FreshAt
<1>7. \A i \in Drafts : FreshDraft(i)'
  BY <1>1, <1>2, PostKeepsFresh
<1>8. QED BY <1>3, <1>6, <1>7, FreshEach

LEMMA ChainFresh ==
  ASSUME ChainTypeOK, ShapeInv, FreshInv, Run \/ Skip
  PROVE  FreshInv'
<1> DEFINE role == CHAIN_ORDER[step]
<1>1. /\ step \in 1..4 /\ stage = "chain" /\ stage' \in {"chain", "verdict", "failed"}
      /\ UNCHANGED <<setting, include_feedback>>
      /\ OfType(messages, "CRITIQUE") = {}
  BY DEF Run, Skip, ShapeInv, NextRole, Configuration, Loop
<1>2. FeedbackInv' /\ RejectedBy'
  BY <1>1 DEF FreshInv, FeedbackInv, RejectedBy
<1>3. CASE Skip \/ StepFails(role)
  <2>1. UNCHANGED messages /\ degraded \subseteq degraded'
    BY <1>3 DEF Skip, StepFails
  <2>2. QED BY <1>1, <1>2, <2>1, StillFresh DEF FreshInv
<1>4. CASE Answers(role) /\ role # "Executor"
  <2>1. role \in Roles
    BY <1>1 DEF CHAIN_ORDER, Roles
  <2> HIDE DEF role
  <2>2. QED BY <1>1, <1>2, <1>4, <2>1, OthersKeepFresh DEF FreshInv
<1>5. CASE Answers("Executor") /\ role = "Executor"
  <2>1. step = 3
    BY <1>1, <1>5 DEF CHAIN_ORDER
  <2>2. Drafts = {} /\ LastOf({}) = 0
    BY <1>1, <2>1 DEF ShapeInv, LastOf
  <2>3. Feedback = 0 /\ latest("DRAFT") = 0
    BY <1>1, <2>2 DEF Feedback
  <2>4. FreshAt(Len(messages) + 1, Feedback, latest("DRAFT"))
    BY <2>3 DEF FreshAt
  <2>5. QED BY <1>1, <1>2, <1>5, <2>4, DraftKeepsFresh DEF FreshInv
<1>6. QED BY <1>3, <1>4, <1>5 DEF Run

LEMMA LoopFresh ==
  ASSUME ChainTypeOK, ShapeInv, JudgeInv, FreshInv,
         \/ Judge \/ VerifierRaises \/ Escalate \/ Revise \/ GiveUp \/ Answer
         \/ UNCHANGED chainVars
  PROVE  FreshInv'
<1>1. UNCHANGED <<setting, messages, degraded>>
  BY DEF Judge, VerifierRaises, Escalate, Revise, GiveUp, Answer, chainVars, Configuration
<1>2. FreshEyes'
  BY <1>1, StillFresh DEF FreshInv
<1>3. /\ latest("CRITIQUE")' = latest("CRITIQUE") /\ latest("DRAFT")' = latest("DRAFT")
      /\ LastCritique' = LastCritique
  BY <1>1, SameBoard DEF LastCritique
<1>4. CASE Judge
  <2>1. /\ stage = "verdict" /\ UNCHANGED include_feedback
        /\ stage' \in {"answer", "rejected"}
    BY <1>4 DEF Judge, Loop
  <2>2. FeedbackInv'
    BY <1>1, <2>1 DEF FreshInv, FeedbackInv
  <2>3. RejectedBy'
    <3>1. SUFFICES ASSUME stage' = "rejected", ~ setting.escalate_on_reject
                   PROVE  /\ latest("CRITIQUE") # 0
                          /\ ~ LastCritique.approved
                          /\ \/ LastCritique.shown = latest("DRAFT")
                             \/ "Critic" \in degraded
      BY <1>1, <1>3, <2>1 DEF RejectedBy
    <3>2. setting.verifier = "critic"
      BY <3>1 DEF FreshInv, FeedbackInv
    <3>3. ~ current_verdict("unverifiable").approved
      BY <1>4, <3>1, <3>2 DEF Judge, Verifications
    <3>4. latest("CRITIQUE") # 0
      BY <3>3 DEF current_verdict, verdict
    <3>5. ~ LastCritique.approved
      BY <3>3, <3>4 DEF current_verdict, verdict, LastCritique
    <3>6. QED BY <2>1, <3>4, <3>5 DEF JudgeInv, CritiqueFits
  <2>4. QED BY <1>2, <2>2, <2>3 DEF FreshInv
<1>5. CASE Escalate
  <2>1. FeedbackInv'
    BY <1>1, <1>5 DEF Escalate, FreshInv, FeedbackInv
  <2>2. RejectedBy'
    BY <1>1, <1>5 DEF Escalate, RejectedBy
  <2>3. QED BY <1>2, <2>1, <2>2 DEF FreshInv
<1>6. CASE Revise
  <2>1. /\ stage = "rejected" /\ ~ setting.escalate_on_reject
        /\ stage' = "redraft" /\ UNCHANGED include_feedback
    BY <1>6 DEF Revise
  <2>2. QED BY <1>1, <1>2, <1>3, <2>1 DEF FreshInv, FeedbackInv, RejectedBy
<1>7. CASE GiveUp \/ Answer \/ VerifierRaises
  <2>1. stage' \in {"answer", "returned", "failed", "raised"} /\ UNCHANGED include_feedback
    BY <1>7 DEF GiveUp, Answer, VerifierRaises, Loop
  <2>2. QED BY <1>1, <1>2, <2>1 DEF FreshInv, FeedbackInv, RejectedBy
<1>8. CASE UNCHANGED chainVars
  BY <1>1, <1>2, <1>3, <1>8 DEF chainVars, FreshInv, FeedbackInv, RejectedBy
<1>9. QED BY <1>4, <1>5, <1>6, <1>7, <1>8

LEMMA AttemptFresh ==
  ASSUME ChainTypeOK, ShapeInv, FreshInv, Redraft \/ Recheck
  PROVE  FreshInv'
<1>1. /\ UNCHANGED <<setting, include_feedback>>
      /\ stage' \in {"recheck", "verdict", "failed"}
  BY DEF Redraft, Recheck, Configuration, Loop
<1>2. FeedbackInv' /\ RejectedBy'
  BY <1>1 DEF FreshInv, FeedbackInv, RejectedBy
<1>3. ASSUME NEW role, StepFails(role) PROVE FreshInv'
  <2>1. UNCHANGED messages /\ degraded \subseteq degraded'
    BY <1>3 DEF StepFails
  <2>2. QED BY <1>1, <1>2, <2>1, StillFresh DEF FreshInv
<1>4. CASE Answers("Critic")
  BY <1>1, <1>2, <1>4, OthersKeepFresh DEF FreshInv, Roles
<1>5. CASE Redraft /\ Answers("Executor")
  <2>1. stage = "redraft" /\ latest("CRITIQUE") \in 0..Len(messages)
    BY <1>5, LatestFacts DEF Redraft, MessageTypes
  <2>2. CASE setting.escalate_on_reject
    <3>1. Feedback = 0
      BY <2>1, <2>2 DEF FreshInv, FeedbackInv, Feedback
    <3>2. FreshAt(Len(messages) + 1, Feedback, latest("DRAFT"))
      BY <2>2, <3>1 DEF FreshAt
    <3>3. QED BY <1>1, <1>2, <1>5, <3>2, DraftKeepsFresh DEF FreshInv
  <2>3. CASE ~ setting.escalate_on_reject
    <3>1. Feedback = latest("CRITIQUE") /\ latest("CRITIQUE") # 0
      BY <2>1, <2>3 DEF FreshInv, FeedbackInv, RejectedBy, Feedback, LastCritique
    <3>2. /\ latest("CRITIQUE") \in Numbers("CRITIQUE")
          /\ latest("CRITIQUE") < Len(messages) + 1
          /\ latest("DRAFT") # 0
      BY <2>1, <3>1, LatestFacts DEF MessageTypes, ShapeInv, ChainTypeOK
    <3>3. FreshAt(Len(messages) + 1, Feedback, latest("DRAFT"))
      BY <2>1, <2>3, <3>1, <3>2 DEF FreshInv, RejectedBy, LastCritique, FreshAt
    <3>4. QED BY <1>1, <1>2, <1>5, <3>3, DraftKeepsFresh DEF FreshInv
  <2>4. QED BY <2>2, <2>3
<1>6. QED BY <1>3, <1>4, <1>5 DEF Redraft, Recheck

LEMMA FreshStep ==
  ChainTypeOK /\ ShapeInv /\ JudgeInv /\ FreshInv /\ [Next]_chainVars => FreshInv'
BY ChainFresh, LoopFresh, AttemptFresh DEF Next, Work, Over

\* A larger model is never shown the attempt it is to replace, and a revision is
\* shown the critique that rejected the standing draft and no other, however
\* many agents fail on the way and whatever they answer.
THEOREM FreshEyesCorrect == Spec => []FreshEyes
<1>1. Init => FreshInv
  <2>1. Init => FeedbackInv /\ RejectedBy
    BY SettingVerifier DEF Init, FeedbackInv, RejectedBy
  <2>2. Init => FreshEyes
    BY DEF Init, FreshEyes, OfType
  <2>3. QED BY <2>1, <2>2 DEF FreshInv
<1>2. QED BY <1>1, FreshStep, Judged, PTL DEF Spec, FreshInv

=============================================================================
