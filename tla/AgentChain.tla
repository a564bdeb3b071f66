----------------------------- MODULE AgentChain -----------------------------
(***************************************************************************)
(* AgentOrchestrator.execute_task: one task goes through the chain Planner, *)
(* Retriever, Executor, Critic over a blackboard, and then through the loop *)
(* that judges the standing draft and revises it or moves it up the ladder. *)
(* A message is abstracted to what the control of the chain reads of it:   *)
(* its type, whether its text is empty, what a critique decided, and which *)
(* message the model was shown.                                            *)
(***************************************************************************)
EXTENDS Router, FiniteSets

CONSTANTS
  MaxRevisions,     \* max_revisions (1)
  MaxEscalations,   \* max_escalations (2)
  Faulty            \* the roles whose step the dispatcher may fail

ASSUME ChainAssumption ==
  /\ MaxRevisions \in Nat
  /\ MaxEscalations \in Nat
  /\ Faulty \subseteq Roles

\* The task, by what the chain can tell: hotpotqa comes with documents, a
\* humaneval prompt with examples that can be run or only with prose.
Benchmarks == {"hotpotqa", "gsm8k", "humaneval", "humaneval_prose"}
Documents(task) == task = "hotpotqa"
IsCode(task) == task \in {"humaneval", "humaneval_prose"}

----------------------------------------------------------------------------
\* How runner.py sets an orchestrator up.
Setting(chain, tier, escalate, verifier) ==
  [chain |-> chain, tier |-> tier, escalate_on_reject |-> escalate,
   verifier |-> verifier]

DEFAULT_CHAIN == {"Planner", "Retriever", "Executor"}

Routed(task) ==
  {Setting(route_task(s, task).chain, route_task(s, task).tier, FALSE, "critic") :
     s \in Scores}

Fixed == {Setting(DEFAULT_CHAIN, t, FALSE, "critic") : t \in Tiers}

Cascade == Setting(Roles, "Small", TRUE, "critic")

ExecCascade == Setting(DEFAULT_CHAIN, "Small", TRUE, "execution")

\* force_agents as the tests set it, for the path that revises on one tier.
Reviewed == {Setting({"Executor", "Critic"}, t, FALSE, "critic") : t \in Tiers}

Settings(task) == Routed(task) \cup Fixed \cup {Cascade, ExecCascade} \cup Reviewed

----------------------------------------------------------------------------
VARIABLES
  task, setting,
  stage,              \* where execute_task is
  step,               \* which role of CHAIN_ORDER comes next
  tier,               \* the local `tier', reassigned by an escalation
  revisions, escalations,
  include_feedback,   \* of the Executor
  messages,           \* the blackboard
  verdicts,           \* what current_verdict() returned, with the draft it judged:
                      \* a set, each draft is judged once
  degraded,           \* the roles with a "step_failed" in the trace
  calls               \* the agent steps handed to the dispatcher, as <<key, model>>

chainVars == <<task, setting, stage, step, tier, revisions, escalations,
               include_feedback, messages, verdicts, degraded, calls>>

MessageTypes == {"PLAN", "EVIDENCE", "DRAFT", "CRITIQUE"}

Message == [type : MessageTypes, empty : BOOLEAN, approved : BOOLEAN, shown : Nat]

Verdict == [source : {"execution", "critic", "none"}, approved : BOOLEAN,
            draft : Nat, about : Nat]

\* The model an agent step ends on: the one of the workstation, or the local
\* one, which is the 3B model for a Large step without a workstation.
Models == {"1b", "3b", "workstation"}

ChainTypeOK ==
  /\ task \in Benchmarks
  /\ setting \in [chain : SUBSET Roles, tier : Tiers, escalate_on_reject : BOOLEAN,
                  verifier : {"critic", "execution"}]
  /\ stage \in {"chain", "verdict", "rejected", "redraft", "recheck", "answer",
                "returned", "failed", "raised"}
  /\ step \in 1..5
  /\ tier \in Tiers
  /\ revisions \in Nat /\ escalations \in Nat
  /\ include_feedback \in BOOLEAN
  /\ messages \in Seq(Message)
  /\ verdicts \subseteq Verdict
  /\ degraded \subseteq Roles
  /\ calls \in Seq([key : Tiers \X Roles, model : Models])

Init ==
  /\ task \in Benchmarks
  /\ setting \in Settings(task)
  /\ stage = "chain"
  /\ step = 1
  /\ tier = setting.tier
  /\ revisions = 0
  /\ escalations = 0
  /\ include_feedback = TRUE
  /\ messages = <<>>
  /\ verdicts = {}
  /\ degraded = {}
  /\ calls = <<>>

----------------------------------------------------------------------------
\* The blackboard.  `latest' is the number of the last message of a type.
OfType(msgs, type) == {i \in DOMAIN msgs : msgs[i].type = type}

Numbers(type) == OfType(messages, type)

\* Mutant: the messages are searched from the first one.
FirstOf(S) == IF S = {} THEN 0 ELSE CHOOSE i \in S : \A j \in S : i <= j

LastOf(S) == IF S = {} THEN 0 ELSE CHOOSE i \in S : \A j \in S : j <= i

latest(type) == LastOf(Numbers(type))

post(type, empty, approved, shown) ==
  messages' = Append(messages, [type |-> type, empty |-> empty,
                                approved |-> approved, shown |-> shown])

\* The critique in the prompt of the Executor, 0 if there is none.
Feedback ==
  IF /\ include_feedback
     /\ latest("CRITIQUE") # 0
     /\ ~ messages[latest("CRITIQUE")].approved
  THEN latest("CRITIQUE") ELSE 0

----------------------------------------------------------------------------
\* One agent step: its call, and what becomes of it.
\* Mutant: a session key without the tier.
KeyOfRole(role) == <<"Small", role>>

\* Mutant: the parts of the key in the other order.
KeyReversed(role) == <<role, tier>>

session_key(role) == <<tier, role>>

ModelOf(t) ==
  CASE t = "Small" -> {"1b"} [] t = "Medium" -> {"3b"} [] t = "Large" -> {"3b", "workstation"}

Call(role) ==
  \E m \in ModelOf(tier) :
    calls' = Append(calls, [key |-> session_key(role), model |-> m])

\* The step answers and the agent posts its message.  Any text may come back:
\* a critique that does not ask for a revision approves.
Answers(role) ==
  /\ Call(role)
  /\ \/ role = "Planner"   /\ post("PLAN", FALSE, TRUE, 0)
     \/ role = "Retriever" /\ post("EVIDENCE", FALSE, TRUE, 0)
     \/ role = "Executor"  /\ \E e \in BOOLEAN : post("DRAFT", e, TRUE, Feedback)
     \/ role = "Critic"    /\ \E a \in BOOLEAN :
                                post("CRITIQUE", FALSE, a, latest("DRAFT"))
  /\ UNCHANGED degraded

\* The dispatcher raises: run_agent notes it, and lets it through if the role
\* is the Executor.
StepFails(role) ==
  /\ role \in Faulty
  /\ Call(role)
  /\ degraded' = degraded \cup {role}
  /\ UNCHANGED messages

Configuration == <<task, setting>>
Loop == <<tier, revisions, escalations, include_feedback>>

NextRole == /\ step' = step + 1
            /\ stage' = IF step = 4 THEN "verdict" ELSE "chain"

\* A pruned agent, or a Retriever without documents.
Skip ==
  /\ stage = "chain"
  /\ \/ CHAIN_ORDER[step] \notin setting.chain
     \/ CHAIN_ORDER[step] = "Retriever" /\ ~ Documents(task)
  /\ NextRole
  /\ UNCHANGED <<Configuration, Loop, messages, verdicts, degraded, calls>>

\* Mutant: a failed step of any role ends the task.
RunAborts ==
  /\ stage = "chain"
  /\ CHAIN_ORDER[step] \in setting.chain
  /\ CHAIN_ORDER[step] = "Retriever" => Documents(task)
  /\ \/ Answers(CHAIN_ORDER[step]) /\ NextRole
     \/ StepFails(CHAIN_ORDER[step]) /\ stage' = "failed" /\ UNCHANGED step
  /\ UNCHANGED <<Configuration, Loop, verdicts>>

Run ==
  /\ stage = "chain"
  /\ CHAIN_ORDER[step] \in setting.chain
  /\ CHAIN_ORDER[step] = "Retriever" => Documents(task)
  /\ \/ Answers(CHAIN_ORDER[step]) /\ NextRole
     \/ StepFails(CHAIN_ORDER[step]) /\ CHAIN_ORDER[step] # "Executor" /\ NextRole
     \/ StepFails(CHAIN_ORDER[step]) /\ CHAIN_ORDER[step] = "Executor"
          /\ stage' = "failed" /\ UNCHANGED step
  /\ UNCHANGED <<Configuration, Loop, verdicts>>

----------------------------------------------------------------------------
\* What running the examples of the prompt can say of the standing draft: a
\* draft that compiles but has no examples to run is no verdict at all.  It
\* may also raise, which is VerifierRaises.
verify_program ==
  CASE task = "humaneval"       -> {"pass", "fail"}
    [] task = "humaneval_prose" -> {"fail", "unverifiable"}
    [] OTHER                    -> {"unverifiable"}

Verifications ==
  IF setting.verifier = "execution" /\ IsCode(task)
  THEN verify_program ELSE {"unverifiable"}

verdict(source, approved, about) ==
  [source |-> source, approved |-> approved, draft |-> latest("DRAFT"),
   about |-> about]

current_verdict(result) ==
  CASE result \in {"pass", "fail"} ->
         verdict("execution", result = "pass", latest("DRAFT"))
    [] result = "unverifiable" /\ latest("CRITIQUE") = 0 ->
         verdict("none", TRUE, 0)
    [] result = "unverifiable" /\ latest("CRITIQUE") # 0 ->
         verdict("critic", messages[latest("CRITIQUE")].approved,
                 messages[latest("CRITIQUE")].shown)

Judge ==
  /\ stage = "verdict"
  /\ \E result \in Verifications :
       /\ verdicts' = verdicts \cup {current_verdict(result)}
       /\ stage' = IF current_verdict(result).approved THEN "answer" ELSE "rejected"
  /\ UNCHANGED <<Configuration, step, Loop, messages, degraded, calls>>

\* verify_completion raises instead: compile() with anything but a SyntaxError,
\* or the sandbox with anything but a timeout (no room for its directory, no
\* process).  Nothing catches it, and the task ends without an answer.
VerifierRaises ==
  /\ stage = "verdict"
  /\ setting.verifier = "execution" /\ IsCode(task)
  /\ stage' = "raised"
  /\ UNCHANGED <<Configuration, step, Loop, messages, verdicts, degraded, calls>>

\* Mutant: the new attempt of a larger model is shown the rejected one.
EscalateAnchored ==
  /\ stage = "rejected"
  /\ setting.escalate_on_reject
  /\ Rung(tier) < 3
  /\ escalations < MaxEscalations
  /\ tier' = TIER_LADDER[Rung(tier) + 1]
  /\ escalations' = escalations + 1
  /\ stage' = "redraft"
  /\ UNCHANGED <<Configuration, step, revisions, include_feedback, messages,
                 verdicts, degraded, calls>>

Escalate ==
  /\ stage = "rejected"
  /\ setting.escalate_on_reject
  /\ Rung(tier) < 3
  /\ escalations < MaxEscalations
  /\ tier' = TIER_LADDER[Rung(tier) + 1]
  /\ escalations' = escalations + 1
  /\ include_feedback' = FALSE
  /\ stage' = "redraft"
  /\ UNCHANGED <<Configuration, step, revisions, messages, verdicts, degraded, calls>>

\* Mutant: the revisions are not counted.
ReviseForever ==
  /\ stage = "rejected"
  /\ ~ setting.escalate_on_reject
  /\ revisions < MaxRevisions
  /\ stage' = "redraft"
  /\ UNCHANGED <<Configuration, step, Loop, messages, verdicts, degraded, calls>>

Revise ==
  /\ stage = "rejected"
  /\ ~ setting.escalate_on_reject
  /\ revisions < MaxRevisions
  /\ revisions' = revisions + 1
  /\ stage' = "redraft"
  /\ UNCHANGED <<Configuration, step, tier, escalations, include_feedback, messages,
                 verdicts, degraded, calls>>

\* Mutant: a missing break, the standing draft is judged again.
JudgedAgain ==
  /\ stage = "rejected"
  /\ IF setting.escalate_on_reject
     THEN Rung(tier) = 3 \/ escalations >= MaxEscalations
     ELSE revisions >= MaxRevisions
  /\ stage' = "verdict"
  /\ UNCHANGED <<Configuration, step, Loop, messages, verdicts, degraded, calls>>

\* The budget is used up, or the tier is the largest: the draft stands.
GiveUp ==
  /\ stage = "rejected"
  /\ IF setting.escalate_on_reject
     THEN Rung(tier) = 3 \/ escalations >= MaxEscalations
     ELSE revisions >= MaxRevisions
  /\ stage' = "answer"
  /\ UNCHANGED <<Configuration, step, Loop, messages, verdicts, degraded, calls>>

Redraft ==
  /\ stage = "redraft"
  /\ \/ /\ Answers("Executor")
        /\ stage' = IF "Critic" \in setting.chain THEN "recheck" ELSE "verdict"
     \/ StepFails("Executor") /\ stage' = "failed"
  /\ UNCHANGED <<Configuration, step, Loop, verdicts>>

\* Mutant: the new draft is not shown to the Critic.
RecheckSkipped ==
  /\ stage = "recheck"
  /\ stage' = "verdict"
  /\ UNCHANGED <<Configuration, step, Loop, messages, verdicts, degraded, calls>>

Recheck ==
  /\ stage = "recheck"
  /\ Answers("Critic") \/ StepFails("Critic")
  /\ stage' = "verdict"
  /\ UNCHANGED <<Configuration, step, Loop, verdicts>>

Answer ==
  /\ stage = "answer"
  /\ stage' = IF latest("DRAFT") = 0 \/ messages[latest("DRAFT")].empty
              THEN "failed" ELSE "returned"
  /\ UNCHANGED <<Configuration, step, Loop, messages, verdicts, degraded, calls>>

\* The task is over.
Ends == {"returned", "failed", "raised"}
Over == stage \in Ends /\ UNCHANGED chainVars

Work == Skip \/ Run \/ Judge \/ VerifierRaises \/ Escalate \/ Revise \/ GiveUp
          \/ Redraft \/ Recheck \/ Answer

Next == Work \/ Over

Spec == Init /\ [][Next]_chainVars

\* execute_task is one thread, and every dispatcher step ends (EdgeDispatch and
\* RemoteDispatch).
FairSpec == Spec /\ WF_chainVars(Work)

----------------------------------------------------------------------------
Drafts == Numbers("DRAFT")

\* The draft that draft i replaced, 0 for the first one.
Replaced(i) == LastOf({j \in Drafts : j < i})

\* A critique may be older than the draft it is taken for a verdict on, but
\* only because a run of the Critic failed.
Judges(v, i) ==
  /\ v.draft = i
  /\ v.source = "critic" => v.about = i \/ "Critic" \in degraded

\* An answer is the standing draft and was judged itself: it was approved, or
\* nothing could judge it, or it was rejected when no attempt was left.  An
\* approval is always about the very draft that is returned, even when the
\* Critic failed on it.
OutcomeJustified ==
  stage = "returned" =>
    \E v \in verdicts :
      /\ Judges(v, latest("DRAFT"))
      /\ ~ messages[v.draft].empty
      /\ v.approved /\ v.source # "none" => v.about = v.draft
      /\ ~ v.approved =>
           IF setting.escalate_on_reject
           THEN tier = "Large" \/ escalations = MaxEscalations
           ELSE revisions = MaxRevisions

\* "an unparseable verdict must not discard a good draft": a draft is replaced
\* only after a verdict that rejected it.
DiscardedWasRejected ==
  \A i \in Drafts \ {latest("DRAFT")} :
    \E v \in verdicts : Judges(v, i) /\ ~ v.approved

\* A task that ends without an answer had a reason to: a step of the Executor
\* failed, or the standing draft is empty, or running its examples raised.  The
\* last is not among what orchestrator.py:155 grants ("Only the Executor is
\* load-bearing; the rest degrade silently").  And whichever it was, no other
\* draft was thrown away with it: every one that says something was rejected by
\* a verdict, but for the one whose examples raised.
FailureJustified ==
  /\ stage = "failed" =>
       "Executor" \in degraded \/ (Drafts # {} /\ messages[latest("DRAFT")].empty)
  /\ stage = "raised" => setting.verifier = "execution" /\ IsCode(task)
  /\ stage \in {"failed", "raised"} =>
       \A i \in Drafts :
         \/ messages[i].empty
         \/ stage = "raised" /\ i = latest("DRAFT")
         \/ \E v \in verdicts : Judges(v, i) /\ ~ v.approved

\* A larger model makes a fresh attempt; a revision on the same tier is shown
\* the critique that rejected the draft it replaces.
FreshEyes ==
  \A i \in Drafts :
    LET c == messages[i].shown
    IN  IF Replaced(i) = 0 \/ setting.escalate_on_reject
        THEN c = 0
        ELSE /\ c \in Numbers("CRITIQUE")
             /\ c < i
             /\ ~ messages[c].approved
             /\ messages[c].shown = Replaced(i) \/ "Critic" \in degraded

\* "KV state is model-specific, so an escalated step must not collide with the
\* smaller model's entry": one session key, one model of the edge.
OneModelPerKey ==
  \A i, j \in DOMAIN calls :
    /\ calls[i].key = calls[j].key
    /\ "workstation" \notin {calls[i].model, calls[j].model}
    => calls[i].model = calls[j].model

InChain(role) == IF role \in setting.chain THEN 1 ELSE 0

\* The cost of a task: at most one step for each agent of the chain and, for each
\* revision or escalation, of which there are as many as allowed, one more of
\* the Executor and of the Critic if there is one.
CallsBounded ==
  /\ revisions <= MaxRevisions
  /\ escalations <= MaxEscalations
  /\ Len(calls) <= InChain("Planner") + InChain("Retriever") + InChain("Executor")
                     + InChain("Critic")
                     + (1 + InChain("Critic")) * (revisions + escalations)

\* The loop of verdicts and attempts ends.
ChainEnds == <>(stage \in Ends)

----------------------------------------------------------------------------
\* Why.  The shape of the chain: an Executor is in it, no Critic where the
\* examples are run, and past the Executor's turn there is a draft.
ShapeInv ==
  /\ "Executor" \in setting.chain
  /\ setting.verifier = "execution" => "Critic" \notin setting.chain
  /\ \A t \in MessageTypes : Numbers(t) # {} => latest(t) \in Numbers(t)
  /\ "Critic" \notin setting.chain => Numbers("CRITIQUE") = {}
  /\ stage = "chain" =>
       /\ step \in 1..4
       /\ Numbers("CRITIQUE") = {}
       /\ verdicts = {}
       /\ revisions = 0 /\ escalations = 0
       /\ (Drafts = {}) = (step < 4)
  /\ stage \notin {"chain", "failed"} => Drafts # {}
  /\ stage = "recheck" => "Critic" \in setting.chain

\* What the steps so far may have cost.
Attempt == 1 + InChain("Critic")
Chain(n) ==
  (IF n > 1 THEN InChain("Planner") ELSE 0) + (IF n > 2 THEN InChain("Retriever") ELSE 0)
  + (IF n > 3 THEN InChain("Executor") ELSE 0) + (IF n > 4 THEN InChain("Critic") ELSE 0)

Paid == Attempt * (revisions + escalations)

Spendable ==
  CASE stage = "chain"   -> Chain(step)
    [] stage = "redraft" -> Chain(5) + Paid - Attempt
    [] stage = "recheck" -> Chain(5) + Paid - 1
    [] OTHER             -> Chain(5) + Paid

BudgetInv ==
  /\ revisions <= MaxRevisions
  /\ escalations <= MaxEscalations
  /\ Len(calls) <= Spendable

\* The critique the next verdict would be taken from.
LastCritique == messages[latest("CRITIQUE")]

\* Drafts that were replaced, or are about to be, were rejected.
RejectedOnes ==
  \A i \in Drafts :
    i # latest("DRAFT") \/ stage \in {"rejected", "redraft"} =>
      \E v \in verdicts : Judges(v, i) /\ ~ v.approved

\* A critique that approves is about the standing draft ...
CritiqueFits ==
  stage = "verdict" /\ latest("CRITIQUE") # 0 =>
    /\ LastCritique.shown = latest("DRAFT") \/ "Critic" \in degraded
    /\ LastCritique.approved => LastCritique.shown = latest("DRAFT")

\* ... since a stale one is one that rejected.
StaleRejects ==
  stage \in {"rejected", "redraft", "recheck"} /\ latest("CRITIQUE") # 0 =>
    ~ LastCritique.approved

Justified ==
  stage \in {"answer", "returned"} =>
    \E v \in verdicts :
      /\ Judges(v, latest("DRAFT"))
      /\ v.approved /\ v.source # "none" => v.about = v.draft
      /\ ~ v.approved =>
           IF setting.escalate_on_reject
           THEN tier = "Large" \/ escalations = MaxEscalations
           ELSE revisions = MaxRevisions

JudgeInv ==
  /\ RejectedOnes
  /\ CritiqueFits
  /\ StaleRejects
  /\ Justified
  /\ stage = "returned" => ~ messages[latest("DRAFT")].empty

\* The tier of a key tells the models it is used with.
KeyInv == \A i \in DOMAIN calls : calls[i].model \in ModelOf(calls[i].key[1])

=============================================================================
