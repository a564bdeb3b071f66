----------------------------- MODULE BatchRuns -----------------------------
(* The two batch programs and the files they resume from.  A behaviour is  *)
(* the history of one of them and of its file, over all its restarts.      *)
EXTENDS EvalHarness, CapabilityLabels

VARIABLE program

batchVars == <<program, evalVars, labelVars>>

BatchTypeOK ==
  /\ program \in {"run_evaluation", "build_capability_labels"}
  /\ EvalTypeOK /\ LabelTypeOK

Init ==
  /\ program \in {"run_evaluation", "build_capability_labels"}
  /\ EvalInit /\ LabelInit
  /\ program = "run_evaluation" => \A c \in Prompts : solves[c] = {}

\* The labelling ends for good: all is labelled, or the file cannot be read.
Quiet ==
  /\ program = "build_capability_labels"
  /\ labelling = "off"
  /\ remaining = {} \/ Unreadable(label_file) # {}
  /\ UNCHANGED <<evalVars, labelVars>>

Evaluates == program = "run_evaluation" /\ EvalNext /\ UNCHANGED labelVars
Labels    == program = "build_capability_labels" /\ LabelNext /\ UNCHANGED evalVars

Next == (Evaluates \/ Labels \/ Quiet) /\ UNCHANGED program

Spec == Init /\ [][Next]_batchVars

\* A program that runs goes on, and one that ended is started again.
FairSpec == Spec /\ WF_batchVars(Next)

----------------------------------------------------------------------------
\* If the evaluation is started again as long as it takes, every configuration
\* ends up with a readable record of every task: those whose record was spoilt,
\* and those the flat cache had no slot for, are evaluated again.
EverythingIsRecorded == program = "run_evaluation" => <>[]AllRecorded

\* If the labelling is started again as long as it takes, every prompt gets its
\* label, unless a write was cut short.
EverythingIsLabelled ==
  program = "build_capability_labels" => <>[](AllLabelled \/ CannotResume)

=============================================================================
