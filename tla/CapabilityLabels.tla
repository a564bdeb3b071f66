-------------------------- MODULE CapabilityLabels --------------------------
(***************************************************************************)
(* The labelling of the router's validation set: run_capability_pass tries *)
(* the models from small to large, each on the candidates the smaller ones *)
(* failed, and appends a label when a candidate is solved.  The driver,    *)
(* build_capability_labels --resume, is interrupted and started again, and *)
(* leaves out the prompts it finds in the file.                            *)
(*                                                                         *)
(* The candidates are lists of indices, in ascending order throughout: as   *)
(* sets of which the least comes first they say the same.                  *)
(*                                                                         *)
(* Decoding is greedy with a fixed seed, so whether a model solves a       *)
(* candidate is a fact of the two; an exception in the decoder makes it    *)
(* fail.  A pass may break MaxStops times in all.                          *)
(***************************************************************************)
EXTENDS JsonLines

CONSTANTS
  Candidates,   \* the prompts, in order
  MaxStops      \* how often a pass is killed, a write fails or a decoder raises

ASSUME LabelAssumption ==
  /\ MaxStops \in Nat
  /\ Candidates \in Seq({Candidates[i] : i \in DOMAIN Candidates})
  /\ \A i, j \in DOMAIN Candidates : Candidates[i] = Candidates[j] => i = j

VARIABLES
  label_file,      \* the output file
  solves,          \* solves[c]: the tiers whose model solves c
  labelling,       \* where the driver is
  tier,            \* the tier that is loaded
  pending,         \* the indices of the candidates this tier has still to try
  still_pending,   \* of those it failed on
  stops,           \* how often something broke
  raised           \* history: <<candidate, tier>> for which the decoder raised

labelVars == <<label_file, solves, labelling, tier, pending, still_pending, stops, raised>>

TIER_ORDER  == <<"Low", "Medium", "High">>
Prompts     == {Candidates[i] : i \in DOMAIN Candidates}
TierNumbers == DOMAIN TIER_ORDER
Unsolved    == 0
Label       == [prompt : Prompts, tier : TierNumbers \cup {Unsolved}]

LabelTypeOK ==
  /\ label_file \in FileOf(Label)
  /\ solves \in [Prompts -> SUBSET TierNumbers]
  /\ labelling \in {"off", "pass", "rest"}
  /\ tier \in TierNumbers
  /\ pending \cup still_pending \subseteq DOMAIN Candidates
  /\ stops \in 0..MaxStops
  /\ raised \subseteq Prompts \X TierNumbers

LabelInit ==
  /\ label_file = EmptyFile
  /\ solves \in [Prompts -> SUBSET TierNumbers]
  /\ labelling = "off" /\ tier = 1
  /\ pending = {} /\ still_pending = {}
  /\ stops = 0 /\ raised = {}

\* Mutant: without --resume.
remainingAll == DOMAIN Candidates

remaining ==
  {i \in DOMAIN Candidates : \A r \in Recorded(label_file) : r.prompt # Candidates[i]}

\* The driver: json.loads is not guarded, so a line it cannot read ends this
\* process, and every later one, before the first label.
StartPass ==
  /\ labelling = "off"
  /\ Unreadable(label_file) = {}
  /\ remaining # {}
  /\ labelling' = "pass" /\ tier' = 1
  /\ pending' = remaining /\ still_pending' = {}
  /\ UNCHANGED <<label_file, solves, stops, raised>>

Stop == stops < MaxStops /\ stops' = stops + 1

\* The pass ends and leaves nothing but the file.
PassEnds ==
  /\ labelling' = "off" /\ tier' = 1
  /\ pending' = {} /\ still_pending' = {}

idx  == CHOOSE i \in pending : \A j \in pending : i <= j
cand == Candidates[idx]

\* The label is appended; when the process is killed there, or the write
\* raises, that is the end of the pass.
Write(t) ==
  \E end \in Ends :
    /\ label_file' = append(label_file, [prompt |-> cand, tier |-> t], end)
    /\ \/ /\ end = "line"
          /\ pending' = pending \ {idx}
          /\ UNCHANGED <<labelling, tier, still_pending, stops>>
       \/ end # "line" /\ Stop /\ PassEnds

Solved ==
  /\ labelling = "pass" /\ pending # {}
  /\ tier \in solves[cand]
  /\ Write(tier)
  /\ UNCHANGED <<solves, raised>>

\* The decoder raises, or the answer is wrong.
NotSolved ==
  /\ labelling = "pass" /\ pending # {}
  /\ \/ tier \notin solves[cand] /\ UNCHANGED <<stops, raised>>
     \/ Stop /\ raised' = raised \cup {<<cand, tier>>}
  /\ still_pending' = still_pending \cup {idx}
  /\ pending' = pending \ {idx}
  /\ UNCHANGED <<label_file, solves, labelling, tier>>

\* Mutant: the largest model is never tried.
NextTierStopsShort ==
  /\ labelling = "pass" /\ pending = {}
  /\ \/ still_pending = {} /\ PassEnds
     \/ /\ still_pending # {}
        /\ pending' = still_pending /\ still_pending' = {}
        /\ IF tier >= Len(TIER_ORDER) - 1
           THEN labelling' = "rest" /\ UNCHANGED tier
           ELSE tier' = tier + 1 /\ UNCHANGED labelling
  /\ UNCHANGED <<label_file, solves, stops, raised>>

\* The model is closed; the next one gets what this one failed on.
NextTier ==
  /\ labelling = "pass" /\ pending = {}
  /\ \/ still_pending = {} /\ PassEnds
     \/ /\ still_pending # {}
        /\ pending' = still_pending /\ still_pending' = {}
        /\ IF tier = Len(TIER_ORDER)
           THEN labelling' = "rest" /\ UNCHANGED tier
           ELSE tier' = tier + 1 /\ UNCHANGED labelling
  /\ UNCHANGED <<label_file, solves, stops, raised>>

\* What no tier solved is recorded as such.
RecordUnsolved ==
  /\ labelling = "rest" /\ pending # {}
  /\ Write(Unsolved)
  /\ UNCHANGED <<solves, raised>>

\* Mutant: unsolved prompts are left out of the file.
FinishPassEarly ==
  /\ labelling = "rest"
  /\ PassEnds
  /\ UNCHANGED <<label_file, solves, stops, raised>>

FinishPass ==
  /\ labelling = "rest" /\ pending = {}
  /\ PassEnds
  /\ UNCHANGED <<label_file, solves, stops, raised>>

Killed ==
  /\ labelling # "off" /\ Stop
  /\ PassEnds
  /\ UNCHANGED <<label_file, solves, raised>>

LabelNext ==
  StartPass \/ Solved \/ NotSolved \/ NextTier \/ RecordUnsolved \/ FinishPass \/ Killed

----------------------------------------------------------------------------
\* Resuming labels no prompt twice: a validation set with a prompt in it two
\* times would weigh it double in the calibration.
OneLabelPerPrompt ==
  \A i, j \in Readable(label_file) :
    (\E r \in label_file.lines[i].recs, s \in label_file.lines[j].recs :
       r.prompt = s.prompt) => i = j

\* The label is the smallest tier that solves the prompt, whichever passes were
\* interrupted before: a smaller one was not tried only if its decoder raised.
LabelIsSmallest ==
  \A r \in Recorded(label_file) :
    /\ r.tier = Unsolved \/ r.tier \in solves[r.prompt]
    /\ \A t \in solves[r.prompt] :
         r.tier = Unsolved \/ t < r.tier => <<r.prompt, t>> \in raised

AllLabelled == \A c \in Prompts : \E r \in Recorded(label_file) : r.prompt = c

\* A line was cut: no resume gets past it.
CannotResume == stops > 0 /\ Unreadable(label_file) # {}

=============================================================================
