---------------------------- MODULE EvalHarness ----------------------------
(***************************************************************************)
(* The evaluation driver (run_evaluation.py) and its EvaluationHarness:    *)
(* every configuration is run on every task, each answer is appended to    *)
(* the results file, and a run that was interrupted is started again and   *)
(* passes over the tasks it finds a record of.                             *)
(*                                                                         *)
(* FLAT is the configuration on VLLMPrefixCacheApprox, a cache that never  *)
(* evicts; its tasks run on the edge, each with a session key of its own.  *)
(* Of the runner it is modelled whether it answers, of a record whose it   *)
(* is, and of a process nothing is left when it ends.  Processes may break *)
(* MaxBreaks times in all: a crash, a failed write, an exception of the    *)
(* runner, or one outside the try of evaluate_task.                        *)
(***************************************************************************)
EXTENDS JsonLines, EnergyMonitor, FiniteSets

CONSTANTS
  Configs,     \* the configurations, in the order of the driver
  EvalTasks,   \* the task ids, in the order of the dataset
  FLAT,        \* the configuration with the flat cache
  max_slots,   \* its slots
  MaxBreaks

ConfigNames == {Configs[i] : i \in DOMAIN Configs}
TaskIds     == {EvalTasks[i] : i \in DOMAIN EvalTasks}

ASSUME EvalAssumption ==
  /\ max_slots \in Nat /\ MaxBreaks \in Nat
  /\ Configs \in Seq(ConfigNames) /\ Configs # <<>>
  /\ EvalTasks \in Seq(TaskIds)
  /\ \A i, j \in DOMAIN EvalTasks : EvalTasks[i] = EvalTasks[j] => i = j

VARIABLES
  results,           \* the results file
  failed,            \* the failure log, which does not name the configuration
  evaluation,        \* where the driver is
  config, index,     \* the loops over configurations and tasks
  completed_tasks,   \* read when the harness is built, and never again
  active_slots,      \* the keys in the flat cache
  breaks,            \* how often something broke
  untraced           \* history: what a failed write left no trace of, or an
                     \* exception that evaluate_task does not catch

driverVars == <<evaluation, config, index, completed_tasks, active_slots>>
logVars    == <<results, failed, breaks, untraced>>
evalVars   == <<driverVars, logVars, energyVars>>

Result      == [baseline : ConfigNames, task_id : TaskIds]

EvalTypeOK ==
  /\ EnergyTypeOK
  /\ results \in FileOf(Result)
  /\ failed \subseteq TaskIds
  /\ evaluation \in {"off", "build", "next", "running"}
  /\ config \in DOMAIN Configs
  /\ index \in 1..Len(EvalTasks) + 1
  /\ completed_tasks \cup active_slots \subseteq TaskIds
  /\ breaks \in 0..MaxBreaks
  /\ untraced \subseteq ConfigNames \X TaskIds

EvalInit ==
  /\ EnergyInit
  /\ results = EmptyFile
  /\ failed = {} /\ untraced = {}
  /\ evaluation = "off"
  /\ config = 1 /\ index = 1
  /\ completed_tasks = {} /\ active_slots = {}
  /\ breaks = 0

baseline == Configs[config]
task_id  == EvalTasks[index]
Done     == index > Len(EvalTasks)

Of(r, b, t) == r.baseline = b /\ r.task_id = t

HasRecord(b, t) == \E r \in Recorded(results) : Of(r, b, t)

\* Mutants: reading stops at the first bad line; records of any configuration.
completedUntilBad ==
  {t \in TaskIds : \E i \in Readable(results) :
     /\ \A j \in Unreadable(results) : i < j
     /\ \E r \in results.lines[i].recs : Of(r, baseline, t)}
completedByAny == {t \in TaskIds : \E b \in ConfigNames : HasRecord(b, t)}

get_completed_tasks == {t \in TaskIds : HasRecord(baseline, t)}

----------------------------------------------------------------------------
(* The driver.                                                             *)

Break == breaks < MaxBreaks /\ breaks' = breaks + 1

Invoke ==
  /\ evaluation = "off" /\ evaluation' = "build"
  /\ UNCHANGED <<config, index, completed_tasks, active_slots, logVars, energyVars>>

\* run_one: a new harness and a new runner for the configuration.  The source
\* of the energy is an argument of the process; any is tried with any harness.
Build ==
  /\ evaluation = "build" /\ evaluation' = "next"
  /\ \E source \in Sources : EnergyBuild(source)
  /\ completed_tasks' = get_completed_tasks
  /\ active_slots' = {}
  /\ index' = 1
  /\ UNCHANGED <<config, logVars>>

\* The process ends and takes its memory along.
Ended ==
  /\ evaluation' = "off"
  /\ config' = 1 /\ index' = 1
  /\ completed_tasks' = {} /\ active_slots' = {}
  /\ EnergyEnd

NextConfig ==
  /\ evaluation = "next" /\ Done
  /\ \/ /\ config < Len(Configs)
        /\ config' = config + 1 /\ evaluation' = "build"
        /\ UNCHANGED <<index, completed_tasks, active_slots, energyVars>>
     \/ config = Len(Configs) /\ Ended
  /\ UNCHANGED logVars

Crash ==
  /\ evaluation # "off" /\ Break
  /\ Ended
  /\ UNCHANGED <<results, failed, untraced>>

----------------------------------------------------------------------------
(* evaluate_task.                                                          *)

Skip ==
  /\ evaluation = "next" /\ ~ Done
  /\ task_id \in completed_tasks
  /\ index' = index + 1
  /\ UNCHANGED <<evaluation, config, completed_tasks, active_slots, logVars, energyVars>>

Begin ==
  /\ evaluation = "next" /\ ~ Done
  /\ task_id \notin completed_tasks
  /\ evaluation' = "running"
  /\ EnergyStart
  /\ UNCHANGED <<config, index, completed_tasks, active_slots, logVars>>

Sample == Poll /\ UNCHANGED <<driverVars, logVars>>

\* On to the next task.
GoesOn ==
  /\ evaluation' = "next" /\ index' = index + 1
  /\ EnergyStop
  /\ UNCHANGED <<config, completed_tasks>>

\* Mutant: a full cache takes one more key.
HasRoomForOneMore ==
  task_id \in active_slots \/ Cardinality(active_slots) <= max_slots

\* VLLMPrefixCacheApprox.save_cache: a key it has is overwritten, a new one
\* needs a free slot.
HasRoom == task_id \in active_slots \/ Cardinality(active_slots) < max_slots

\* The flat cache once it was asked to save the task's key.
Occupied == IF baseline = FLAT /\ HasRoom THEN active_slots \cup {task_id}
            ELSE active_slots

\* The answer is scored and appended to the results; a program that fails its
\* tests is logged as a failure too.  _append_jsonl only warns when a write
\* fails, so the driver goes on unless the process died.
Record ==
  /\ evaluation = "running"
  /\ baseline = FLAT => HasRoom
  /\ failed' \in {failed, failed \cup {task_id}}
  /\ \E end \in Ends :
       /\ results' = append(results, [baseline |-> baseline, task_id |-> task_id], end)
       /\ untraced' = IF end = "nothing" THEN untraced \cup {<<baseline, task_id>>}
                      ELSE untraced
       /\ IF end = "line" THEN UNCHANGED breaks ELSE Break
       /\ \/ GoesOn /\ active_slots' = Occupied
          \/ end # "line" /\ Ended

\* Mutant: the failure is not logged.
LimitUnlogged ==
  /\ evaluation = "running"
  /\ baseline = FLAT /\ ~ HasRoom
  /\ GoesOn
  /\ UNCHANGED <<active_slots, logVars>>

\* _log_failure appends to the failure log, and may fail unnoticed as well.
Logged == failed' = failed \cup {task_id} /\ UNCHANGED untraced
Lost   == untraced' = untraced \cup {<<baseline, task_id>>} /\ UNCHANGED failed

\* EXPECTED_LIMIT_REACHED: the answer is thrown away and the failure logged.
Limit ==
  /\ evaluation = "running"
  /\ baseline = FLAT /\ ~ HasRoom
  /\ (Logged /\ UNCHANGED breaks) \/ (Lost /\ Break)
  /\ GoesOn
  /\ UNCHANGED <<active_slots, results>>

\* The runner raises: logged and raised again, which ends a --fail-fast run and
\* only counts in any other.
Error ==
  /\ evaluation = "running" /\ Break
  /\ Logged \/ Lost
  /\ \/ GoesOn /\ UNCHANGED active_slots
     \/ Ended
  /\ UNCHANGED results

\* An exception outside the try: before the runner is called (no thread can be
\* started to poll), or after it has answered, while the answer is scored (the
\* sandbox catches only a timeout, not that it has no room for its directory or
\* cannot start a process).  Nothing logs it; the driver prints it and goes on
\* to the next task, or ends with --fail-fast.
Uncaught ==
  /\ evaluation = "running" /\ Break
  /\ untraced' = untraced \cup {<<baseline, task_id>>}
  /\ \/ GoesOn /\ active_slots' \in {active_slots, Occupied}
     \/ Ended
  /\ UNCHANGED <<results, failed>>

EvalNext ==
  \/ Invoke \/ Build \/ NextConfig \/ Crash
  \/ Skip \/ Begin \/ Sample \/ Record \/ Limit \/ Error \/ Uncaught

----------------------------------------------------------------------------
\* However often the driver is interrupted and started again, no task of a
\* configuration has two readable records: it resumes "without duplicating
\* records", the first half of what progress.md:508 says of it.
OneRecordPerTask ==
  \A i, j \in Readable(results) :
    (\E r \in results.lines[i].recs, s \in results.lines[j].recs :
       Of(s, r.baseline, r.task_id)) => i = j

\* The other half, "or corrupting logs", is not so: nothing ends a line that was
\* cut, and the first record after the resume is glued to it and lost
\* (harness.py:85-86).  This is the bound that does hold: a break costs one line,
\* with the record that was being written and at most the one after it.
DamageIsLocal ==
  /\ Cardinality(Unreadable(results)) <= breaks
  /\ Cardinality(Spoiled(results)) <= 2 * breaks

\* When the driver is through with a configuration, every task of it has a
\* record, or one that was spoilt, or is in the failure log, or is one of those
\* the code leaves without a trace: its write failed (_append_jsonl only warns)
\* or the exception was outside the try of evaluate_task (Uncaught).  These are
\* what "if a task fails ... a record is added to experiments/failed_evals.jsonl"
\* (docs/phase7/metric_definitions.md:72) misses.  Nothing else is lost: not by
\* skipping, by a limit, by an exception of the runner or by a restart.
LossesExplained ==
  evaluation = "next" /\ Done =>
    \A t \in TaskIds :
      \/ \E r \in Recorded(results) \cup Spoiled(results) : Of(r, baseline, t)
      \/ t \in failed \/ <<baseline, t>> \in untraced

\* The energy a record gets is integrated from samples of its own task, or is
\* missing: nothing is left of the task before, or of the meter's log.
EnergyIsOwn ==
  evaluation = "running" => \A joules \in Energies : joules \subseteq {"own"}

\* The flat cache never gives a slot back: whatever one process recorded with
\* it is still there, and never more than the slots.
SlotsAreSpent ==
  evaluation \in {"next", "running"} /\ baseline = FLAT =>
    /\ Cardinality(active_slots) <= max_slots
    /\ \A t \in get_completed_tasks : t \in completed_tasks \cup active_slots

AllRecorded == \A b \in ConfigNames, t \in TaskIds : HasRecord(b, t)

=============================================================================
