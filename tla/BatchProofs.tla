---------------------------- MODULE BatchProofs ----------------------------
(***************************************************************************)
(* What the evaluation driver keeps over all its restarts, for any list of *)
(* configurations and tasks, any number of slots and of breaks.            *)
(*                                                                         *)
(* The inductive invariant relates the file to the loop over the tasks:    *)
(* what the file has of this configuration is behind the index or among    *)
(* the tasks that were read when the harness was built (Accounted), and    *)
(* what is behind the index or was read has left a trace (Traced).         *)
(***************************************************************************)
EXTENDS BatchRuns, FiniteSetTheorems, SequenceTheorems, TLAPS

Passed(t) == t \in completed_tasks \/ \E i \in 1..index - 1 : EvalTasks[i] = t

InHarness == evaluation \in {"next", "running"}

Traces(b, t) ==
  \/ \E r \in Recorded(results) \cup Spoiled(results) : Of(r, b, t)
  \/ t \in failed
  \/ <<b, t>> \in untraced

LastLineIsThere == results.open => results.lines # <<>>

OnATask == evaluation = "running" => ~ Done /\ ~ Passed(task_id)

Accounted == InHarness => \A t \in TaskIds : HasRecord(baseline, t) => Passed(t)

Traced == InHarness => \A t \in TaskIds : Passed(t) => Traces(baseline, t)

\* A thread polls only during a task; GPU samples and the RAPL counter are of
\* the task that is being measured.
EnergyInv ==
  /\ pollers > 0 => evaluation = "running" /\ monitor = "nvidia_smi"
  /\ monitor = "null" => power_samples = {}
  /\ evaluation = "running" /\ monitor # "external_meter" => power_samples \subseteq {"own"}

EvalInv ==
  /\ EvalTypeOK /\ EnergyInv
  /\ LastLineIsThere /\ OnATask /\ Accounted /\ Traced
  /\ OneRecordPerTask /\ SlotsAreSpent

----------------------------------------------------------------------------
(* The file.                                                               *)

\* A write keeps every readable line but the last, loses no record without a
\* trace, and makes at most its own record readable.
LEMMA AppendFacts ==
  ASSUME NEW Rec, NEW f \in FileOf(Rec), f.open => f.lines # <<>>,
         NEW r \in Rec, NEW end \in Ends
  PROVE  LET g == append(f, r, end) IN
         /\ g \in FileOf(Rec)
         /\ g.open => g.lines # <<>>
         /\ \A i \in Readable(g) :
              \/ i \in Readable(f) /\ g.lines[i] = f.lines[i]
              \/ i = Len(f.lines) + 1 /\ g.lines[i].recs = {r}
         /\ Recorded(f) \cup Spoiled(f) \subseteq Recorded(g) \cup Spoiled(g)
         /\ end # "nothing" => r \in Recorded(g) \cup Spoiled(g)
         /\ Recorded(g) \subseteq Recorded(f) \cup {r}
<1> DEFINE g == append(f, r, end)
           Line == [recs : SUBSET Rec, whole : BOOLEAN]
<1>0. f.lines \in Seq(Line) /\ f.open \in BOOLEAN
  BY DEF FileOf
<1>1. CASE end = "nothing"
  BY <1>1 DEF append, Readable, Unreadable, Recorded, Spoiled
<1>2. CASE end # "nothing" /\ f.open
  <2> DEFINE n == Len(f.lines)
             new == [recs |-> f.lines[n].recs \cup {r}, whole |-> FALSE]
  <2>0. f.lines # <<>>
    BY <1>2
  <2>1. n \in 1..n /\ f.lines[n] \in Line
    <3> HIDE DEF Line
    <3>1. n \in Nat /\ n # 0 BY <1>0, <2>0
    <3>2. n \in 1..n BY <3>1
    <3>3. QED BY <1>0, <3>2
  <2>2. new \in Line /\ new.whole = FALSE /\ r \in new.recs
        /\ f.lines[n].recs \subseteq new.recs
    BY <2>1
  <2>3. g = [lines |-> [f.lines EXCEPT ![n] = new], open |-> end # "line"]
    BY <1>2 DEF append
  <2> DEFINE ls == [f.lines EXCEPT ![n] = new]
  <2>4. g.lines = ls /\ g.open = (end # "line")
    BY <2>3
  <2>5. ls \in Seq(Line) /\ Len(ls) = n /\ DOMAIN ls = 1..n /\ DOMAIN f.lines = 1..n
    <3> HIDE DEF new, Line
    <3>1. QED BY <1>0, <2>1, <2>2, ExceptSeq, LenProperties
  <2>6. ls[n] = new /\ \A i \in 1..n : i # n => ls[i] = f.lines[i]
    <3> HIDE DEF new, Line
    <3>1. QED BY <1>0, <2>1, <2>2, ExceptSeq, LenProperties
  <2>7. g \in FileOf(Rec) /\ g.lines # <<>>
    <3>1. g.lines \in Seq(Line) /\ g.open \in BOOLEAN BY <2>4, <2>5
    <3>2. g \in [lines : Seq(Line), open : BOOLEAN] BY <2>3, <2>5
    <3>3. g.lines # <<>> BY <2>4, <2>5, <2>1
    <3>4. QED BY <3>2, <3>3 DEF FileOf
  <2>8. Readable(g) = Readable(f) \ {n}
    BY <2>4, <2>5, <2>6, <2>2, <2>1 DEF Readable
  <2>9. DOMAIN g.lines = DOMAIN f.lines
    BY <2>4, <2>5
  <2>10. \A i \in Readable(g) : i \in Readable(f) /\ g.lines[i] = f.lines[i]
    BY <2>8, <2>4, <2>5, <2>6 DEF Readable
  <2>11. \A i \in DOMAIN f.lines : f.lines[i].recs \subseteq g.lines[i].recs
    BY <2>4, <2>5, <2>6, <2>2
  <2>12. Recorded(f) \cup Spoiled(f) \subseteq Recorded(g) \cup Spoiled(g)
    BY <2>9, <2>11 DEF Recorded, Spoiled, Readable, Unreadable
  <2>13. r \in Recorded(g) \cup Spoiled(g)
    <3>1. n \in Unreadable(g) BY <2>4, <2>5, <2>6, <2>2, <2>1 DEF Readable, Unreadable
    <3>2. r \in g.lines[n].recs BY <2>4, <2>6, <2>2
    <3>3. QED BY <3>1, <3>2 DEF Spoiled
  <2>14. Recorded(g) \subseteq Recorded(f)
    BY <2>10 DEF Recorded
  <2>15. QED BY <2>7, <2>10, <2>12, <2>13, <2>14
<1>3. CASE end # "nothing" /\ ~ f.open
  <2> DEFINE n == Len(f.lines)
             new == [recs |-> {r}, whole |-> end # "cut"]
             ls == Append(f.lines, new)
  <2>1. new \in Line /\ new.recs = {r}
    OBVIOUS
  <2>2. g = [lines |-> ls, open |-> end # "line"]
    BY <1>3 DEF append
  <2>3. g.lines = ls /\ g.open = (end # "line")
    BY <2>2
  <2>4. ls \in Seq(Line) /\ Len(ls) = n + 1 /\ DOMAIN ls = 1..n + 1 /\ DOMAIN f.lines = 1..n
        /\ n \in Nat
    <3> HIDE DEF new, Line
    <3>1. QED BY <1>0, <2>1, AppendProperties, LenProperties
  <2>5. ls[n + 1] = new /\ \A i \in 1..n : ls[i] = f.lines[i]
    <3> HIDE DEF new, Line
    <3>1. QED BY <1>0, <2>1, AppendProperties
  <2>6. g \in FileOf(Rec) /\ g.lines # <<>>
    <3>1. g \in [lines : Seq(Line), open : BOOLEAN] BY <2>2, <2>4
    <3>2. g.lines # <<>> BY <2>3, <2>4
    <3>3. QED BY <3>1, <3>2 DEF FileOf
  <2>7. \A i \in DOMAIN g.lines :
          \/ i \in DOMAIN f.lines /\ g.lines[i] = f.lines[i]
          \/ i = n + 1 /\ g.lines[i].recs = {r}
    BY <2>3, <2>4, <2>5, <2>1
  <2>8. \A i \in Readable(g) :
          \/ i \in Readable(f) /\ g.lines[i] = f.lines[i]
          \/ i = n + 1 /\ g.lines[i].recs = {r}
    BY <2>7 DEF Readable
  <2>9. \A i \in DOMAIN f.lines : i \in DOMAIN g.lines /\ f.lines[i] = g.lines[i]
    BY <2>3, <2>4, <2>5
  <2>10. Recorded(f) \cup Spoiled(f) \subseteq Recorded(g) \cup Spoiled(g)
    BY <2>9 DEF Recorded, Spoiled, Readable, Unreadable
  <2>11. r \in Recorded(g) \cup Spoiled(g)
    <3>1. n + 1 \in DOMAIN g.lines /\ r \in g.lines[n + 1].recs
      BY <2>3, <2>4, <2>5, <2>1
    <3>2. QED BY <3>1 DEF Recorded, Spoiled, Readable, Unreadable
  <2>12. Recorded(g) \subseteq Recorded(f) \cup {r}
    BY <2>8 DEF Recorded
  <2>13. QED BY <2>6, <2>8, <2>10, <2>11, <2>12
<1>4. QED BY <1>1, <1>2, <1>3

----------------------------------------------------------------------------
(* The energy monitor.                                                     *)

LEMMA EnergyStarts ==
  ASSUME EnergyTypeOK, pollers = 0, monitor = "null" => power_samples = {}, EnergyStart
  PROVE  /\ EnergyTypeOK'
         /\ pollers' > 0 => monitor' = "nvidia_smi"
         /\ monitor' = "null" => power_samples' = {}
         /\ monitor' # "external_meter" => power_samples' \subseteq {"own"}
<1>1. monitor' = monitor /\ pollers' \in 0..1 /\ (pollers' > 0 => monitor = "nvidia_smi")
  BY DEF EnergyTypeOK, EnergyStart, NvidiaStart, RaplStart, MeterStart
<1>2. CASE monitor = "nvidia_smi"
  BY <1>1, <1>2 DEF EnergyTypeOK, EnergyStart, NvidiaStart
<1>3. CASE monitor = "rapl"
  BY <1>1, <1>3 DEF EnergyTypeOK, EnergyStart, RaplStart
<1>4. CASE monitor \in {"external_meter", "null"}
  BY <1>1, <1>4 DEF EnergyTypeOK, EnergyStart, MeterStart
<1>5. QED BY <1>2, <1>3, <1>4 DEF EnergyTypeOK, Backends

LEMMA EnergyBuilt ==
  ASSUME NEW source, EnergyBuild(source)
  PROVE  /\ EnergyTypeOK' /\ pollers' = 0
         /\ monitor' = "null" => power_samples' = {}
<1>1. build_energy_monitor(source) \in Backends \cup {"null"}
  <2> DEFINE usable == (IF source = "auto" THEN Backends ELSE {source}) \cap Devices
  <2>1. CASE "external_meter" \in usable
    BY <2>1 DEF build_energy_monitor, Backends
  <2>2. CASE "external_meter" \notin usable /\ "nvidia_smi" \in usable
    BY <2>2 DEF build_energy_monitor, Backends
  <2>3. CASE "external_meter" \notin usable /\ "nvidia_smi" \notin usable /\ usable = {"rapl"}
    BY <2>3 DEF build_energy_monitor, Backends
  <2>4. CASE "external_meter" \notin usable /\ "nvidia_smi" \notin usable /\ usable # {"rapl"}
    BY <2>4 DEF build_energy_monitor, Backends
  <2>5. QED BY <2>1, <2>2, <2>3, <2>4
<1>2. QED BY <1>1 DEF EnergyBuild, EnergyTypeOK

----------------------------------------------------------------------------
(* The steps.                                                              *)

\* A process that ends leaves the files only.
LEMMA EndedKeeps ==
  ASSUME EvalInv, Ended,
         results' \in FileOf(Result), failed' \subseteq TaskIds,
         breaks' \in 0..MaxBreaks, untraced' \subseteq ConfigNames \X TaskIds,
         LastLineIsThere', OneRecordPerTask'
  PROVE  EvalInv'
<1>1. config' \in DOMAIN Configs /\ index' \in 1..Len(EvalTasks) + 1
  BY EvalAssumption, LenProperties, EmptySeq DEF Ended
<1>2. EnergyTypeOK' /\ EnergyInv'
  BY DEF Ended, EnergyEnd, EnergyTypeOK, EnergyInv
<1>3. EvalTypeOK'
  BY <1>1, <1>2 DEF Ended, EvalTypeOK
<1>4. evaluation' = "off"
  BY DEF Ended
<1>5. OnATask' /\ Accounted' /\ Traced' /\ SlotsAreSpent'
  BY <1>4 DEF OnATask, Accounted, Traced, SlotsAreSpent, InHarness
<1>6. QED BY <1>2, <1>3, <1>5 DEF EvalInv

LEMMA TasksAreNumbered ==
  /\ Len(EvalTasks) \in Nat /\ DOMAIN EvalTasks = 1..Len(EvalTasks)
  /\ \A i \in 1..Len(EvalTasks) : EvalTasks[i] \in TaskIds
BY EvalAssumption, LenProperties DEF TaskIds

LEMMA TasksAreFinite == IsFiniteSet(TaskIds)
<1> DEFINE n == Len(EvalTasks)
<1>1. IsFiniteSet(1..n)
  BY TasksAreNumbered, FS_Interval
<1>2. EvalTasks \in Surjection(1..n, TaskIds)
  BY EvalAssumption, LenProperties DEF Surjection, TaskIds
<1>3. QED BY <1>1, <1>2, FS_Surjection

\* The task at hand is not behind the index, and becomes so when the driver
\* goes on.
LEMMA PassedNext ==
  ASSUME EvalTypeOK, ~ Done
  PROVE  /\ index \in 1..Len(EvalTasks) /\ task_id \in TaskIds
         /\ ~ \E i \in 1..index - 1 : EvalTasks[i] = task_id
         /\ completed_tasks' = completed_tasks /\ index' = index + 1
              => /\ index' \in 1..Len(EvalTasks) + 1
                 /\ \A t : Passed(t)' <=> Passed(t) \/ t = task_id
<1>1. index \in 1..Len(EvalTasks)
  BY TasksAreNumbered DEF EvalTypeOK, Done
<1>2. task_id \in TaskIds
  BY <1>1, TasksAreNumbered DEF task_id
<1>3. ~ \E i \in 1..index - 1 : EvalTasks[i] = task_id
  BY <1>1, TasksAreNumbered, EvalAssumption DEF task_id
<1>4. ASSUME completed_tasks' = completed_tasks, index' = index + 1
      PROVE  \A t : Passed(t)' <=> Passed(t) \/ t = task_id
  <2>1. 1..index' - 1 = (1..index - 1) \cup {index}
    BY <1>1, <1>4, TasksAreNumbered
  <2>2. QED BY <1>4, <2>1 DEF Passed, task_id
<1>5. QED BY <1>1, <1>2, <1>3, <1>4, TasksAreNumbered

\* The driver goes on to the next task: what is written on the way is a record
\* of the task at hand, and something is written.
LEMMA GoesOnKeeps ==
  ASSUME EvalInv, evaluation = "running", GoesOn,
         results' \in FileOf(Result), failed' \subseteq TaskIds,
         breaks' \in 0..MaxBreaks, untraced' \subseteq ConfigNames \X TaskIds,
         LastLineIsThere', OneRecordPerTask', active_slots' \subseteq TaskIds,
         \A t : HasRecord(baseline, t)' => HasRecord(baseline, t) \/ t = task_id,
         \A t : Traces(baseline, t) \/ t = task_id => Traces(baseline, t)',
         SlotsAreSpent'
  PROVE  EvalInv'
<1>1. ~ Done /\ EvalTypeOK
  BY DEF EvalInv, OnATask
<1>2. index' \in 1..Len(EvalTasks) + 1 /\ \A t : Passed(t)' <=> Passed(t) \/ t = task_id
  BY <1>1, PassedNext DEF GoesOn
<1>3. EnergyTypeOK' /\ EnergyInv'
  BY DEF EvalInv, GoesOn, EnergyStop, EnergyTypeOK, EnergyInv, EvalTypeOK
<1>4. EvalTypeOK'
  BY <1>1, <1>2, <1>3 DEF GoesOn, EvalTypeOK
<1>5. OnATask'
  BY DEF GoesOn, OnATask
<1>6. baseline' = baseline
  BY DEF GoesOn, baseline
<1>7. InHarness /\ Accounted /\ Traced
  BY DEF InHarness, EvalInv
<1>8. Accounted'
  BY <1>2, <1>6, <1>7 DEF Accounted
<1>9. Traced'
  BY <1>2, <1>6, <1>7 DEF Traced
<1>10. QED BY <1>3, <1>4, <1>5, <1>8, <1>9 DEF EvalInv

\* A step that leaves the files and the flat cache alone.
LEMMA FilesStay ==
  ASSUME UNCHANGED results
  PROVE  /\ LastLineIsThere' = LastLineIsThere /\ OneRecordPerTask' = OneRecordPerTask
         /\ Recorded(results)' = Recorded(results) /\ Spoiled(results)' = Spoiled(results)
         /\ \A b, t : HasRecord(b, t)' = HasRecord(b, t)
BY DEF LastLineIsThere, OneRecordPerTask, Readable, Recorded, Spoiled, Unreadable, HasRecord, Of

LEMMA InvokeStep == EvalInv /\ Invoke => EvalInv'
<1>1. SUFFICES ASSUME EvalInv, Invoke PROVE EvalInv'
  OBVIOUS
<1>2. LastLineIsThere' /\ OneRecordPerTask'
  BY <1>1, FilesStay DEF EvalInv, Invoke, logVars
<1>3. EvalTypeOK' /\ EnergyInv'
  BY <1>1 DEF EvalInv, EvalTypeOK, EnergyInv, EnergyTypeOK, Invoke, logVars, energyVars
<1>4. OnATask' /\ Accounted' /\ Traced' /\ SlotsAreSpent'
  BY <1>1 DEF Invoke, OnATask, Accounted, Traced, SlotsAreSpent, InHarness
<1>5. QED BY <1>2, <1>3, <1>4 DEF EvalInv

LEMMA BuildStep == EvalInv /\ Build => EvalInv'
<1>1. SUFFICES ASSUME EvalInv, Build PROVE EvalInv'
  OBVIOUS
<1>2. /\ evaluation' = "next" /\ index' = 1 /\ active_slots' = {}
      /\ completed_tasks' = get_completed_tasks
      /\ UNCHANGED <<config, results, failed, breaks, untraced>>
  BY <1>1 DEF Build, logVars
<1>3. /\ LastLineIsThere' /\ OneRecordPerTask'
      /\ Recorded(results)' = Recorded(results)
      /\ \A b, t : HasRecord(b, t)' = HasRecord(b, t)
  BY <1>1, <1>2, FilesStay DEF EvalInv
<1>4. baseline' = baseline /\ get_completed_tasks' = get_completed_tasks
  BY <1>2, <1>3 DEF baseline, get_completed_tasks
<1>5. EnergyTypeOK' /\ EnergyInv'
  <2>1. PICK source \in Sources : EnergyBuild(source)
    BY <1>1 DEF Build
  <2>2. EnergyTypeOK' /\ pollers' = 0 /\ (monitor' = "null" => power_samples' = {})
    BY <2>1, EnergyBuilt
  <2>3. QED BY <2>2, <1>2 DEF EnergyInv
<1>6. EvalTypeOK'
  <2>1. get_completed_tasks \subseteq TaskIds /\ 1 \in 1..Len(EvalTasks) + 1
    BY TasksAreNumbered DEF get_completed_tasks
  <2>2. QED BY <1>1, <1>2, <1>5, <2>1 DEF EvalInv, EvalTypeOK
<1>7. OnATask'
  BY <1>2 DEF OnATask
<1>8. \A t : Passed(t)' <=> t \in get_completed_tasks
  BY <1>2 DEF Passed
<1>9. Accounted' /\ Traced'
  BY <1>3, <1>4, <1>8 DEF Accounted, Traced, Traces, HasRecord, get_completed_tasks
<1>10. SlotsAreSpent'
  BY <1>2, <1>4, FS_EmptySet, EvalAssumption DEF SlotsAreSpent
<1>11. QED BY <1>3, <1>5, <1>6, <1>7, <1>9, <1>10 DEF EvalInv

LEMMA NextConfigStep == EvalInv /\ NextConfig => EvalInv'
<1>1. SUFFICES ASSUME EvalInv, NextConfig PROVE EvalInv'
  OBVIOUS
<1>2. UNCHANGED <<results, failed, breaks, untraced>>
  BY <1>1 DEF NextConfig, logVars
<1>3. LastLineIsThere' /\ OneRecordPerTask'
  BY <1>1, <1>2, FilesStay DEF EvalInv
<1>4. CASE Ended
  BY <1>1, <1>2, <1>3, <1>4, EndedKeeps DEF EvalInv, EvalTypeOK
<1>5. CASE /\ config < Len(Configs)
           /\ config' = config + 1 /\ evaluation' = "build"
           /\ UNCHANGED <<index, completed_tasks, active_slots, energyVars>>
  <2>1. config' \in DOMAIN Configs
    BY <1>1, <1>5, EvalAssumption, LenProperties DEF EvalInv, EvalTypeOK
  <2>2. EvalTypeOK' /\ EnergyInv'
    BY <1>1, <1>2, <1>5, <2>1
    DEF EvalInv, EvalTypeOK, EnergyTypeOK, EnergyInv, energyVars, NextConfig
  <2>3. OnATask' /\ Accounted' /\ Traced' /\ SlotsAreSpent'
    BY <1>5 DEF OnATask, Accounted, Traced, SlotsAreSpent, InHarness
  <2>4. QED BY <1>3, <2>2, <2>3 DEF EvalInv
<1>6. QED BY <1>1, <1>4, <1>5 DEF NextConfig

LEMMA CrashStep == EvalInv /\ Crash => EvalInv'
<1>1. SUFFICES ASSUME EvalInv, Crash PROVE EvalInv'
  OBVIOUS
<1>2. UNCHANGED <<results, failed, untraced>> /\ Ended /\ Break
  BY <1>1 DEF Crash
<1>3. LastLineIsThere' /\ OneRecordPerTask'
  BY <1>1, <1>2, FilesStay DEF EvalInv
<1>4. breaks' \in 0..MaxBreaks
  BY <1>1, <1>2, EvalAssumption DEF Break, EvalInv, EvalTypeOK
<1>5. QED BY <1>1, <1>2, <1>3, <1>4, EndedKeeps DEF EvalInv, EvalTypeOK

LEMMA SkipStep == EvalInv /\ Skip => EvalInv'
<1>1. SUFFICES ASSUME EvalInv, Skip PROVE EvalInv'
  OBVIOUS
<1>2. /\ evaluation = "next" /\ ~ Done /\ task_id \in completed_tasks /\ index' = index + 1
      /\ UNCHANGED <<evaluation, config, completed_tasks, active_slots>>
      /\ UNCHANGED <<results, failed, breaks, untraced, monitor, power_samples, pollers>>
  BY <1>1 DEF Skip, logVars, energyVars
<1>3. /\ LastLineIsThere' /\ OneRecordPerTask'
      /\ Recorded(results)' = Recorded(results) /\ Spoiled(results)' = Spoiled(results)
      /\ \A b, t : HasRecord(b, t)' = HasRecord(b, t)
  BY <1>1, <1>2, FilesStay DEF EvalInv
<1>4. /\ index' \in 1..Len(EvalTasks) + 1
      /\ \A t : Passed(t)' <=> Passed(t)
  BY <1>1, <1>2, PassedNext DEF EvalInv, Passed
<1>5. EvalTypeOK' /\ EnergyInv'
  BY <1>1, <1>2, <1>4 DEF EvalInv, EvalTypeOK, EnergyTypeOK, EnergyInv
<1>6. baseline' = baseline /\ get_completed_tasks' = get_completed_tasks
  BY <1>2, <1>3 DEF baseline, get_completed_tasks
<1>7. \A b, t : Traces(b, t)' = Traces(b, t)
  BY <1>2, <1>3 DEF Traces
<1>8. OnATask' /\ Accounted' /\ Traced'
  BY <1>1, <1>2, <1>3, <1>4, <1>6, <1>7 DEF EvalInv, OnATask, Accounted, Traced, InHarness
<1>9. SlotsAreSpent'
  BY <1>1, <1>2, <1>6 DEF EvalInv, SlotsAreSpent
<1>10. QED BY <1>3, <1>5, <1>8, <1>9 DEF EvalInv

LEMMA BeginStep == EvalInv /\ Begin => EvalInv'
<1>1. SUFFICES ASSUME EvalInv, Begin PROVE EvalInv'
  OBVIOUS
<1>2. /\ evaluation = "next" /\ evaluation' = "running" /\ ~ Done
      /\ task_id \notin completed_tasks
      /\ UNCHANGED <<config, index, completed_tasks, active_slots>>
      /\ UNCHANGED <<results, failed, breaks, untraced>>
  BY <1>1 DEF Begin, logVars
<1>3. /\ LastLineIsThere' /\ OneRecordPerTask'
      /\ Recorded(results)' = Recorded(results) /\ Spoiled(results)' = Spoiled(results)
      /\ \A b, t : HasRecord(b, t)' = HasRecord(b, t)
  BY <1>1, <1>2, FilesStay DEF EvalInv
<1>4. EnergyTypeOK' /\ EnergyInv'
  <2>1. pollers = 0
    BY <1>1, <1>2 DEF EvalInv, EnergyInv, EvalTypeOK, EnergyTypeOK
  <2>2. QED
    BY <1>1, <1>2, <2>1, EnergyStarts DEF EvalInv, EvalTypeOK, EnergyInv, Begin
<1>5. EvalTypeOK'
  BY <1>1, <1>2, <1>4 DEF EvalInv, EvalTypeOK
<1>6. baseline' = baseline /\ get_completed_tasks' = get_completed_tasks
      /\ task_id' = task_id /\ Done' = Done
  BY <1>2, <1>3 DEF baseline, get_completed_tasks, task_id, Done
<1>7. /\ \A b, t : Traces(b, t)' = Traces(b, t)
      /\ \A t : Passed(t)' = Passed(t)
  BY <1>2, <1>3 DEF Traces, Passed
<1>8. OnATask'
  <2>1. ~ Passed(task_id)
    BY <1>1, <1>2, PassedNext DEF EvalInv, Passed
  <2>2. Passed(task_id)' = Passed(task_id)
    BY <1>2, <1>6 DEF Passed
  <2>3. QED BY <1>2, <1>6, <2>1, <2>2 DEF OnATask
<1>9. Accounted' /\ Traced'
  BY <1>1, <1>2, <1>3, <1>6, <1>7 DEF EvalInv, Accounted, Traced, InHarness
<1>10. SlotsAreSpent'
  BY <1>1, <1>2, <1>6 DEF EvalInv, SlotsAreSpent
<1>11. QED BY <1>3, <1>4, <1>5, <1>8, <1>9, <1>10 DEF EvalInv

LEMMA SampleStep == EvalInv /\ Sample => EvalInv'
<1>1. SUFFICES ASSUME EvalInv, Sample PROVE EvalInv'
  OBVIOUS
<1>2. /\ UNCHANGED <<evaluation, config, index, completed_tasks, active_slots>>
      /\ UNCHANGED <<results, failed, breaks, untraced, monitor, pollers>>
      /\ pollers > 0 /\ power_samples' = power_samples \cup {"own"}
  BY <1>1 DEF Sample, Poll, driverVars, logVars
<1>3. /\ LastLineIsThere' /\ OneRecordPerTask'
      /\ Recorded(results)' = Recorded(results) /\ Spoiled(results)' = Spoiled(results)
      /\ \A b, t : HasRecord(b, t)' = HasRecord(b, t)
  BY <1>1, <1>2, FilesStay DEF EvalInv
<1>4. EvalTypeOK' /\ EnergyInv'
  BY <1>1, <1>2 DEF EvalInv, EvalTypeOK, EnergyTypeOK, EnergyInv
<1>5. baseline' = baseline /\ get_completed_tasks' = get_completed_tasks
      /\ task_id' = task_id /\ Done' = Done
  BY <1>2, <1>3 DEF baseline, get_completed_tasks, task_id, Done
<1>6. /\ \A b, t : Traces(b, t)' = Traces(b, t)
      /\ \A t : Passed(t)' = Passed(t)
      /\ Passed(task_id)' = Passed(task_id)
  BY <1>2, <1>3, <1>5 DEF Traces, Passed
<1>7. OnATask' /\ Accounted' /\ Traced'
  BY <1>1, <1>2, <1>3, <1>5, <1>6 DEF EvalInv, OnATask, Accounted, Traced, InHarness
<1>8. SlotsAreSpent'
  BY <1>1, <1>2, <1>5 DEF EvalInv, SlotsAreSpent
<1>9. QED BY <1>3, <1>4, <1>7, <1>8 DEF EvalInv

\* What a write of the record of the task at hand does to the file: the task
\* has no readable record yet, so none is doubled.
LEMMA RecordFacts ==
  ASSUME EvalInv, evaluation = "running", NEW end \in Ends,
         results' = append(results, [baseline |-> baseline, task_id |-> task_id], end)
  PROVE  /\ results' \in FileOf(Result) /\ LastLineIsThere' /\ OneRecordPerTask'
         /\ \A b, t : (\E r \in Recorded(results') : Of(r, b, t))
                         => HasRecord(b, t) \/ (b = baseline /\ t = task_id)
         /\ Recorded(results) \cup Spoiled(results) \subseteq Recorded(results') \cup Spoiled(results')
         /\ end # "nothing" => \E r \in Recorded(results') \cup Spoiled(results') :
                                  Of(r, baseline, task_id)
<1> DEFINE r == [baseline |-> baseline, task_id |-> task_id]
<1>1. EvalTypeOK /\ ~ Done /\ ~ HasRecord(baseline, task_id)
  BY PassedNext DEF EvalInv, OnATask, Accounted, InHarness
<1>2. r \in Result /\ Of(r, baseline, task_id)
  BY <1>1, PassedNext, EvalAssumption DEF Result, EvalTypeOK, baseline, ConfigNames, Of
<1>3. results \in FileOf(Result) /\ (results.open => results.lines # <<>>)
  BY <1>1 DEF EvalTypeOK, EvalInv, LastLineIsThere
<1>4. /\ results' \in FileOf(Result)
      /\ results'.open => results'.lines # <<>>
      /\ \A i \in Readable(results') :
           \/ i \in Readable(results) /\ results'.lines[i] = results.lines[i]
           \/ i = Len(results.lines) + 1 /\ results'.lines[i].recs = {r}
      /\ Recorded(results) \cup Spoiled(results) \subseteq Recorded(results') \cup Spoiled(results')
      /\ end # "nothing" => r \in Recorded(results') \cup Spoiled(results')
      /\ Recorded(results') \subseteq Recorded(results) \cup {r}
  <2> HIDE DEF r
  <2>1. results' = append(results, r, end)
    BY DEF r
  <2>2. LET g == append(results, r, end) IN
        /\ g \in FileOf(Result)
        /\ g.open => g.lines # <<>>
        /\ \A i \in Readable(g) :
             \/ i \in Readable(results) /\ g.lines[i] = results.lines[i]
             \/ i = Len(results.lines) + 1 /\ g.lines[i].recs = {r}
        /\ Recorded(results) \cup Spoiled(results) \subseteq Recorded(g) \cup Spoiled(g)
        /\ end # "nothing" => r \in Recorded(g) \cup Spoiled(g)
        /\ Recorded(g) \subseteq Recorded(results) \cup {r}
    BY <1>2, <1>3, AppendFacts, Zenon
  <2>3. QED BY <2>1, <2>2
<1>5. OneRecordPerTask'
  <2>1. SUFFICES ASSUME NEW i \in Readable(results'), NEW j \in Readable(results'),
                        NEW x \in results'.lines[i].recs, NEW y \in results'.lines[j].recs,
                        Of(y, x.baseline, x.task_id)
                 PROVE  i = j
    BY DEF OneRecordPerTask
  <2> DEFINE Old(k) == k \in Readable(results) /\ results'.lines[k] = results.lines[k]
             New(k) == k = Len(results.lines) + 1 /\ results'.lines[k].recs = {r}
  <2>2. (Old(i) \/ New(i)) /\ (Old(j) \/ New(j))
    BY <1>4, <2>1
  <2>3. CASE New(i) /\ New(j)
    BY <2>3
  <2>4. CASE Old(i) /\ Old(j)
    <3>1. x \in results.lines[i].recs /\ y \in results.lines[j].recs
      BY <2>1, <2>4
    <3>2. QED BY <2>1, <2>4, <3>1 DEF EvalInv, OneRecordPerTask
  <2>5. CASE New(i) /\ Old(j)
    <3>1. y \in Recorded(results) /\ x.baseline = baseline /\ x.task_id = task_id
      BY <2>1, <2>5 DEF Recorded
    <3>2. QED BY <1>1, <2>1, <3>1 DEF HasRecord, Of
  <2>6. CASE Old(i) /\ New(j)
    <3>1. x \in Recorded(results) /\ y = r
      BY <2>1, <2>6 DEF Recorded
    <3>2. Of(x, baseline, task_id)
      BY <2>1, <3>1 DEF Of
    <3>3. QED BY <1>1, <3>1, <3>2 DEF HasRecord
  <2>7. QED BY <2>2, <2>3, <2>4, <2>5, <2>6
<1>6. \A b, t : (\E x \in Recorded(results') : Of(x, b, t))
                   => HasRecord(b, t) \/ (b = baseline /\ t = task_id)
  BY <1>4 DEF HasRecord, Of
<1>7. QED BY <1>2, <1>4, <1>5, <1>6 DEF LastLineIsThere

\* The runner may have saved its key in the flat cache, if there was room.
LEMMA SlotTaken ==
  ASSUME EvalInv, evaluation = "running", active_slots' \in {active_slots, Occupied}
  PROVE  /\ active_slots' \subseteq TaskIds /\ active_slots \subseteq active_slots'
         /\ baseline = FLAT => Cardinality(active_slots') <= max_slots
<1>1. EvalTypeOK /\ task_id \in TaskIds
  BY PassedNext DEF EvalInv, OnATask
<1>2. active_slots' \subseteq TaskIds /\ active_slots \subseteq active_slots'
  BY <1>1 DEF EvalTypeOK, Occupied
<1>3. ASSUME baseline = FLAT PROVE Cardinality(active_slots') <= max_slots
  <2>1. Cardinality(active_slots) <= max_slots
    BY <1>3 DEF EvalInv, SlotsAreSpent
  <2>2. IsFiniteSet(active_slots) /\ Cardinality(active_slots) \in Nat
    BY <1>1, TasksAreFinite, FS_Subset, FS_CardinalityType DEF EvalTypeOK
  <2>3. CASE active_slots' = active_slots
    BY <2>1, <2>3
  <2>4. CASE active_slots' # active_slots
    <3>1. /\ active_slots' = active_slots \cup {task_id} /\ task_id \notin active_slots
          /\ Cardinality(active_slots) < max_slots
      BY <2>4 DEF Occupied, HasRoom
    <3>2. Cardinality(active_slots') = Cardinality(active_slots) + 1
      BY <2>2, <3>1, FS_AddElement
    <3>3. QED BY <2>2, <3>1, <3>2, EvalAssumption
  <2>5. QED BY <2>3, <2>4
<1>4. QED BY <1>2, <1>3

LEMMA RecordStep == EvalInv /\ Record => EvalInv'
<1>1. SUFFICES ASSUME EvalInv, Record PROVE EvalInv'
  OBVIOUS
<1>2. /\ evaluation = "running" /\ (baseline = FLAT => HasRoom)
      /\ failed' \in {failed, failed \cup {task_id}}
  BY <1>1 DEF Record
<1>3. PICK end \in Ends :
        /\ results' = append(results, [baseline |-> baseline, task_id |-> task_id], end)
        /\ untraced' = IF end = "nothing" THEN untraced \cup {<<baseline, task_id>>}
                       ELSE untraced
        /\ IF end = "line" THEN UNCHANGED breaks ELSE Break
        /\ \/ GoesOn /\ active_slots' = Occupied
           \/ end # "line" /\ Ended
  BY <1>1 DEF Record
<1>4. /\ results' \in FileOf(Result) /\ LastLineIsThere' /\ OneRecordPerTask'
      /\ \A b, t : (\E r \in Recorded(results') : Of(r, b, t))
                      => HasRecord(b, t) \/ (b = baseline /\ t = task_id)
      /\ Recorded(results) \cup Spoiled(results) \subseteq Recorded(results') \cup Spoiled(results')
      /\ end # "nothing" => \E r \in Recorded(results') \cup Spoiled(results') :
                               Of(r, baseline, task_id)
  BY <1>1, <1>2, <1>3, RecordFacts
<1>5. EvalTypeOK /\ ~ Done /\ task_id \in TaskIds /\ baseline \in ConfigNames
  BY <1>1, <1>2, PassedNext, EvalAssumption DEF EvalInv, OnATask, EvalTypeOK, baseline, ConfigNames
<1>6. /\ failed' \subseteq TaskIds /\ breaks' \in 0..MaxBreaks
      /\ untraced' \subseteq ConfigNames \X TaskIds
  <2>1. failed' \subseteq TaskIds /\ untraced' \subseteq ConfigNames \X TaskIds
    BY <1>2, <1>3, <1>5 DEF EvalTypeOK
  <2>2. breaks' \in 0..MaxBreaks
    BY <1>3, <1>5, EvalAssumption DEF EvalTypeOK, Break
  <2>3. QED BY <2>1, <2>2
<1>7. CASE Ended
  BY <1>1, <1>4, <1>6, <1>7, EndedKeeps
<1>8. CASE GoesOn /\ active_slots' = Occupied
  <2>1. baseline' = baseline /\ completed_tasks' = completed_tasks
    BY <1>8 DEF GoesOn, baseline
  <2>2. \A t : HasRecord(baseline, t)' => HasRecord(baseline, t) \/ t = task_id
    BY <1>4, <2>1 DEF HasRecord
  <2>3. \A t : Traces(baseline, t) \/ t = task_id => Traces(baseline, t)'
    <3>1. ASSUME NEW t, Traces(baseline, t) PROVE Traces(baseline, t)'
      BY <1>2, <1>3, <1>4, <2>1, <3>1 DEF Traces
    <3>2. ASSUME NEW t, t = task_id PROVE Traces(baseline, t)'
      BY <1>3, <1>4, <2>1, <3>2 DEF Traces
    <3>3. QED BY <3>1, <3>2
  <2>4. /\ active_slots' \subseteq TaskIds /\ active_slots \subseteq active_slots'
        /\ baseline = FLAT => Cardinality(active_slots') <= max_slots
    BY <1>1, <1>2, <1>8, SlotTaken
  <2>5. SlotsAreSpent'
    <3>1. SUFFICES ASSUME baseline = FLAT
                   PROVE  /\ Cardinality(active_slots') <= max_slots
                          /\ \A t \in TaskIds : HasRecord(baseline, t)'
                               => t \in completed_tasks \cup active_slots'
      BY <2>1 DEF SlotsAreSpent, get_completed_tasks
    <3>2. task_id \in active_slots'
      BY <1>2, <1>8, <3>1 DEF Occupied
    <3>3. \A t \in get_completed_tasks : t \in completed_tasks \cup active_slots
      BY <1>1, <1>2, <3>1 DEF EvalInv, SlotsAreSpent
    <3>4. QED BY <2>2, <2>4, <3>1, <3>2, <3>3 DEF get_completed_tasks
  <2>6. QED BY <1>1, <1>2, <1>4, <1>6, <1>8, <2>2, <2>3, <2>4, <2>5, GoesOnKeeps
<1>9. QED BY <1>3, <1>7, <1>8

\* A task that gets no record is in the failure log, or left no trace.
LEMMA LoggedKeeps ==
  ASSUME EvalInv, evaluation = "running", Logged \/ Lost,
         active_slots' \in {active_slots, Occupied},
         UNCHANGED results, breaks' \in 0..MaxBreaks, GoesOn
  PROVE  EvalInv'
<1>1. EvalTypeOK /\ ~ Done /\ task_id \in TaskIds /\ baseline \in ConfigNames
  BY PassedNext, EvalAssumption DEF EvalInv, OnATask, EvalTypeOK, baseline, ConfigNames
<1>2. /\ LastLineIsThere' /\ OneRecordPerTask'
      /\ Recorded(results)' = Recorded(results) /\ Spoiled(results)' = Spoiled(results)
      /\ \A b, t : HasRecord(b, t)' = HasRecord(b, t)
  BY FilesStay DEF EvalInv
<1>3. baseline' = baseline /\ completed_tasks' = completed_tasks
      /\ get_completed_tasks' = get_completed_tasks
  BY <1>2 DEF GoesOn, baseline, get_completed_tasks
<1>4. /\ results' \in FileOf(Result) /\ failed' \subseteq TaskIds
      /\ untraced' \subseteq ConfigNames \X TaskIds
  BY <1>1 DEF EvalTypeOK, Logged, Lost
<1>5. \A t : HasRecord(baseline, t)' => HasRecord(baseline, t) \/ t = task_id
  BY <1>2, <1>3
<1>6. \A t : Traces(baseline, t) \/ t = task_id => Traces(baseline, t)'
  BY <1>2, <1>3 DEF Traces, Logged, Lost
<1>7. /\ active_slots' \subseteq TaskIds /\ active_slots \subseteq active_slots'
      /\ baseline = FLAT => Cardinality(active_slots') <= max_slots
  BY SlotTaken
<1>8. SlotsAreSpent'
  BY <1>3, <1>7 DEF EvalInv, SlotsAreSpent
<1>9. QED BY <1>2, <1>4, <1>5, <1>6, <1>7, <1>8, GoesOnKeeps

LEMMA LimitStep == EvalInv /\ Limit => EvalInv'
<1>1. SUFFICES ASSUME EvalInv, Limit PROVE EvalInv'
  OBVIOUS
<1>2. breaks' \in 0..MaxBreaks
  BY <1>1, EvalAssumption DEF Limit, Break, EvalInv, EvalTypeOK
<1>3. QED BY <1>1, <1>2, LoggedKeeps DEF Limit

\* The runner raises, or something raises that evaluate_task does not catch.
LEMMA ErrorStep == EvalInv /\ (Error \/ Uncaught) => EvalInv'
<1>1. SUFFICES ASSUME EvalInv, Error \/ Uncaught PROVE EvalInv'
  OBVIOUS
<1>2. /\ evaluation = "running" /\ Break /\ (Logged \/ Lost) /\ UNCHANGED results
      /\ (GoesOn /\ active_slots' \in {active_slots, Occupied}) \/ Ended
  BY <1>1 DEF Error, Uncaught, Lost
<1>3. breaks' \in 0..MaxBreaks
  BY <1>1, <1>2, EvalAssumption DEF Break, EvalInv, EvalTypeOK
<1>4. CASE GoesOn /\ active_slots' \in {active_slots, Occupied}
  BY <1>1, <1>2, <1>3, <1>4, LoggedKeeps
<1>5. CASE Ended
  <2>1. LastLineIsThere' /\ OneRecordPerTask'
    BY <1>1, <1>2, FilesStay DEF EvalInv
  <2>2. failed' \subseteq TaskIds /\ untraced' \subseteq ConfigNames \X TaskIds
    <3>1. task_id \in TaskIds /\ baseline \in ConfigNames
      BY <1>1, <1>2, PassedNext, EvalAssumption
      DEF EvalInv, EvalTypeOK, OnATask, baseline, ConfigNames
    <3>2. QED BY <1>1, <1>2, <3>1 DEF EvalInv, EvalTypeOK, Logged, Lost
  <2>3. QED BY <1>1, <1>2, <1>3, <1>5, <2>1, <2>2, EndedKeeps DEF EvalInv, EvalTypeOK
<1>6. QED BY <1>2, <1>4, <1>5

LEMMA EvalStutter == EvalInv /\ UNCHANGED evalVars => EvalInv'
<1>1. SUFFICES ASSUME EvalInv, UNCHANGED evalVars PROVE EvalInv'
  OBVIOUS
<1>2. /\ UNCHANGED <<evaluation, config, index, completed_tasks, active_slots>>
      /\ UNCHANGED <<results, failed, breaks, untraced, monitor, power_samples, pollers>>
  BY <1>1 DEF evalVars, driverVars, logVars, energyVars
<1>3. /\ LastLineIsThere' /\ OneRecordPerTask'
      /\ Recorded(results)' = Recorded(results) /\ Spoiled(results)' = Spoiled(results)
      /\ \A b, t : HasRecord(b, t)' = HasRecord(b, t)
  BY <1>1, <1>2, FilesStay DEF EvalInv
<1>4. EvalTypeOK' /\ EnergyInv'
  BY <1>1, <1>2 DEF EvalInv, EvalTypeOK, EnergyTypeOK, EnergyInv
<1>5. baseline' = baseline /\ get_completed_tasks' = get_completed_tasks
      /\ task_id' = task_id /\ Done' = Done
  BY <1>2, <1>3 DEF baseline, get_completed_tasks, task_id, Done
<1>6. /\ \A b, t : Traces(b, t)' = Traces(b, t)
      /\ \A t : Passed(t)' = Passed(t)
      /\ Passed(task_id)' = Passed(task_id)
  BY <1>2, <1>3, <1>5 DEF Traces, Passed
<1>7. OnATask' /\ Accounted' /\ Traced'
  BY <1>1, <1>2, <1>3, <1>5, <1>6 DEF EvalInv, OnATask, Accounted, Traced, InHarness
<1>8. SlotsAreSpent'
  BY <1>1, <1>2, <1>5 DEF EvalInv, SlotsAreSpent
<1>9. QED BY <1>3, <1>4, <1>7, <1>8 DEF EvalInv

LEMMA EvalInitial == EvalInit => EvalInv
<1>1. SUFFICES ASSUME EvalInit PROVE EvalInv
  OBVIOUS
<1>2. results \in FileOf(Result) /\ Readable(results) = {} /\ LastLineIsThere
  BY <1>1, EmptySeq DEF EvalInit, EmptyFile, FileOf, Readable, LastLineIsThere
<1>3. config \in DOMAIN Configs /\ index \in 1..Len(EvalTasks) + 1
  BY <1>1, EvalAssumption, LenProperties, EmptySeq DEF EvalInit
<1>4. EvalTypeOK /\ EnergyInv
  BY <1>1, <1>2, <1>3, EvalAssumption
  DEF EvalInit, EnergyInit, EvalTypeOK, EnergyTypeOK, EnergyInv
<1>5. OneRecordPerTask
  BY <1>2 DEF OneRecordPerTask
<1>6. OnATask /\ Accounted /\ Traced /\ SlotsAreSpent
  BY <1>1 DEF EvalInit, OnATask, Accounted, Traced, SlotsAreSpent, InHarness
<1>7. QED BY <1>2, <1>4, <1>5, <1>6 DEF EvalInv

----------------------------------------------------------------------------
LEMMA EvalCorrect == Spec => []EvalInv
<1>1. Init => EvalInv
  BY EvalInitial DEF Init
<1>2. EvalInv /\ [Next]_batchVars => EvalInv'
  <2>1. SUFFICES ASSUME EvalInv, [Next]_batchVars PROVE EvalInv'
    OBVIOUS
  <2>2. EvalNext \/ UNCHANGED evalVars
    BY <2>1 DEF Next, Evaluates, Labels, Quiet, batchVars
  <2>3. CASE EvalNext
    BY <2>1, <2>3, InvokeStep, BuildStep, NextConfigStep, CrashStep, SkipStep, BeginStep,
       SampleStep, RecordStep, LimitStep, ErrorStep
    DEF EvalNext
  <2>4. CASE UNCHANGED evalVars
    BY <2>1, <2>4, EvalStutter
  <2>5. QED BY <2>2, <2>3, <2>4
<1>3. QED BY <1>1, <1>2, PTL DEF Spec

\* The driver, its files and the energy monitor keep their types; at most one
\* thread polls the GPU.
THEOREM EvalTypeCorrect == Spec => []EvalTypeOK
<1>1. EvalInv => EvalTypeOK BY DEF EvalInv
<1>2. QED BY <1>1, EvalCorrect, PTL

\* However often the evaluation is interrupted, no task of a configuration has
\* two readable records.
THEOREM ResumeIsExact == Spec => []OneRecordPerTask
<1>1. EvalInv => OneRecordPerTask BY DEF EvalInv
<1>2. QED BY <1>1, EvalCorrect, PTL

\* When the driver is through with a configuration, a task of it without a record
\* or a trace is one whose write failed, or one on which something raised that
\* evaluate_task does not catch, over any number of breaks and restarts.
THEOREM LossesCorrect == Spec => []LossesExplained
<1>1. EvalInv => LossesExplained
  <2>1. SUFFICES ASSUME EvalInv, evaluation = "next", Done, NEW t \in TaskIds
                 PROVE  Traces(baseline, t)
    BY DEF LossesExplained, Traces
  <2>2. index = Len(EvalTasks) + 1
    BY <2>1, TasksAreNumbered DEF Done, EvalInv, EvalTypeOK
  <2>3. PICK i \in DOMAIN EvalTasks : EvalTasks[i] = t
    BY DEF TaskIds
  <2>4. i \in 1..index - 1
    BY <2>2, <2>3, TasksAreNumbered
  <2>5. Passed(t)
    BY <2>3, <2>4 DEF Passed
  <2>6. QED BY <2>1, <2>5 DEF EvalInv, Traced, InHarness
<1>2. QED BY <1>1, EvalCorrect, PTL

\* A task is never charged with energy that was measured outside of it.
THEOREM EnergyCorrect == Spec => []EnergyIsOwn
<1>1. EvalInv => EnergyIsOwn
  <2>1. SUFFICES ASSUME EvalInv, evaluation = "running", NEW joules \in Energies
                 PROVE  joules \subseteq {"own"}
    BY DEF EnergyIsOwn
  <2>2. CASE monitor = "external_meter"
    BY <2>1, <2>2 DEF Energies
  <2>3. CASE monitor = "rapl"
    BY <2>1, <2>3 DEF Energies, EvalInv, EnergyInv
  <2>4. CASE monitor \notin {"external_meter", "rapl"}
    BY <2>1, <2>4 DEF Energies, EvalInv, EnergyInv
  <2>5. QED BY <2>2, <2>3, <2>4
<1>2. QED BY <1>1, EvalCorrect, PTL

\* The flat cache never holds more than its slots, and never gives one back.
THEOREM SlotsCorrect == Spec => []SlotsAreSpent
<1>1. EvalInv => SlotsAreSpent BY DEF EvalInv
<1>2. QED BY <1>1, EvalCorrect, PTL

----------------------------------------------------------------------------
(***************************************************************************)
(* How much of a results file a broken write can take along, for any       *)
(* number of breaks.                                                       *)
(*                                                                         *)
(* A last line without its newline is as good as lost: the next record     *)
(* joins it.  So it is counted with the unreadable lines, and while it     *)
(* lasts, the record that will join it is counted too (DamageInv).         *)
(***************************************************************************)

\* The lines that cannot be read, or will not be once a record joins them.
AtRisk(f) == Unreadable(f) \cup IF f.open THEN {Len(f.lines)} ELSE {}

Endangered(f) == UNION {f.lines[i].recs : i \in AtRisk(f)}

Joining(f) == IF f.open THEN 1 ELSE 0

DamageInv ==
  /\ IsFiniteSet(AtRisk(results)) /\ Cardinality(AtRisk(results)) <= breaks
  /\ IsFiniteSet(Endangered(results))
  /\ Cardinality(Endangered(results)) + Joining(results) <= 2 * breaks

\* A write that comes through endangers at most the record that joins an open
\* line; one that breaks, a line and a record more.
LEMMA AppendRisk ==
  ASSUME NEW Rec, NEW f \in FileOf(Rec), f.open => f.lines # <<>>,
         NEW r \in Rec, NEW end \in Ends \ {"nothing"}
  PROVE  LET g == append(f, r, end) IN
         /\ f.open => AtRisk(g) = AtRisk(f)
         /\ ~ f.open => AtRisk(g) \subseteq AtRisk(f) \cup {Len(f.lines) + 1}
         /\ ~ f.open /\ end = "line" =>
              AtRisk(g) = AtRisk(f) /\ Endangered(g) = Endangered(f)
         /\ Endangered(g) \subseteq Endangered(f) \cup {r}
         /\ g.open = (end # "line")
<1> DEFINE g == append(f, r, end)
           n == Len(f.lines)
           Line == [recs : SUBSET Rec, whole : BOOLEAN]
<1>1. f.lines \in Seq(Line) /\ f.open \in BOOLEAN /\ n \in Nat /\ DOMAIN f.lines = 1..n
  <2>1. f.lines \in Seq(Line) /\ f.open \in BOOLEAN
    BY DEF FileOf
  <2> HIDE DEF Line
  <2>2. QED BY <2>1, LenProperties
<1>2. CASE f.open
  <2> DEFINE new == [recs |-> f.lines[n].recs \cup {r}, whole |-> FALSE]
             ls == [f.lines EXCEPT ![n] = new]
  <2>1. n \in 1..n
    <3> HIDE DEF Line
    <3>1. n # 0 BY <1>1, <1>2, EmptySeq
    <3>2. QED BY <1>1, <3>1
  <2>2. f.lines[n] \in Line /\ new \in Line
    <3>1. f.lines[n] \in Line
      <4> HIDE DEF Line
      <4>1. QED BY <1>1, <2>1
    <3>2. QED BY <3>1
  <2>3. g.lines = ls /\ g.open = (end # "line")
    BY <1>2 DEF append
  <2>4. Len(ls) = n /\ DOMAIN ls = 1..n /\ ls[n] = new
        /\ \A i \in 1..n : i # n => ls[i] = f.lines[i]
    <3> HIDE DEF new, Line
    <3>1. QED BY <1>1, <2>1, <2>2, ExceptSeq, LenProperties
  <2>5. AtRisk(g) = Unreadable(f) \cup {n}
    <3>1. Readable(g) = Readable(f) \ {n}
      BY <1>1, <2>3, <2>4, <2>1 DEF Readable
    <3>2. Unreadable(g) = Unreadable(f) \cup {n}
      BY <1>1, <2>1, <2>3, <2>4, <3>1 DEF Unreadable, Readable
    <3>3. QED BY <2>3, <2>4, <3>2 DEF AtRisk
  <2>6. AtRisk(g) = AtRisk(f)
    BY <1>2, <2>5 DEF AtRisk
  <2>7. Endangered(g) \subseteq Endangered(f) \cup {r}
    <3>1. \A i \in AtRisk(f) : g.lines[i].recs \subseteq f.lines[i].recs \cup {r}
      BY <1>1, <2>1, <2>3, <2>4, <1>2 DEF AtRisk, Unreadable
    <3>2. QED BY <2>6, <3>1 DEF Endangered
  <2>8. QED BY <1>2, <2>3, <2>6, <2>7
<1>3. CASE ~ f.open
  <2> DEFINE new == [recs |-> {r}, whole |-> end # "cut"]
             ls == Append(f.lines, new)
  <2>1. new \in Line /\ new.recs = {r} /\ (end = "line" => new.whole)
    OBVIOUS
  <2>2. g.lines = ls /\ g.open = (end # "line")
    BY <1>3 DEF append
  <2>3. Len(ls) = n + 1 /\ DOMAIN ls = 1..n + 1 /\ ls[n + 1] = new
        /\ \A i \in 1..n : ls[i] = f.lines[i]
    <3> HIDE DEF new, Line
    <3>1. QED BY <1>1, <2>1, AppendProperties, LenProperties
  <2>4. AtRisk(f) = Unreadable(f) /\ Unreadable(f) \subseteq 1..n
    BY <1>1, <1>3 DEF AtRisk, Unreadable
  <2>5. Readable(g) \cap 1..n = Readable(f) /\ (end = "line" => n + 1 \in Readable(g))
    BY <1>1, <2>1, <2>2, <2>3 DEF Readable
  <2>6. Unreadable(f) \subseteq Unreadable(g)
        /\ Unreadable(g) \subseteq Unreadable(f) \cup {n + 1}
        /\ (end = "line" => Unreadable(g) = Unreadable(f))
    BY <1>1, <2>2, <2>3, <2>5 DEF Unreadable
  <2>7. AtRisk(g) \subseteq AtRisk(f) \cup {n + 1} /\ (end = "line" => AtRisk(g) = AtRisk(f))
    BY <2>2, <2>3, <2>4, <2>6 DEF AtRisk
  <2>8. g.lines[n + 1].recs = {r} /\ \A i \in AtRisk(f) : g.lines[i].recs = f.lines[i].recs
    BY <1>1, <2>1, <2>2, <2>3, <2>4
  <2>9. Endangered(g) \subseteq Endangered(f) \cup {r}
    BY <2>7, <2>8 DEF Endangered
  <2>10. end = "line" => Endangered(g) = Endangered(f)
    BY <2>7, <2>8 DEF Endangered
  <2>11. QED BY <1>3, <2>2, <2>7, <2>9, <2>10
<1>4. QED BY <1>1, <1>2, <1>3

LEMMA OneMore ==
  ASSUME NEW S, NEW T, NEW x, IsFiniteSet(S), T \subseteq S \cup {x}
  PROVE  IsFiniteSet(T) /\ Cardinality(T) \in Nat /\ Cardinality(S) \in Nat
         /\ Cardinality(T) <= Cardinality(S) + 1
<1>1. IsFiniteSet(S \cup {x}) /\ Cardinality(S \cup {x}) <= Cardinality(S) + 1
      /\ Cardinality(S) \in Nat
  BY FS_AddElement, FS_CardinalityType
<1>2. QED BY <1>1, FS_Subset, FS_CardinalityType

LEMMA RecordDamage == EvalInv /\ DamageInv /\ Record => DamageInv'
<1>1. SUFFICES ASSUME EvalInv, DamageInv, Record PROVE DamageInv'
  OBVIOUS
<1> DEFINE result == [baseline |-> baseline, task_id |-> task_id]
<1>2. /\ results \in FileOf(Result) /\ (results.open => results.lines # <<>>)
      /\ results.open \in BOOLEAN /\ breaks \in Nat
      /\ evaluation = "running"
  BY <1>1, EvalAssumption DEF EvalInv, EvalTypeOK, LastLineIsThere, FileOf, Record
<1>3. result \in Result
  BY <1>1, <1>2, PassedNext, EvalAssumption
  DEF EvalInv, EvalTypeOK, OnATask, Result, baseline, ConfigNames
<1>4. PICK end \in Ends :
        /\ results' = append(results, result, end)
        /\ IF end = "line" THEN UNCHANGED breaks ELSE Break
  BY <1>1 DEF Record
<1>5. end # "line" => breaks' = breaks + 1
  BY <1>4 DEF Break
<1> HIDE DEF result
<1>6. /\ IsFiniteSet(AtRisk(results)) /\ Cardinality(AtRisk(results)) \in Nat
      /\ IsFiniteSet(Endangered(results)) /\ Cardinality(Endangered(results)) \in Nat
      /\ Cardinality(AtRisk(results)) <= breaks
      /\ Cardinality(Endangered(results)) + Joining(results) <= 2 * breaks
  BY <1>1, FS_CardinalityType DEF DamageInv
<1>7. CASE end = "nothing"
  <2>1. results' = results /\ breaks' = breaks + 1
    BY <1>4, <1>5, <1>7 DEF append
  <2>2. Joining(results) \in Nat
    BY <1>2 DEF Joining
  <2>3. /\ AtRisk(results)' = AtRisk(results) /\ Endangered(results)' = Endangered(results)
        /\ Joining(results)' = Joining(results)
    BY <2>1
  <2>4. QED BY <1>2, <1>6, <2>1, <2>2, <2>3 DEF DamageInv
<1>8. CASE end # "nothing"
  <2>1. /\ results.open => AtRisk(results') = AtRisk(results)
        /\ ~ results.open =>
             AtRisk(results') \subseteq AtRisk(results) \cup {Len(results.lines) + 1}
        /\ ~ results.open /\ end = "line" =>
             AtRisk(results') = AtRisk(results) /\ Endangered(results') = Endangered(results)
        /\ Endangered(results') \subseteq Endangered(results) \cup {result}
        /\ results'.open = (end # "line")
    BY <1>2, <1>3, <1>4, <1>8, AppendRisk
  <2>2. /\ IsFiniteSet(Endangered(results')) /\ Cardinality(Endangered(results')) \in Nat
        /\ Cardinality(Endangered(results')) <= Cardinality(Endangered(results)) + 1
    BY <1>6, <2>1, OneMore
  <2>3. CASE results.open
    <3>1. AtRisk(results') = AtRisk(results)
      BY <2>1, <2>3
    <3>2. Joining(results) = 1 /\ Joining(results') = IF end = "line" THEN 0 ELSE 1
      BY <2>1, <2>3 DEF Joining
    <3>3. breaks' = IF end = "line" THEN breaks ELSE breaks + 1
      BY <1>4, <1>5
    <3>4. Cardinality(AtRisk(results')) <= breaks'
      BY <1>2, <1>6, <3>1, <3>3
    <3>5. Cardinality(Endangered(results')) + Joining(results') <= 2 * breaks'
      BY <1>2, <1>6, <2>2, <3>2, <3>3
    <3>6. QED BY <1>6, <2>2, <3>1, <3>4, <3>5 DEF DamageInv
  <2>4. CASE ~ results.open /\ end = "line"
    BY <1>2, <1>4, <1>6, <2>1, <2>4 DEF DamageInv, Joining
  <2>5. CASE ~ results.open /\ end # "line"
    <3>1. /\ IsFiniteSet(AtRisk(results')) /\ Cardinality(AtRisk(results')) \in Nat
          /\ Cardinality(AtRisk(results')) <= Cardinality(AtRisk(results)) + 1
      <4>1. AtRisk(results') \subseteq AtRisk(results) \cup {Len(results.lines) + 1}
        BY <2>1, <2>5
      <4>2. QED BY <1>6, <4>1, OneMore
    <3>2. QED BY <1>2, <1>5, <1>6, <2>1, <2>2, <2>5, <3>1 DEF DamageInv, Joining
  <2>6. QED BY <2>3, <2>4, <2>5
<1>9. QED BY <1>7, <1>8

\* Whatever else happens leaves the file alone.
LEMMA NoDamage ==
  ASSUME EvalInv, DamageInv, results' = results, breaks' = breaks \/ Break
  PROVE  DamageInv'
<1>1. /\ IsFiniteSet(AtRisk(results)) /\ Cardinality(AtRisk(results)) \in Nat
      /\ IsFiniteSet(Endangered(results)) /\ Cardinality(Endangered(results)) \in Nat
      /\ Cardinality(AtRisk(results)) <= breaks
      /\ Cardinality(Endangered(results)) + Joining(results) <= 2 * breaks
      /\ breaks \in Nat /\ Joining(results) \in Nat
  BY FS_CardinalityType, EvalAssumption DEF DamageInv, EvalInv, EvalTypeOK, FileOf, Joining
<1>2. /\ AtRisk(results)' = AtRisk(results) /\ Endangered(results)' = Endangered(results)
      /\ Joining(results)' = Joining(results)
  OBVIOUS
<1>3. breaks' = breaks \/ breaks' = breaks + 1
  BY DEF Break
<1>4. QED BY <1>1, <1>2, <1>3 DEF DamageInv

LEMMA DamageCorrect == Spec => []DamageInv
<1>1. Init => DamageInv
  <2>1. SUFFICES ASSUME Init PROVE DamageInv
    OBVIOUS
  <2>2. results = EmptyFile /\ breaks = 0
    BY <2>1 DEF Init, EvalInit
  <2>3. AtRisk(results) = {} /\ Endangered(results) = {} /\ Joining(results) = 0
    BY <2>2, EmptySeq DEF EmptyFile, AtRisk, Endangered, Unreadable, Readable, Joining
  <2>4. QED BY <2>2, <2>3, FS_EmptySet DEF DamageInv
<1>2. EvalInv /\ DamageInv /\ [Next]_batchVars => DamageInv'
  <2>1. SUFFICES ASSUME EvalInv, DamageInv, [Next]_batchVars PROVE DamageInv'
    OBVIOUS
  <2>2. EvalNext \/ UNCHANGED evalVars
    BY <2>1 DEF Next, Evaluates, Labels, Quiet, batchVars
  <2>3. CASE Record
    BY <2>1, <2>3, RecordDamage
  <2>4. CASE UNCHANGED evalVars \/ (EvalNext /\ ~ Record)
    <3>1. results' = results /\ (breaks' = breaks \/ Break)
      BY <2>4 DEF evalVars, logVars, EvalNext, Invoke, Build, NextConfig, Crash, Skip, Begin,
                  Sample, Limit, Error, Uncaught
    <3>2. QED BY <2>1, <3>1, NoDamage
  <2>5. QED BY <2>2, <2>3, <2>4
<1>3. QED BY <1>1, <1>2, EvalCorrect, PTL DEF Spec

\* A line is lost only to a write that broke, and takes at most the record
\* before or after it along.
THEOREM DamageStaysLocal == Spec => []DamageIsLocal
<1>1. EvalInv /\ DamageInv => DamageIsLocal
  <2>1. SUFFICES ASSUME EvalInv, DamageInv PROVE DamageIsLocal
    OBVIOUS
  <2>2. Unreadable(results) \subseteq AtRisk(results)
        /\ Spoiled(results) \subseteq Endangered(results)
    BY DEF AtRisk, Endangered, Spoiled
  <2>3. /\ Cardinality(Unreadable(results)) <= Cardinality(AtRisk(results))
        /\ Cardinality(Spoiled(results)) <= Cardinality(Endangered(results))
        /\ Cardinality(Unreadable(results)) \in Nat /\ Cardinality(Spoiled(results)) \in Nat
        /\ Cardinality(AtRisk(results)) \in Nat /\ Cardinality(Endangered(results)) \in Nat
    BY <2>1, <2>2, FS_Subset, FS_CardinalityType DEF DamageInv
  <2>4. breaks \in Nat /\ Joining(results) \in Nat
    BY <2>1, EvalAssumption DEF EvalInv, EvalTypeOK, FileOf, Joining
  <2>5. QED BY <2>1, <2>3, <2>4 DEF DamageInv, DamageIsLocal
<1>2. QED BY <1>1, EvalCorrect, DamageCorrect, PTL

----------------------------------------------------------------------------
(***************************************************************************)
(* What the labelling keeps over all its passes, for any candidates and    *)
(* any number of stops.                                                    *)
(*                                                                         *)
(* That no label is written twice and none is too high needs to be known   *)
(* of the candidates a pass has still in hand: they have no label yet, and *)
(* the tiers they went through could not solve them (Unlabelled,           *)
(* TriedBelow).                                                            *)
(***************************************************************************)

InHand == pending \cup still_pending

\* Candidate i is past tier t in this pass.
IsPast(i, t) ==
  labelling = "rest" \/ t < tier \/ (t = tier /\ i \in still_pending)

LastLabelIsThere == label_file.open => label_file.lines # <<>>

Unlabelled ==
  \A i \in InHand, r \in Recorded(label_file) : r.prompt # Candidates[i]

TriedBelow ==
  \A i \in InHand : \A t \in solves[Candidates[i]] :
    IsPast(i, t) => <<Candidates[i], t>> \in raised

LabelInv ==
  /\ LabelTypeOK /\ LastLabelIsThere
  /\ pending \cap still_pending = {}
  /\ Unlabelled /\ TriedBelow
  /\ OneLabelPerPrompt /\ LabelIsSmallest

----------------------------------------------------------------------------
LEMMA CandidatesAreNumbered ==
  /\ DOMAIN Candidates \subseteq Nat
  /\ \A i \in DOMAIN Candidates : Candidates[i] \in Prompts
  /\ \A i, j \in DOMAIN Candidates : Candidates[i] = Candidates[j] => i = j
BY LabelAssumption, LenProperties DEF Prompts

\* The candidate that is tried is one of those in hand.
LEMMA IdxIsPending ==
  ASSUME pending \subseteq DOMAIN Candidates, pending # {}
  PROVE  idx \in pending
<1>1. pending \subseteq Nat
  BY CandidatesAreNumbered
<1>2. \E i \in pending : \A j \in pending : i <= j
  <2>1. PICK i \in pending : \A j \in pending : <<j, i>> \notin OpToRel(<, Nat)
    BY <1>1, WFMin, NatLessThanWellFounded, Zenon
  <2>2. \A j \in pending : ~ (j < i)
    BY <1>1, <2>1, Zenon DEF OpToRel
  <2>3. QED BY <1>1, <2>2
<1>3. QED BY <1>2 DEF idx

LEMMA TiersAreThree == TierNumbers = 1..3 /\ Len(TIER_ORDER) = 3
BY DEF TierNumbers, TIER_ORDER

\* A pass that ends has nothing in hand.
LEMMA PassEndsKeeps ==
  ASSUME LabelInv, PassEnds, UNCHANGED <<label_file, solves>>,
         stops' \in 0..MaxStops, raised' = raised
  PROVE  LabelInv'
<1>1. LabelTypeOK'
  BY TiersAreThree DEF LabelInv, LabelTypeOK, PassEnds
<1>2. LastLabelIsThere' /\ OneLabelPerPrompt' /\ LabelIsSmallest'
  BY DEF LabelInv, LastLabelIsThere, OneLabelPerPrompt, LabelIsSmallest, Recorded, Readable
<1>3. pending' = {} /\ still_pending' = {} /\ InHand' = {}
  BY DEF PassEnds, InHand
<1>4. (pending \cap still_pending = {})' /\ Unlabelled' /\ TriedBelow'
  BY <1>3 DEF Unlabelled, TriedBelow
<1>5. QED BY <1>1, <1>2, <1>4 DEF LabelInv

\* A label that is right, of a prompt in hand, keeps the invariant, however far
\* its write comes.
LEMMA WriteKeeps ==
  ASSUME LabelInv, pending # {}, labelling # "off",
         NEW t \in TierNumbers \cup {Unsolved},
         t = Unsolved \/ t \in solves[cand],
         \A s \in solves[cand] : t = Unsolved \/ s < t => <<cand, s>> \in raised,
         Write(t), UNCHANGED <<solves, raised>>
  PROVE  LabelInv'
<1> DEFINE label == [prompt |-> cand, tier |-> t]
<1>1. /\ LabelTypeOK /\ LastLabelIsThere /\ Unlabelled /\ TriedBelow
      /\ OneLabelPerPrompt /\ LabelIsSmallest
      /\ pending \cap still_pending = {}
  BY DEF LabelInv
<1>2. idx \in pending /\ idx \in DOMAIN Candidates /\ cand \in Prompts
  BY <1>1, IdxIsPending, CandidatesAreNumbered DEF LabelTypeOK, cand
<1>3. label \in Label /\ label.prompt = cand /\ label.tier = t
  BY <1>2 DEF Label
<1>4. PICK end \in Ends :
        /\ label_file' = append(label_file, label, end)
        /\ \/ /\ end = "line"
              /\ pending' = pending \ {idx}
              /\ UNCHANGED <<labelling, tier, still_pending, stops>>
           \/ end # "line" /\ Stop /\ PassEnds
  BY DEF Write
<1>5. /\ label_file' \in FileOf(Label)
      /\ label_file'.open => label_file'.lines # <<>>
      /\ \A i \in Readable(label_file') :
           \/ i \in Readable(label_file) /\ label_file'.lines[i] = label_file.lines[i]
           \/ i = Len(label_file.lines) + 1 /\ label_file'.lines[i].recs = {label}
      /\ Recorded(label_file') \subseteq Recorded(label_file) \cup {label}
  <2> HIDE DEF label
  <2>1. label_file \in FileOf(Label) /\ (label_file.open => label_file.lines # <<>>)
    BY <1>1 DEF LabelTypeOK, LastLabelIsThere
  <2>2. QED BY <1>3, <1>4, <2>1, AppendFacts
<1>6. \A r \in Recorded(label_file) : r.prompt # cand
  BY <1>1, <1>2 DEF Unlabelled, InHand, cand
<1>7. OneLabelPerPrompt'
  <2>1. SUFFICES ASSUME NEW i \in Readable(label_file'), NEW j \in Readable(label_file'),
                        NEW r \in label_file'.lines[i].recs,
                        NEW s \in label_file'.lines[j].recs,
                        r.prompt = s.prompt
                 PROVE  i = j
    BY DEF OneLabelPerPrompt
  <2>2. CASE i \in Readable(label_file) /\ j \in Readable(label_file)
    <3>1. CASE label_file'.lines[i] = label_file.lines[i]
               /\ label_file'.lines[j] = label_file.lines[j]
      BY <1>1, <2>1, <2>2, <3>1 DEF OneLabelPerPrompt
    <3>2. QED BY <1>1, <1>5, <2>2, <3>1 DEF Readable, LabelTypeOK, FileOf
  <2>3. CASE i \notin Readable(label_file) /\ j \in Readable(label_file)
    <3>1. r = label
      BY <1>5, <2>3
    <3>2. CASE j = Len(label_file.lines) + 1
      BY <1>5, <2>3, <3>2
    <3>3. CASE label_file'.lines[j] = label_file.lines[j]
      <4>1. s \in Recorded(label_file)
        BY <2>1, <2>3, <3>3 DEF Recorded
      <4>2. QED BY <1>3, <1>6, <2>1, <3>1, <4>1
    <3>4. QED BY <1>5, <3>2, <3>3
  <2>4. CASE i \in Readable(label_file) /\ j \notin Readable(label_file)
    <3>1. s = label
      BY <1>5, <2>4
    <3>2. CASE i = Len(label_file.lines) + 1
      BY <1>5, <2>4, <3>2
    <3>3. CASE label_file'.lines[i] = label_file.lines[i]
      <4>1. r \in Recorded(label_file)
        BY <2>1, <2>4, <3>3 DEF Recorded
      <4>2. QED BY <1>3, <1>6, <2>1, <3>1, <4>1
    <3>4. QED BY <1>5, <3>2, <3>3
  <2>5. CASE i \notin Readable(label_file) /\ j \notin Readable(label_file)
    BY <1>5, <2>5
  <2>6. QED BY <2>2, <2>3, <2>4, <2>5
<1>8. LabelIsSmallest'
  <2>1. SUFFICES ASSUME NEW r \in Recorded(label_file')
                 PROVE  /\ r.tier = Unsolved \/ r.tier \in solves[r.prompt]
                        /\ \A s \in solves[r.prompt] :
                             r.tier = Unsolved \/ s < r.tier => <<r.prompt, s>> \in raised
    BY DEF LabelIsSmallest
  <2>2. CASE r \in Recorded(label_file)
    BY <1>1, <2>2 DEF LabelIsSmallest
  <2>3. CASE r = label
    BY <1>3, <2>3
  <2>4. QED BY <1>5, <2>2, <2>3
<1>9. CASE end = "line"
  <2>1. /\ pending' = pending \ {idx}
        /\ UNCHANGED <<labelling, tier, still_pending, stops, solves, raised>>
    BY <1>4, <1>9
  <2>2. LabelTypeOK'
    BY <1>1, <1>5, <2>1 DEF LabelTypeOK
  <2>3. InHand' \subseteq InHand \ {idx} /\ (pending \cap still_pending = {})'
    BY <1>1, <1>2, <2>1 DEF InHand
  <2>4. Unlabelled'
    <3>1. SUFFICES ASSUME NEW i \in InHand', NEW r \in Recorded(label_file')
                   PROVE  r.prompt # Candidates[i]
      BY DEF Unlabelled
    <3>2. i \in InHand /\ i # idx /\ i \in DOMAIN Candidates
      BY <1>1, <2>3 DEF LabelTypeOK, InHand
    <3>3. Candidates[i] # cand
      BY <1>2, <3>2, CandidatesAreNumbered DEF cand
    <3>4. QED BY <1>1, <1>3, <1>5, <3>2, <3>3 DEF Unlabelled
  <2>5. TriedBelow'
    BY <1>1, <2>1, <2>3 DEF TriedBelow, IsPast
  <2>6. QED BY <1>5, <1>7, <1>8, <2>2, <2>3, <2>4, <2>5 DEF LabelInv, LastLabelIsThere
<1>10. CASE Stop /\ PassEnds
  <2>1. LabelTypeOK'
    BY <1>1, <1>5, <1>10, TiersAreThree, LabelAssumption DEF LabelTypeOK, PassEnds, Stop
  <2>2. InHand' = {} /\ (pending \cap still_pending = {})'
    BY <1>10 DEF PassEnds, InHand
  <2>3. Unlabelled' /\ TriedBelow'
    BY <2>2 DEF Unlabelled, TriedBelow
  <2>4. QED BY <1>5, <1>7, <1>8, <2>1, <2>2, <2>3 DEF LabelInv, LastLabelIsThere
<1>11. QED BY <1>4, <1>9, <1>10

----------------------------------------------------------------------------
(* The steps of a pass.                                                    *)

LEMMA StartPassStep == LabelInv /\ StartPass => LabelInv'
<1>1. SUFFICES ASSUME LabelInv, StartPass PROVE LabelInv'
  OBVIOUS
<1>2. /\ labelling' = "pass" /\ tier' = 1
      /\ pending' = remaining /\ still_pending' = {}
      /\ UNCHANGED <<label_file, solves, stops, raised>>
  BY <1>1 DEF StartPass
<1>3. remaining \subseteq DOMAIN Candidates /\ InHand' = remaining
  BY <1>2 DEF remaining, InHand
<1>4. LabelTypeOK'
  BY <1>1, <1>2, <1>3, TiersAreThree DEF LabelInv, LabelTypeOK
<1>5. LastLabelIsThere' /\ OneLabelPerPrompt' /\ LabelIsSmallest'
      /\ Recorded(label_file)' = Recorded(label_file)
  BY <1>1, <1>2
  DEF LabelInv, LastLabelIsThere, OneLabelPerPrompt, LabelIsSmallest, Recorded, Readable
<1>6. Unlabelled'
  BY <1>3, <1>5 DEF Unlabelled, remaining
<1>7. TriedBelow'
  <2>1. SUFFICES ASSUME NEW i \in InHand', NEW t \in solves[Candidates[i]], IsPast(i, t)'
                 PROVE  <<Candidates[i], t>> \in raised
    BY <1>2 DEF TriedBelow
  <2>2. t \in 1..3
    BY <1>1, <1>3, <2>1, CandidatesAreNumbered, TiersAreThree DEF LabelInv, LabelTypeOK
  <2>3. QED BY <1>2, <2>1, <2>2 DEF IsPast
<1>8. QED BY <1>2, <1>4, <1>5, <1>6, <1>7 DEF LabelInv

LEMMA SolvedStep == LabelInv /\ Solved => LabelInv'
<1>1. SUFFICES ASSUME LabelInv, Solved PROVE LabelInv'
  OBVIOUS
<1>2. /\ labelling = "pass" /\ pending # {} /\ tier \in solves[cand]
      /\ Write(tier) /\ UNCHANGED <<solves, raised>>
  BY <1>1 DEF Solved
<1>3. idx \in InHand /\ tier \in TierNumbers
  BY <1>1, <1>2, IdxIsPending DEF LabelInv, LabelTypeOK, InHand
<1>4. \A s \in solves[cand] : s < tier => <<cand, s>> \in raised
  BY <1>1, <1>3 DEF LabelInv, TriedBelow, IsPast, cand
<1>5. tier # Unsolved
  BY <1>3, TiersAreThree DEF Unsolved
<1>6. QED BY <1>1, <1>2, <1>3, <1>4, <1>5, WriteKeeps

LEMMA NotSolvedStep == LabelInv /\ NotSolved => LabelInv'
<1>1. SUFFICES ASSUME LabelInv, NotSolved PROVE LabelInv'
  OBVIOUS
<1>2. /\ labelling = "pass" /\ pending # {}
      /\ \/ tier \notin solves[cand] /\ UNCHANGED <<stops, raised>>
         \/ Stop /\ raised' = raised \cup {<<cand, tier>>}
      /\ still_pending' = still_pending \cup {idx} /\ pending' = pending \ {idx}
      /\ UNCHANGED <<label_file, solves, labelling, tier>>
  BY <1>1 DEF NotSolved
<1>3. idx \in pending /\ idx \in DOMAIN Candidates /\ cand \in Prompts
  BY <1>1, <1>2, IdxIsPending, CandidatesAreNumbered DEF LabelInv, LabelTypeOK, cand
<1>4. InHand' = InHand /\ (pending \cap still_pending = {})' /\ raised \subseteq raised'
  BY <1>1, <1>2, <1>3 DEF LabelInv, InHand
<1>5. LabelTypeOK'
  <2>1. stops' \in 0..MaxStops
    BY <1>1, <1>2, LabelAssumption DEF LabelInv, LabelTypeOK, Stop
  <2>2. raised' \subseteq Prompts \X TierNumbers
    BY <1>1, <1>2, <1>3 DEF LabelInv, LabelTypeOK
  <2>3. QED BY <1>1, <1>2, <1>3, <2>1, <2>2 DEF LabelInv, LabelTypeOK
<1>6. LastLabelIsThere' /\ OneLabelPerPrompt' /\ Recorded(label_file)' = Recorded(label_file)
  BY <1>1, <1>2
  DEF LabelInv, LastLabelIsThere, OneLabelPerPrompt, Recorded, Readable
<1>7. LabelIsSmallest'
  BY <1>1, <1>2, <1>4, <1>6 DEF LabelInv, LabelIsSmallest
<1>8. Unlabelled'
  BY <1>1, <1>4, <1>6 DEF LabelInv, Unlabelled
<1>9. TriedBelow'
  <2>1. SUFFICES ASSUME NEW i \in InHand, NEW t \in solves[Candidates[i]], IsPast(i, t)'
                 PROVE  <<Candidates[i], t>> \in raised'
    BY <1>2, <1>4 DEF TriedBelow
  <2>2. CASE IsPast(i, t)
    BY <1>1, <1>4, <2>1, <2>2 DEF LabelInv, TriedBelow
  <2>3. CASE i = idx /\ t = tier
    BY <1>2, <2>1, <2>3 DEF cand
  <2>4. QED BY <1>2, <2>1, <2>2, <2>3 DEF IsPast
<1>10. QED BY <1>4, <1>5, <1>6, <1>7, <1>8, <1>9 DEF LabelInv

LEMMA NextTierStep == LabelInv /\ NextTier => LabelInv'
<1>1. SUFFICES ASSUME LabelInv, NextTier PROVE LabelInv'
  OBVIOUS
<1>2. UNCHANGED <<label_file, solves, stops, raised>>
  BY <1>1 DEF NextTier
<1>3. CASE PassEnds
  BY <1>1, <1>2, <1>3, PassEndsKeeps DEF LabelInv, LabelTypeOK
<1>4. CASE /\ pending' = still_pending /\ still_pending' = {}
           /\ IF tier = Len(TIER_ORDER)
              THEN labelling' = "rest" /\ UNCHANGED tier
              ELSE tier' = tier + 1 /\ UNCHANGED labelling
  <2>1. InHand' = still_pending /\ still_pending \subseteq InHand
    BY <1>4 DEF InHand
  <2>2. tier \in 1..3 /\ tier' \in 1..3
    BY <1>1, <1>4, TiersAreThree DEF LabelInv, LabelTypeOK
  <2>3. LabelTypeOK'
    BY <1>1, <1>2, <1>4, <2>2, TiersAreThree DEF LabelInv, LabelTypeOK
  <2>4. LastLabelIsThere' /\ OneLabelPerPrompt' /\ LabelIsSmallest'
        /\ Recorded(label_file)' = Recorded(label_file)
    BY <1>1, <1>2
    DEF LabelInv, LastLabelIsThere, OneLabelPerPrompt, LabelIsSmallest, Recorded, Readable
  <2>5. Unlabelled'
    BY <1>1, <2>1, <2>4 DEF LabelInv, Unlabelled
  <2>6. TriedBelow'
    <3>1. SUFFICES ASSUME NEW i \in still_pending, NEW t \in solves[Candidates[i]],
                          IsPast(i, t)'
                   PROVE  <<Candidates[i], t>> \in raised
      BY <1>2, <2>1 DEF TriedBelow
    <3>2. t \in 1..3
      BY <1>1, <3>1, CandidatesAreNumbered, TiersAreThree DEF LabelInv, LabelTypeOK
    <3>3. IsPast(i, t)
      BY <1>4, <2>2, <3>1, <3>2, TiersAreThree DEF IsPast
    <3>4. QED BY <1>1, <2>1, <3>1, <3>3 DEF LabelInv, TriedBelow
  <2>7. QED BY <1>4, <2>3, <2>4, <2>5, <2>6 DEF LabelInv
<1>5. QED BY <1>1, <1>3, <1>4 DEF NextTier

LEMMA RecordUnsolvedStep == LabelInv /\ RecordUnsolved => LabelInv'
<1>1. SUFFICES ASSUME LabelInv, RecordUnsolved PROVE LabelInv'
  OBVIOUS
<1>2. /\ labelling = "rest" /\ pending # {}
      /\ Write(Unsolved) /\ UNCHANGED <<solves, raised>>
  BY <1>1 DEF RecordUnsolved
<1>3. idx \in InHand
  BY <1>1, <1>2, IdxIsPending DEF LabelInv, LabelTypeOK, InHand
<1>4. \A s \in solves[cand] : <<cand, s>> \in raised
  BY <1>1, <1>2, <1>3 DEF LabelInv, TriedBelow, IsPast, cand
<1>5. QED BY <1>1, <1>2, <1>4, WriteKeeps

LEMMA FinishPassStep == LabelInv /\ FinishPass => LabelInv'
BY PassEndsKeeps DEF FinishPass, LabelInv, LabelTypeOK

LEMMA KilledStep == LabelInv /\ Killed => LabelInv'
<1>1. SUFFICES ASSUME LabelInv, Killed PROVE LabelInv'
  OBVIOUS
<1>2. stops' \in 0..MaxStops
  BY <1>1, LabelAssumption DEF Killed, Stop, LabelInv, LabelTypeOK
<1>3. QED BY <1>1, <1>2, PassEndsKeeps DEF Killed

LEMMA LabelStutter == LabelInv /\ UNCHANGED labelVars => LabelInv'
<1>1. SUFFICES ASSUME LabelInv, UNCHANGED labelVars PROVE LabelInv'
  OBVIOUS
<1>2. UNCHANGED <<label_file, solves, labelling, tier, pending, still_pending, stops, raised>>
  BY <1>1 DEF labelVars
<1>3. LabelTypeOK' /\ InHand' = InHand /\ Recorded(label_file)' = Recorded(label_file)
  BY <1>1, <1>2 DEF LabelInv, LabelTypeOK, InHand, Recorded, Readable
<1>4. LastLabelIsThere' /\ OneLabelPerPrompt' /\ LabelIsSmallest'
  BY <1>1, <1>2, <1>3
  DEF LabelInv, LastLabelIsThere, OneLabelPerPrompt, LabelIsSmallest, Readable
<1>5. Unlabelled' /\ TriedBelow'
  BY <1>1, <1>2, <1>3 DEF LabelInv, Unlabelled, TriedBelow, IsPast
<1>6. QED BY <1>1, <1>2, <1>3, <1>4, <1>5 DEF LabelInv

LEMMA LabelInitial == LabelInit => LabelInv
<1>1. SUFFICES ASSUME LabelInit PROVE LabelInv
  OBVIOUS
<1>2. label_file \in FileOf(Label) /\ Readable(label_file) = {} /\ LastLabelIsThere
  BY <1>1, EmptySeq DEF LabelInit, EmptyFile, FileOf, Readable, LastLabelIsThere
<1>3. LabelTypeOK
  BY <1>1, <1>2, TiersAreThree, LabelAssumption DEF LabelInit, LabelTypeOK
<1>4. OneLabelPerPrompt /\ LabelIsSmallest
  BY <1>2 DEF OneLabelPerPrompt, LabelIsSmallest, Recorded
<1>5. QED BY <1>1, <1>2, <1>3, <1>4
  DEF LabelInit, LabelInv, InHand, Unlabelled, TriedBelow

----------------------------------------------------------------------------
LEMMA LabelCorrect == Spec => []LabelInv
<1>1. Init => LabelInv
  BY LabelInitial DEF Init
<1>2. LabelInv /\ [Next]_batchVars => LabelInv'
  <2>1. SUFFICES ASSUME LabelInv, [Next]_batchVars PROVE LabelInv'
    OBVIOUS
  <2>2. LabelNext \/ UNCHANGED labelVars
    BY <2>1 DEF Next, Evaluates, Labels, Quiet, batchVars
  <2>3. CASE LabelNext
    BY <2>1, <2>3, StartPassStep, SolvedStep, NotSolvedStep, NextTierStep,
       RecordUnsolvedStep, FinishPassStep, KilledStep
    DEF LabelNext
  <2>4. CASE UNCHANGED labelVars
    BY <2>1, <2>4, LabelStutter
  <2>5. QED BY <2>2, <2>3, <2>4
<1>3. QED BY <1>1, <1>2, PTL DEF Spec

\* Both programs keep their types over all restarts.
THEOREM BatchTypeCorrect == Spec => []BatchTypeOK
<1> DEFINE Program == program \in {"run_evaluation", "build_capability_labels"}
<1>1. Init => Program
  BY DEF Init
<1>2. Program /\ [Next]_batchVars => Program'
  BY DEF Next, batchVars
<1>3. Program /\ EvalInv /\ LabelInv => BatchTypeOK
  BY DEF EvalInv, LabelInv, BatchTypeOK
<1>4. QED BY <1>1, <1>2, <1>3, EvalCorrect, LabelCorrect, PTL DEF Spec

\* However often the labelling is interrupted, no prompt has two labels.
THEOREM LabelledOnce == Spec => []OneLabelPerPrompt
<1>1. LabelInv => OneLabelPerPrompt BY DEF LabelInv
<1>2. QED BY <1>1, LabelCorrect, PTL

\* No label is too high, but for a decoder that raised.
THEOREM LabelledLow == Spec => []LabelIsSmallest
<1>1. LabelInv => LabelIsSmallest BY DEF LabelInv
<1>2. QED BY <1>1, LabelCorrect, PTL

=============================================================================
