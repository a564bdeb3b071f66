--------------------------- MODULE EnergyMonitor ---------------------------
(***************************************************************************)
(* The energy backends (energy.py): what a monitor holds when the harness  *)
(* asks for the energy of a task.  Samples are told apart by when they     *)
(* were taken: "own", in the window of the task that is being evaluated,   *)
(* or "stale", before it.                                                  *)
(***************************************************************************)
EXTENDS Sequences, Naturals

CONSTANTS
  Devices,   \* what this host can be measured with
  Sources    \* the values of --energy-source that are used

Backends == {"external_meter", "nvidia_smi", "rapl"}

ASSUME EnergyAssumption ==
  /\ Devices \subseteq Backends
  /\ Sources \subseteq Backends \cup {"auto", "none"}

VARIABLES
  monitor,         \* the backend of this harness; "null" when it cannot measure
  power_samples,   \* the samples it would integrate
  pollers          \* its threads that poll nvidia-smi

energyVars == <<monitor, power_samples, pollers>>

EnergyTypeOK ==
  /\ monitor \in Backends \cup {"null"}
  /\ power_samples \subseteq {"own", "stale"}
  /\ pollers \in 0..1

EnergyInit == monitor = "null" /\ power_samples = {} /\ pollers = 0

\* The process ends, and its threads with it.
EnergyEnd == monitor' = "null" /\ power_samples' = {} /\ pollers' = 0

\* "auto" takes an external meter before GPU sampling before RAPL; a backend
\* that was asked for and is not available is built and never measures.
build_energy_monitor(source) ==
  LET usable == (IF source = "auto" THEN Backends ELSE {source}) \cap Devices
  IN  CASE "external_meter" \in usable -> "external_meter"
        [] "external_meter" \notin usable /\ "nvidia_smi" \in usable -> "nvidia_smi"
        [] usable = {"rapl"} -> "rapl"
        [] OTHER -> "null"

\* The CSV of an external meter is read when the monitor is built and, as
\* nobody calls reload(), never again: all of it is older than any task.
EnergyBuild(source) ==
  /\ monitor' = build_energy_monitor(source)
  /\ power_samples' \in IF monitor' = "external_meter" THEN {{}, {"stale"}} ELSE {{}}
  /\ pollers' = 0

\* Mutant: the samples of the task before are kept.
EnergyStartKeeps ==
  /\ power_samples' \in
       CASE monitor = "rapl" -> {{"own"}, {}}
         [] OTHER -> {power_samples}
  /\ pollers' = IF monitor = "nvidia_smi" THEN pollers + 1 ELSE pollers
  /\ UNCHANGED monitor

\* nvidia_smi forgets its samples and starts a thread.
NvidiaStart == power_samples' = {} /\ pollers' = pollers + 1

\* rapl reads its counter, which may fail.
RaplStart == power_samples' \in {{"own"}, {}} /\ UNCHANGED pollers

\* The meter notes the time, and what cannot measure does nothing.
MeterStart == UNCHANGED <<power_samples, pollers>>

EnergyStart ==
  /\ CASE monitor = "nvidia_smi" -> NvidiaStart
       [] monitor = "rapl" -> RaplStart
       [] OTHER -> MeterStart
  /\ UNCHANGED monitor

\* A poll that nvidia-smi answers in time.
Poll ==
  /\ pollers > 0
  /\ power_samples' = power_samples \cup {"own"}
  /\ UNCHANGED <<monitor, pollers>>

\* The samples stop() integrates, {} when it reports None: the meter's outside
\* the window are left out; RAPL's counter may wrap or be unreadable.
Energies ==
  CASE monitor = "external_meter" -> {power_samples \cap {"own"}}
    [] monitor = "rapl" -> {power_samples, {}}
    [] OTHER -> {power_samples}

\* Mutant: stop() is called for answers only, and the thread goes on.
EnergyStopNever ==
  /\ power_samples' = IF power_samples = {} THEN {} ELSE {"stale"}
  /\ UNCHANGED <<monitor, pollers>>

\* stop() joins the thread; from then on the samples are those of a past task.
EnergyStop ==
  /\ pollers' = 0
  /\ power_samples' = IF power_samples = {} THEN {} ELSE {"stale"}
  /\ UNCHANGED monitor

=============================================================================
