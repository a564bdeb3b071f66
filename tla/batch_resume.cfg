SPECIFICATION FairSpec
CONSTANTS
  Configs <- TwoConfigs
  EvalTasks <- ThreeTasks
  FLAT = "flat_cache"
  max_slots = 2
  MaxBreaks = 2
  Devices = {"nvidia_smi", "rapl", "external_meter"}
  Sources = {"auto", "nvidia_smi", "rapl", "none"}
  Candidates <- TwoCandidates
  MaxStops = 2
INVARIANTS BatchTypeOK OneRecordPerTask DamageIsLocal LossesExplained EnergyIsOwn SlotsAreSpent
  OneLabelPerPrompt LabelIsSmallest
PROPERTIES EverythingIsRecorded EverythingIsLabelled
