CONSTANTS
  ncore_ = 3
  Nsplit = 3
  Emits <- MCEmits
  Hash <- MCHash
  NTasks = {1, 2}
  sample_percent = 5
  Runs = 2
SPECIFICATION FairSpec
INVARIANTS WorksOnCurrentTask PhaseComplete ResultsExact TasksDistinct
PROPERTIES RunsReturn
