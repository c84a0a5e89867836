CONSTANTS
  Core = {0, 1, 2}
  Calls = 7
  ncpus = 3
  Inputs <- MCInputs
SPECIFICATION Spec
INVARIANT OutputIsSorted
