SPECIFICATION Spec
CONSTANTS
  N = 2
  Odd = {1}
  MaxActs = 4
  MaxJobs = 2
INVARIANT EditorShows
CHECK_DEADLOCK FALSE
