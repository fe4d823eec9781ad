CONSTANTS
  r1 = r1
  master = master
  harness = harness
  latest = latest
  Own = Own
  Candidates = {1, 2}
  Repos = {r1}
  Sources = {master, harness}
  Fixed = {latest}
  Job <- WholeRelease
  Freeze = TRUE
  MaxCommits = 2
SPECIFICATION Spec
CHECK_DEADLOCK FALSE
INVARIANTS
  SameCommit
  FinalIsTagged
