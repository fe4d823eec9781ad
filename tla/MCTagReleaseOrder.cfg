CONSTANTS
  r1 = r1
  master = master
  harness = harness
  latest = latest
  Own = Own
  Candidates = {9, 10}
  Repos = {r1}
  Sources = {master}
  Fixed = {latest}
  Job <- TenCandidates
  Freeze = FALSE
  MaxCommits = 1
SPECIFICATION Spec
INVARIANTS
  MostRecentIsLast
