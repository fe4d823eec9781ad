CONSTANTS
  r1 = r1
  master = master
  harness = harness
  latest = latest
  Own = Own
  Candidates = {1}
  Repos = {r1}
  Sources = {master}
  Fixed = {latest}
  Job <- Race
  Freeze = FALSE
  MaxCommits = 2
SPECIFICATION Spec
INVARIANTS
  GitTagIsTruthful
  WaitedForImages
