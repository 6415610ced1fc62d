\* Two locations, two configurations of each, three process objects (one more
\* than the locations: a restart whose old watch goroutine is late), two faults.
SPECIFICATION RunnerSpec
CONSTANTS
  Locations = {l1, l2}
  Configs = {c1, c2}
  Procs = {p1, p2, p3}
  None = None
  MaxFaults = 2
SYMMETRY Symmetry
INVARIANTS
  RunnerTypeOK
  NoLostProcess
  LiveHasResources
  StopLeavesNothing
