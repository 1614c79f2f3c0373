CONSTANTS
  ra = ra  rb = rb  rc = rc  rd = rd  re = re  rf = rf
  arr = arr  q = q  s0 = s0  s1 = s1  u = u
  NULL = NULL
  Workers = {w1, w2}
  Tokens = {k1, k2, k3, k4}
  BinLimit = 1
  Capacity = 1
  Ports <- MCPorts
  Channel <- MCChannel
  Destinations <- MCDestinations
  Reactions <- MCReactions
  Level <- MCLevel
  Outputs <- MCOutputs
  Readers <- MCReaders
  Visits <- MCVisits
  LastEnabling <- MCLastEnabling
  Before <- MCBefore
  Timed = {ra, rb}
  Deadlines = {rd, re}
  Handlers = {rd}
  Mutable <- TwoMutable
  MaxWrites <- MCMaxWrites
  MaxTags = 2
SYMMETRY Symmetry
SPECIFICATION Spec
INVARIANT CopiesPrivate
