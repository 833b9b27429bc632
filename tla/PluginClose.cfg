SPECIFICATION PluginSpec
CONSTANTS
  Starters = {s1, s2}
  Stoppers = {t1, t2}
  PluginCalls = {k1, k2}
  MaxConcurrent = 2
INVARIANTS
  ClosedIsStopped
CHECK_DEADLOCK FALSE
