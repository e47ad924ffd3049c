\* Small clusters, every operation and every target, and all that can fail.
SPECIFICATION LiveSpec
CONSTANTS
  a = a b = b c = c h1 = h1 h2 = h2 w1 = w1 w2 = w2
  Services = {a, b, c}
  Hosts = {h1, h2}
  Workers = {w1, w2}
  Clusters <- MCClusters
  Probes = 1
  Faults = {"thread", "template", "exit", "signal", "effect", "transport", "fork"}
INVARIANTS LayerExact PrerequisitesFirst
PROPERTIES ImplementsDependencyOrder RunEnds
CHECK_DEADLOCK FALSE
