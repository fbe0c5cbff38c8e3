SPECIFICATION Spec
CONSTANTS
  h1 = h1
  h2 = h2
  Hosts = {h1, h2}
  Networks <- SomeNetworks
  Worker = w
  Callers = {c1}
  MaxFaults = 1
INVARIANTS CachedArePrivate
PROPERTIES LookupReturns ListedInTheEnd
CHECK_DEADLOCK FALSE
