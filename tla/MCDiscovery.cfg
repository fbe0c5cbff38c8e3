SPECIFICATION Spec
CONSTANTS
  Hosts = {h1}
  Addresses = {a1, a2}
  Lookups = {worker, call}
  Worker = worker
  None = None
  MaxServers = 2
INVARIANTS TypeOK RegistrationsTracked
PROPERTIES ResolvesInTheEnd CachedInTheEnd
