\* The guard under contention: two threads, rebinding names, a table of one entry.
CONSTANTS
  intranet = intranet
  rebound = rebound
  listed = listed
  pub = pub
  priv = priv
  own = own
  cidr = cidr
  NoParent = NoParent
  Keys <- MCKeys
  SocketAddrs <- MCSocketAddrs
  Workers = {w1, w2}
  Forbidden <- MCForbidden
  AllowAddrs = {cidr}
  AllowHosts = {listed}
  SameOriginExemption = TRUE
  Dns <- MCDns
  Requests <- MCRequests
  MaxEntries = 1
  EvictSample = 1
  AllowTtl = 2
  MaxCalls = 4
  MaxNow = 2
SPECIFICATION FairSpec
INVARIANTS TypeOK VettedOnly SharedVerdictsHold BoundedTable
PROPERTIES RefusalKept StaleNeverServed EveryCallReturns KeepsPromise
\* A thread may be done: nothing obliges it to resolve again.
CHECK_DEADLOCK FALSE
