\* policy/mod.rs:326: is the parent's own endpoint really always reachable?
CONSTANTS
  intranet = intranet
  rebound = rebound
  listed = listed
  pub = pub
  priv = priv
  own = own
  cidr = cidr
  NoParent = NoParent
  Keys <- MCKeys
  SocketAddrs <- MCSocketAddrs
  Workers = {w1, w2}
  Forbidden <- MCForbidden
  AllowAddrs = {}
  AllowHosts = {listed}
  SameOriginExemption = TRUE
  Dns <- FixedDns
  Requests <- MCRequests
  MaxEntries = 2
  EvictSample = 1
  AllowTtl = 2
  MaxCalls = 3
  MaxNow = 0
SPECIFICATION Spec
INVARIANT OwnEndpointReachable
CHECK_DEADLOCK FALSE
