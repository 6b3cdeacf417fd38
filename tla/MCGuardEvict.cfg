\* policy/mod.rs:332: are refusals really permanent?
CONSTANTS
  intranet = intranet
  rebound = rebound
  listed = listed
  pub = pub
  priv = priv
  own = own
  cidr = cidr
  NoParent = NoParent
  Keys <- MCKeys
  SocketAddrs <- MCSocketAddrs
  Workers = {w1, w2}
  Forbidden <- MCForbidden
  AllowAddrs = {cidr}
  AllowHosts = {listed}
  SameOriginExemption = TRUE
  Dns <- MCDns
  Requests <- MCRequests
  MaxEntries = 1
  EvictSample = 1
  AllowTtl = 2
  MaxCalls = 3
  MaxNow = 0
SPECIFICATION Spec
PROPERTY DeniesNeverExpire
CHECK_DEADLOCK FALSE
