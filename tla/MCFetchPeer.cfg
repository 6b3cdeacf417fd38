\* fetch/mod.rs:111: is the reported endpoint the one that was connected to?
CONSTANTS
  page = page
  mirror = mirror
  intra = intra
  ftp = ftp
  pub = pub
  alt = alt
  own = own
  NoUrl = NoUrl
  NoEndpoint = NoEndpoint
  Urls <- MCUrls
  Fetchable <- MCFetchable
  AllowListed = {}
  SocketAddrs <- MCSocketAddrs
  Forbidden = {own}
  SameOriginExemption = TRUE
  Dns <- MCDns
  Web <- MCWeb
  Calls <- MCCalls
  MaxNow = 4
SPECIFICATION Spec
INVARIANT EndpointIsPeer
CHECK_DEADLOCK FALSE
