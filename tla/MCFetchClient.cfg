\* One thread, four kinds of fetch, a web that redirects in circles.
CONSTANTS
  page = page
  mirror = mirror
  intra = intra
  ftp = ftp
  pub = pub
  alt = alt
  own = own
  NoUrl = NoUrl
  NoEndpoint = NoEndpoint
  Urls <- MCUrls
  Fetchable <- MCFetchable
  AllowListed = {}
  SocketAddrs <- MCSocketAddrs
  Forbidden = {own}
  SameOriginExemption = TRUE
  Dns <- MCDns
  Web <- MCWeb
  Calls <- MCCalls
  MaxNow = 4
SPECIFICATION FairSpec
INVARIANTS HopsBounded ThreadLocalsTrue WholeBody
PROPERTIES TotalDeadline FetchEnds KeepsPromise
\* The thread may have nothing more to fetch.
CHECK_DEADLOCK FALSE
