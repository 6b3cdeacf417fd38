\* All references of a document compete for two requests and three bytes.
CONSTANTS
  css = css
  img = img
  pic = pic
  evil = evil
  mail = mail
  cssRel = cssRel
  cssAbs = cssAbs
  imgRaw = imgRaw
  picRaw = picRaw
  evilRaw = evilRaw
  mailRaw = mailRaw
  frag = frag
  own = own
  other = other
  pub = pub
  NoUrl = NoUrl
  NoEndpoint = NoEndpoint
  Urls <- MCUrls
  Fetchable <- MCFetchable
  AllowListed = {}
  SocketAddrs = {own, other, pub}
  Forbidden = {own, other}
  SameOriginExemption = TRUE
  Raws <- MCRaws
  Absolute <- MCAbsolute
  RefusedUrls = {evil}
  Documents <- MCDocuments
  ParentEndpoint = own
  Policies <- MCPolicies
  MaxRequests = 2
  MaxTotalBytes = 3
  MaxResponseBytes = 2
  TotalTimeout = 2
  RedirectLimit = 1
  MaxInputBytes = 1
  MaxTime = 2
  MaxNow = 3
SPECIFICATION Spec
INVARIANTS WithinBudgets OncePerUrl InternalOnlyOwn RewritesTrue AccountedFor
\* The loop ends with its document.
CHECK_DEADLOCK FALSE
