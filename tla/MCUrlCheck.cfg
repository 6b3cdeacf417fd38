\* Two workers, a memo of two entries: hits overlap, entries are evicted and come back.
CONSTANTS
  Checkers = {w1, w2}
  Raws <- MCRaws
  LocalNames <- MCLocalNames
  Shown <- MCShown
  Prototype <- MCPrototype
  Punycode = {"xn--bnk", "xn--mnchen"}
  BlockFiles <- MCBlockFiles
  Protected <- MCProtected
  DenyExtra <- MCDenyExtra
  MemoSize = 2
  MemoSample = 2
  MaxChecks = 4
SPECIFICATION MemoSpec
INVARIANTS MemoTransparent RecencyExact EmissionSettled MasksExact
\* The workers may be done with their links.
CHECK_DEADLOCK FALSE
