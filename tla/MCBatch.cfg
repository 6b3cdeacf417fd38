\* A scan of three inputs by two workers, with one skipped symlink.
CONSTANTS
  Workers = {w1, w2}
  NoOne = NoOne
  Total = 3
  Skipped = 1
  Outcomes <- MCOutcomes
SPECIFICATION FairSpec
INVARIANTS OnePlace ReportExact ExitTells
PROPERTY ScanEnds
