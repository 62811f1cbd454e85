SPECIFICATION Spec
CONSTANTS
  Callers = {c1, c2}
  Scrapers = {s1}
  Durations <- MCDurations
  Width = 64
  MaxJobs = 3
  MaxStrays = 1
SYMMETRY CallerSymmetry
INVARIANTS
  TypeOK
  GaugeTracks
  NoPhantomJobs
PROPERTIES
  CountersOnlyGrow
