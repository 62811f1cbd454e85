SPECIFICATION RunnerSpec
CONSTANTS
  Workers = {"w1"}
  Info <- MCInfo
  KeyOf <- MCKeyOf
  Registered = {"http.get", "kubernetes.set-image"}
  ExecStatuses = {"", "succeeded", "failed", "skipped"}
  ExecStepIDs = {"", "set-image"}
  MadeUpID = "unverified"
  StepOutputs = {NoOutput}
  RecorderMayFail = TRUE
  Offers <- MCOffers
  None = None
  NoOutput = NoOutput
  MaxTime = 1
  MaxSubmitted = 8
  MaxClaims = 3
INVARIANTS
  RunnerTypeOK
  OnlyTrustedJobsRun
  GatesHeld
  ReportNamesSteps
  MetricsBalanced
  EvidenceBalanced
  ReportIsTrue
