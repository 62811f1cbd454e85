SPECIFICATION RunnerSpec
CONSTANTS
  Workers = {"w1"}
  Info <- MCInfo
  KeyOf <- MCKeyOf
  Registered = {"http.get", "kubernetes.set-image"}
  ExecStatuses = {"", "running"}
  ExecStepIDs = {""}
  MadeUpID = "unverified"
  StepOutputs = {NoOutput}
  RecorderMayFail = TRUE
  Offers <- MCOffers
  None = None
  NoOutput = NoOutput
  MaxTime = 1
  MaxSubmitted = 8
  MaxClaims = 2
INVARIANTS
  TerminalResult
