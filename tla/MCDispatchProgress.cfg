SPECIFICATION FairSpec
CONSTANTS
  Jobs <- ForeignJobs
  ServerKey = "k1"
  Workers = {"w1", "w2"}
  Info <- MCInfo
  KeyOf <- MixedKeys
  Registered = {"http.get", "kubernetes.set-image"}
  ExecStatuses = {""}
  ExecStepIDs = {""}
  MadeUpID = "unverified"
  StepOutputs = {NoOutput}
  InventoryApp = "pk-deploy-inventory"
  None = None
  NoJob = NoJob
  NoOutput = NoOutput
  MaxSteps = 2
  MaxSubmitted = 2
  MaxTime = 1
  MaxFaults = 1
  MaxRestarts = 1
  MaxTrouble = 1
PROPERTIES
  ImplementsLifecycle
  ExpiredInQueueNeverRuns
  JobsFinish
  WorkersKeepPolling
