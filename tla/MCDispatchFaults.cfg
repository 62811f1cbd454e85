SPECIFICATION Spec
CONSTANTS
  Jobs <- MCJobs
  ServerKey = "k1"
  Workers = {"w1", "w2"}
  Info <- MCInfo
  KeyOf <- MCKeyOf
  Registered = {"http.get", "kubernetes.set-image"}
  ExecStatuses = {""}
  ExecStepIDs = {"", "probe"}
  MadeUpID = "unverified"
  StepOutputs = {NoOutput}
  InventoryApp = "pk-deploy-inventory"
  None = None
  NoJob = NoJob
  NoOutput = NoOutput
  MaxSteps = 2
  MaxSubmitted = 2
  MaxTime = 1
  MaxFaults = 2
  MaxRestarts = 1
  MaxTrouble = 2
INVARIANTS
  TypeOK
  ExecutedOnce
  FlowInv
  ReportedIsWhatRan
  OneFaultLosesOneJob
  EvidenceAttributed
  DeniedMeansExpired
  CountersAgree
  RecordsAgree
