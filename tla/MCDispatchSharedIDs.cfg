SPECIFICATION Spec
CONSTANTS
  Jobs <- SharedIDs
  ServerKey = "k1"
  Workers = {"w1", "w2"}
  Info <- TwinInfo
  KeyOf <- MCKeyOf
  Registered = {"http.get", "kubernetes.set-image"}
  ExecStatuses = {""}
  ExecStepIDs = {""}
  MadeUpID = "unverified"
  StepOutputs = {NoOutput}
  InventoryApp = "pk-deploy-inventory"
  None = None
  NoJob = NoJob
  NoOutput = NoOutput
  MaxSteps = 2
  MaxSubmitted = 2
  MaxTime = 0
  MaxFaults = 0
  MaxRestarts = 0
  MaxTrouble = 0
INVARIANTS
  EvidenceNamesItsJob
