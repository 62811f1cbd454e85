SPECIFICATION StoreSpec
CONSTANTS
  Jobs <- MCJobs
  Keys = {"serverKey"}
  Infos <- MCInfos
  Results <- MCResults
  Reports <- MCReports
  Bundles <- MCBundles
  None = None
  NoOutput = NoOutput
  InventoryApp = "pk-deploy-inventory"
  MaxSubmitted = 3
  MaxRecorded = 3
INVARIANTS
  StoreTypeOK
  NoOvertaking
  AttributedOnce
PROPERTIES
  ForgottenOnlyByInventory
  LastMentionHolds
