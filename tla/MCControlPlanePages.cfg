SPECIFICATION Spec
CONSTANTS
  Workers = {w1, w2}
  Key = "k1"
  Components = {"a/web/web"}
  Namespaces <- OneNamespace
  NamespaceOf <- MCNamespaceOf
  Slug <- MCSlug
  Contents = {1}
  Start <- Paged
  Published <- MCPublished
  PageSize = 1
  Environment = "staging"
  InventoryApp = "pk-deploy-inventory"
  JobTTL = 1
  None = None
  NoTag = NoTag
  NoOutput = NoOutput
  MaxSubmitted = 3
  MaxTime = 0
  MaxHandlers = 1
  MaxChanges = 0
  MaxFaults = 0
CHECK_DEADLOCK FALSE
SYMMETRY WorkerSymmetry
INVARIANTS
  StaleMeansNewer
