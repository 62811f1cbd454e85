SPECIFICATION Spec
CONSTANTS
  Workers = {w1, w2}
  Key = "k1"
  Components = {"a/web/web", "b/api/api"}
  Namespaces <- MCNamespaces
  NamespaceOf <- MCNamespaceOf
  Slug <- MCSlug
  Contents = {1}
  Start <- MCStart
  Published <- MCPublished
  PageSize = 9
  Environment = "staging"
  InventoryApp = "pk-deploy-inventory"
  JobTTL = 1
  None = None
  NoTag = NoTag
  NoOutput = NoOutput
  MaxSubmitted = 3
  MaxTime = 1
  MaxHandlers = 2
  MaxChanges = 1
  MaxFaults = 1
CHECK_DEADLOCK FALSE
SYMMETRY WorkerSymmetry
INVARIANTS
  TypeOK
  FreshTableIsTrue
  StaleMeansNewer
PROPERTIES
  UpdatesGoForward
