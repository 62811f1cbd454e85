SPECIFICATION Spec

CONSTANTS
  Hosts <- MCHosts
  Paths <- MCPaths
  TagTexts <- MCTagTexts
  Digest <- MCDigest

INVARIANTS
  ParsedAsWritten

PROPERTIES
  UpdatesStayInRepository
