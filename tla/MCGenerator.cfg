CONSTANT
  Requests <- MCRequests
SPECIFICATION Spec
CHECK_DEADLOCK FALSE
INVARIANTS
  OptionsKept
  Linked
  DefinedOnce
  SameSurface
  MetadataMatches
  EntriesExist
  SnippetsExplained
