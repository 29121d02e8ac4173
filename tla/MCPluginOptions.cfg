CONSTANTS
  Absent = Absent
  NoValue = Absent
  Arguments <- MCArguments
  Features <- MCFeatures
  Names <- MCNames
  MethodConfigs <- MCMethodConfigs
  RPCs <- MCRPCs
  MaxArgs = 3
  MaxEntries = 2
SPECIFICATION Spec
CHECK_DEADLOCK FALSE
INVARIANTS
  OptionsAsGiven
  AcceptedIffValid
  FilesWithinModule
  CallOptionsAsDeclared
