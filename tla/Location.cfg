\* Every stage of a location, from the text it is imported from to the
\* configuration the service runs.
SPECIFICATION Spec
CONSTANTS
  Unset = Unset
  MaxDepth = 6
  MaxRedirects = 3
  MaxExcludedApps = 1
  Extras <- MCExtras
  LowerOf <- MCLowerOf
  Urls <- MCUrls
  Bodies <- MCBodies
  Selections <- MCSelections
  Interfaces <- MCInterfaces
  Ports <- MCPorts
INVARIANTS
  TypeOK
  ValidatedIsBuildable
  BuiltIsAccepted
  DialledIsPinned
  RulesLeadSomewhere
  NothingUnsafeIsRun
  LinkIsCarried
  BuiltIsParsedBack
  SourceIsOwn
  SplitIsHonoured
PROPERTY
  FetchesAsAsked
