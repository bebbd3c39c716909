\* Compile, Decide and Constrain together, while the document is edited.
CONSTANTS
  PathIndexOf <- NoTable
  ReservedKeys = {}
  MalformedKeys = {}
  LowerOf <- NoTable
  FlagOf <- NoTable
  NumberOf <- NoTable
  InstantOf <- NoTable
  AddressOf <- NoTable
  NetworkOf <- NoTable
  LikePairs = {}
  UnusableParts = {}
  UuidOf <- MCUuidOf
  PartsOf <- NoTable
  DeepFields = {"**"}
  Sources <- MCSources
  MaxClones = 2
  Requests <- MCRequests
  NoRequest = NoRequest
  Queries <- MCQueries
  NoQuery = NoQuery
  Rows <- MCRows
SPECIFICATION EngineSpec
INVARIANTS TypeOK CompiledIsSnapshot ReportsFirstFault ListsAsCompiled
PROPERTY KeepsPromise
CHECK_DEADLOCK FALSE
