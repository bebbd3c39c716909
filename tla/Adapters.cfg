\* The rows a query or a walk shows against Decide, row by row, and the
\* concurrent callers of WithPostgresPathConditions.
CONSTANTS
  PathIndexOf <- MCPathIndexOf
  ReservedKeys <- MCReservedKeys
  MalformedKeys = {}
  LowerOf <- NoTable
  FlagOf <- MCFlagOf
  NumberOf <- MCNumberOf
  InstantOf <- NoTable
  AddressOf <- NoTable
  NetworkOf <- NoTable
  LikePairs <- MCLikePairs
  SqlLikePairs <- MCSqlLikePairs
  ColumnNumberOf <- MCColumnNumberOf
  UnusableParts = {}
  NoQuery = NoQuery
  NoMapping = NoMapping
  Starred <- MCStarred
  Slashed = {"b/a"}
  Store <- MCStore
  Published = "public"
  MaxIndex = 3
  Compilations <- MCCompilations
  Queries <- MCQueries
  Rows <- MCRows
  Mappings <- MCMappings
  Callers = {c1, c2}
  Service = service
  SharedMapping <- MCSharedMapping
  ConstraintLists <- MCConstraintLists
  OtherOperators <- MCOtherOperators
  StoredRows <- MCStoredRows
SPECIFICATION AdaptersSpec
INVARIANTS TypeOK OnlyRequestTenant FilterAgreesWithGate NarrowingIsExact
           ListAgreesWithGate PublishedAllOrNothing WalkAgreesWithGate
           SharedUntouched ColumnsReadTheSegment
PROPERTY ReturnsOwnKeys
