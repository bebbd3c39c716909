\* Stored texts with a star under StringLike.
CONSTANTS
  PathIndexOf <- MCPathIndexOf
  ReservedKeys <- MCReservedKeys
  MalformedKeys = {}
  LowerOf <- NoTable
  FlagOf <- MCFlagOf
  NumberOf <- MCNumberOf
  InstantOf <- NoTable
  AddressOf <- NoTable
  NetworkOf <- NoTable
  LikePairs <- MCLikePairs
  SqlLikePairs <- MCSqlLikePairs
  ColumnNumberOf <- MCColumnNumberOf
  UnusableParts = {}
  NoQuery = NoQuery
  NoMapping = NoMapping
  Starred <- MCStarred
  Slashed = {"b/a"}
  Store <- MCStore
  Published = "public"
  MaxIndex = 3
  Compilations <- MCCompilations
  Queries <- MCQueries
  Rows <- MCRows
  Mappings <- PathsOnly
SPECIFICATION ListSpec
INVARIANT StarsListedAsDecided
