\* Compiled.Decide over short statement lists.
CONSTANTS
  PathIndexOf <- MCPathIndexOf
  ReservedKeys <- MCReservedKeys
  MalformedKeys = {}
  LowerOf <- NoTable
  FlagOf <- NoTable
  NumberOf <- NoTable
  InstantOf <- NoTable
  AddressOf <- NoTable
  NetworkOf <- NoTable
  LikePairs = {}
  UnusableParts = {}
  NoRequest = NoRequest
  Compilations <- MCCompilations
  Requests <- MCRequests
SPECIFICATION Spec
INVARIANTS TypeOK TenantIsolation MarkerOnlyWidens
PROPERTY DecidesAsPromised
