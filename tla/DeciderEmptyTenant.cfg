\* "an empty Tenant matches no resource", against Compiled.Decide.
CONSTANTS
  PathIndexOf <- MCPathIndexOf
  ReservedKeys <- MCReservedKeys
  MalformedKeys = {}
  LowerOf <- NoTable
  FlagOf <- NoTable
  NumberOf <- NoTable
  InstantOf <- NoTable
  AddressOf <- NoTable
  NetworkOf <- NoTable
  LikePairs = {}
  UnusableParts = {}
  NoRequest = NoRequest
  Compilations <- MCCompilations
  Requests <- MCRequests
SPECIFICATION Spec
INVARIANT EmptyTenantGetsNothing
