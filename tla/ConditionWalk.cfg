\* The condition loops over every order of the maps.
CONSTANTS
  PathIndexOf <- MCPathIndexOf
  ReservedKeys <- MCReservedKeys
  MalformedKeys = {}
  LowerOf <- MCLowerOf
  FlagOf <- MCFlagOf
  NumberOf <- MCNumberOf
  InstantOf <- MCInstantOf
  AddressOf <- MCAddressOf
  NetworkOf <- MCNetworkOf
  LikePairs <- MCLikePairs
  Blocks <- MCBlocks
  Contexts <- MCContexts
  Paths <- MCPaths
  Attributes <- MCAttributes
SPECIFICATION Spec
INVARIANTS TypeOK WalkIsOrderFree ResolveIsExact
