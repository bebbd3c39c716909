\* crn.matchPath on all small patterns and paths; names and condition keys
\* as text and back, and Compile's view of a key.
CONSTANTS
  Patterns <- MCPatterns
  Paths <- MCPaths
  UuidOf <- MCUuidOf
  PartsOf <- MCPartsOf
  DeepFields = {"**"}
  Texts <- MCTexts
  BuildArgs <- MCBuildArgs
  Words = {"resource", "file"}
  Indices = {"path[0]"}
  KeyTexts <- MCKeyTexts
SPECIFICATION CrnSpec
INVARIANTS TypeOK ReturnsMatch
           RoundTrip NameSelectsItself KeyRoundTrip ParsedAsWritten BuiltKeysCompile
PROPERTIES Advances Terminates
\* The loop returns: a done state has no successor.
CHECK_DEADLOCK FALSE
