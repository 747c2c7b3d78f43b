SPECIFICATION FairSpec
CONSTANTS
  None = None
  gcc8 = gcc8
  gcc9 = gcc9
  Digests <- MCDigests
  ScanOrder <- MCScanOrder
  Sources <- MCSources
  Scopes <- MCScopes
  Expiry = 1
INVARIANTS TokensUnderstood GenuineOutput
PROPERTIES StoppedIsForgotten CompilersAdvertised
