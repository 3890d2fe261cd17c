\* A booster against an arbitrary peer of up to five writes: every receive
\* ends once the peer closes.
CONSTANTS
  Null = Null
  CodeValue = 4096
  ArgMax = 4
  MaxVars = 4
  SigpipeIgnored = TRUE
  MaxWrites = 5
  Strings <- MCStrings
  EnvStrings <- MCEnvStrings
  RogueTokens <- MCRogueTokens
SPECIFICATION Spec
PROPERTY ReceiveEnds
\* Both sides end: the booster closes its socket, the peer has exited.
CHECK_DEADLOCK FALSE
