\* A peer of up to six writes gets a request accepted that the protocol
\* does not allow: without the magic, or with argc and argv disagreeing.
CONSTANTS
  Null = Null
  CodeValue = 4096
  ArgMax = 4
  MaxVars = 4
  SigpipeIgnored = TRUE
  MaxWrites = 6
  Strings <- MCStrings
  EnvStrings <- MCEnvStrings
  RogueTokens <- MCRogueTokens
SPECIFICATION Spec
INVARIANT AcceptedRequestValid
\* Both sides end: the booster closes its socket, the peer has exited.
CHECK_DEADLOCK FALSE
