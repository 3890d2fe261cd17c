\* The shipped invoker against the booster's receive loop, with the invoker
\* killed at any point and SIGPIPE ignored, as spec 4.D has the launcher do.
CONSTANTS
  Null = Null
  CodeValue = 4096
  ArgMax = 4
  MaxVars = 4
  SigpipeIgnored = TRUE
  Strings <- MCStrings
  EnvStrings <- MCEnvStrings
  Argvs <- MCArgvs
  Execs <- MCExecs
  Envs <- MCEnvs
  Prios <- MCPrios

SPECIFICATION Spec

INVARIANT TypeOK
INVARIANT HandoffAgreement
PROPERTY ExchangeEnds

\* Both processes finish: the invoker exits and the booster closes its
\* socket, or the booster keeps it open while the launched program runs.
CHECK_DEADLOCK FALSE
