\* An invoker whose environment is empty sends ENV with count 0.  receiveEnv()
\* fails on it, receiveActions() ignores the failure, and END completes
\* the request although spec 3 and 4.B say it must be discarded.
CONSTANTS
  Null = Null
  CodeValue = 4096
  ArgMax = 4
  MaxVars = 4
  SigpipeIgnored = TRUE
  Strings <- MCStrings
  EnvStrings <- MCEnvStrings
  Argvs <- MCArgvs
  Execs <- MCExecs
  Envs <- MCEnvs
  Prios <- MCPrios

SPECIFICATION Spec

INVARIANT NoCompletionAfterError

\* Both processes finish: the invoker exits and the booster closes its
\* socket, or the booster keeps it open while the launched program runs.
CHECK_DEADLOCK FALSE
