\* The daemon is killed while boosters and launched programs live on.
CONSTANTS
  M = M
  Q = Q
  c1 = c1
  c2 = c2
  NoFamily = NoFamily
  NoClient = NoClient
  FamilyOrder <- MCFamilyOrder
  Clients <- MCClients
  MaxPid <- MCMaxPid
  MaxAcceptFailures = 0
  MaxKills = 0
  Backlog = 1
  ReadRestarts = TRUE
  DaemonMayDie = TRUE
  WaitModes = {FALSE, TRUE}
  LauncherArgs = {}
  MaxStartFailures = 0
  MaxInterrupts <- MCMaxInterrupts
SPECIFICATION Spec
PROPERTY DeadDaemonRefuses
\* Everything stops once the invokers are done, a family is lost or the
\* daemon is dead.
CHECK_DEADLOCK FALSE
