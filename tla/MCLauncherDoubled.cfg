\* The SIGCHLD handler is installed without SA_RESTART: one read of the
\* pipe is interrupted and the daemon forks with an uninitialized byte.
\* The stale byte makes a second booster of the family (daemon.cpp:129).
CONSTANTS
  M = M
  Q = Q
  c1 = c1
  c2 = c2
  NoFamily = NoFamily
  NoClient = NoClient
  FamilyOrder <- MCFamilyOrder
  Clients <- MCClients
  MaxPid <- MCMaxPid
  MaxAcceptFailures = 0
  MaxKills = 0
  Backlog = 1
  ReadRestarts = FALSE
  DaemonMayDie = FALSE
  WaitModes = {FALSE, TRUE}
  LauncherArgs = {}
  MaxStartFailures = 0
  MaxInterrupts <- MCMaxInterrupts
SPECIFICATION Spec
INVARIANT PoolNeverDoubled
\* Everything stops once the invokers are done.
CHECK_DEADLOCK FALSE
