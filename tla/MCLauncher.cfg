\* The booster pool with invokers, failed accept() calls, invokers killed,
\* and no booster killed from outside; and the launcher implements the
\* abstract LaunchService.
CONSTANTS
  M = M
  Q = Q
  c1 = c1
  c2 = c2
  NoFamily = NoFamily
  NoClient = NoClient
  FamilyOrder <- MCFamilyOrder
  Clients <- MCClients
  MaxPid <- MCMaxPid
  MaxAcceptFailures = 1
  MaxKills = 0
  Backlog = 2
  ReadRestarts = TRUE
  DaemonMayDie = FALSE
  WaitModes = {FALSE}
  LauncherArgs = {}
  MaxStartFailures = 0
  MaxInterrupts <- MCMaxInterrupts

SPECIFICATION Spec

INVARIANT PoolConserved
INVARIANT ChildrenTracked
PROPERTY QueuedEventuallyServed
PROPERTY ImplementsLaunchService

\* When every invoker has finished, the boosters block in accept() and the
\* daemon in read(): the real system idles there.
CHECK_DEADLOCK FALSE
