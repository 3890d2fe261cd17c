\* The faults together: one booster killed or aborted, one read of the pipe
\* interrupted (no SA_RESTART), and the daemon itself killed.
CONSTANTS
  M = M
  Q = Q
  c1 = c1
  c2 = c2
  NoFamily = NoFamily
  NoClient = NoClient
  FamilyOrder <- MCFamilyOrder
  Clients <- MCClients
  MaxPid <- MCMaxPid
  MaxAcceptFailures = 0
  MaxKills = 1
  Backlog = 1
  ReadRestarts = FALSE
  DaemonMayDie = TRUE
  WaitModes = {FALSE, TRUE}
  LauncherArgs = {"--daemon", "--quiet"}
  MaxStartFailures = 1
  MaxInterrupts <- MCMaxInterrupts
SPECIFICATION Spec
SYMMETRY MCClientSymmetry
INVARIANT PoolNeverEmpty
INVARIANT PoolExcessBounded
\* Everything stops once the invokers are done, a family is lost or the
\* daemon is dead.
CHECK_DEADLOCK FALSE
