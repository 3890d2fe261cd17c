\* A signal kills one booster.  Spec 7 and scenario S1 say the daemon must
\* replace a booster that exits without writing to the notify pipe; run()
\* only forks on a pipe byte, so the family is left without a booster.
CONSTANTS
  M = M
  Q = Q
  c1 = c1
  c2 = c2
  NoFamily = NoFamily
  NoClient = NoClient
  FamilyOrder <- MCFamilyOrder
  Clients <- MCClients
  MaxPid <- MCMaxPid
  MaxAcceptFailures = 0
  MaxKills = 1
  Backlog = 1
  ReadRestarts = TRUE
  DaemonMayDie = FALSE
  WaitModes = {FALSE, TRUE}
  LauncherArgs = {}
  MaxStartFailures = 0
  MaxInterrupts <- MCMaxInterrupts

SPECIFICATION Spec

PROPERTY QueuedEventuallyServed

CHECK_DEADLOCK FALSE
