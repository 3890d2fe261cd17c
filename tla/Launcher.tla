------------------------------ MODULE Launcher ------------------------------
(***************************************************************************)
(* The launcher daemon's booster pool (src/launcher/daemon.cpp), the       *)
(* booster processes it forks and the invokers (src/invoker/invoker.c)     *)
(* that connect to the per-family listening sockets.                       *)
(*                                                                         *)
(* Processes communicate only through the kernel: the per-family accept    *)
(* queue of the listening socket (backlog), the notify pipe from the       *)
(* boosters to the daemon (pipe), fork, and process exit.  The wire        *)
(* protocol between one invoker and one booster is a single step here      *)
(* (BoosterReceive); module Handoff models it message by message.          *)
(***************************************************************************)
EXTENDS Naturals, Sequences, FiniteSets, SequencesExt

CONSTANTS
  LauncherArgs, \* the words on the daemon's own command line
  FamilyOrder,  \* <<MBooster::type(), QtBooster::type()>>, in run()'s order
  Clients,      \* invoker processes
  MaxPid,       \* pids 1..MaxPid the daemon may hand out
  MaxKills,     \* boosters a signal from outside may kill
  MaxAcceptFailures, \* accept() calls that may fail
  ReadRestarts, \* the SIGCHLD handler is installed with SA_RESTART
  DaemonMayDie, \* the daemon process may be killed
  WaitModes,    \* the --no-wait settings invokers are started with
  MaxStartFailures, \* start-up system calls that may fail
  MaxInterrupts, \* reads of the pipe a signal may interrupt
  Backlog,      \* listen(sockfd, 10): length of the accept queue
  NoFamily,     \* model value: no family
  NoClient      \* model value: no client

Families == {FamilyOrder[i] : i \in DOMAIN FamilyOrder}

ASSUME /\ FamilyOrder \in Seq(Families) /\ Len(FamilyOrder) = Cardinality(Families)
       /\ MaxPid \in Nat /\ MaxPid >= Len(FamilyOrder)
       /\ MaxKills \in Nat /\ MaxAcceptFailures \in Nat /\ MaxStartFailures \in Nat
       /\ LauncherArgs \subseteq {"--help", "--daemon", "--quiet", "--test"}
       /\ WaitModes \subseteq BOOLEAN /\ ReadRestarts \in BOOLEAN /\ DaemonMayDie \in BOOLEAN /\ MaxInterrupts \in Nat /\ Backlog \in Nat \ {0}
       /\ NoFamily \notin Families /\ NoClient \notin Clients

Pids == 1..MaxPid

VARIABLES
  dpc,       \* daemon: "init" (Daemon::Daemon()), "fork1", "fork2", "detach"
             \* (daemonize()), "start" (before run()), "read" (blocked on the
             \* pipe), "sleep", "dead" (died in run()), "gone" (exited in start-up)
  dmsg,      \* daemon: the family byte read from the pipe
  children,  \* daemon: m_children, the pids it has not reaped
  nextPid,   \* the pid the next fork() returns
  pipe,      \* bytes in the notify pipe, oldest first
  backlog,   \* per family: connections waiting in the listening socket's queue
  bpc,       \* per pid: where the booster process is in forkBooster()
  bfam,      \* per pid: the booster's type
  bclient,   \* per pid: the invoker whose connection it accepted
  cpc,       \* per invoker: where it is in main()/invoke()
  cfam,      \* per invoker: --type
  cnowait,   \* per invoker: --no-wait
  kills,     \* boosters killed or aborted so far
  acceptFailures, \* failed accept() calls so far
  interrupts, \* reads of the pipe interrupted so far
  pdeath,    \* per pid: PR_SET_PDEATHSIG is armed (SIGHUP when the parent dies)
  lost,      \* boosters that ended before writing their byte (history)
  shell,     \* what the command that started the launcher has seen:
             \* "running", or its exit status "success" / "failure"
  startFailures \* start-up system calls failed so far

vars == <<dpc, dmsg, children, nextPid, pipe, backlog, bpc, bfam, bclient,
          cpc, cfam, cnowait, kills, acceptFailures, interrupts, pdeath, lost, shell, startFailures>>

BoosterStates == {"free", "boot", "accept", "recv", "notify", "run", "exited"}
ClientStates == {"idle", "queued", "talking", "handedoff", "done", "failed"}

TypeOK ==
  /\ dpc \in {"init", "fork1", "fork2", "detach", "start", "read", "sleep", "dead", "gone"}
  /\ dmsg \in Families \cup {NoFamily}
  /\ children \subseteq Pids
  /\ nextPid \in 1..MaxPid + 1
  /\ pipe \in Seq(Families)
  /\ backlog \in [Families -> BoundedSeq(Clients, Backlog)]
  /\ bpc \in [Pids -> BoosterStates]
  /\ bfam \in [Pids -> Families \cup {NoFamily}]
  /\ bclient \in [Pids -> Clients \cup {NoClient}]
  /\ cpc \in [Clients -> ClientStates]
  /\ cfam \in [Clients -> Families \cup {NoFamily}]
  /\ cnowait \in [Clients -> BOOLEAN]
  /\ kills \in 0..MaxKills
  /\ acceptFailures \in 0..MaxAcceptFailures
  /\ interrupts \in 0..MaxInterrupts
  /\ pdeath \in [Pids -> BOOLEAN]
  /\ lost \subseteq Pids
  /\ shell \in {"running", "success", "failure"}
  /\ startFailures \in 0..MaxStartFailures

Init ==
  /\ dpc = "init"
  /\ dmsg = NoFamily
  /\ children = {}
  /\ nextPid = 1
  /\ pipe = <<>>
  /\ backlog = [f \in Families |-> <<>>]
  /\ bpc = [p \in Pids |-> "free"]
  /\ bfam = [p \in Pids |-> NoFamily]
  /\ bclient = [p \in Pids |-> NoClient]
  /\ cpc = [c \in Clients |-> "idle"]
  /\ cfam = [c \in Clients |-> NoFamily]
  /\ cnowait = [c \in Clients |-> FALSE]
  /\ kills = 0
  /\ acceptFailures = 0
  /\ interrupts = 0
  /\ pdeath = [p \in Pids |-> FALSE]
  /\ lost = {}
  /\ shell = "running"
  /\ startFailures = 0

\* run()'s loop is going: the listening sockets and the pipe exist.
Running == dpc \in {"read", "sleep"}

\* A family's listening socket accepts connects while some process holds
\* it open: the daemon, or any process forked from it, since boosters and
\* the programs they become inherit every socket of the pool and never
\* close it.
SocketOpen ==
  \/ Running
  \/ \E p \in Pids : bpc[p] \notin {"free", "exited"}

-----------------------------------------------------------------------------
(* The daemon.                                                             *)

\* parseArgs(): some word of argv is "--help", whose usage() prints and
\* exits with EXIT_SUCCESS before the rest of argv is looked at.
WantsUsage == "--help" \in LauncherArgs

\* parseArgs(): some word of argv is "--daemon", which sets m_daemon.
Daemonizes == "--daemon" \in LauncherArgs

\* Daemon::Daemon(): parseArgs(); consoleQuiet() if m_quiet, which only
\* redirects the console; daemonize() if m_daemon.
DaemonConstruct ==
  /\ dpc = "init"
  /\ IF WantsUsage
       THEN dpc' = "gone" /\ shell' = "success"
       ELSE /\ dpc' = IF Daemonizes THEN "fork1" ELSE "start"
            /\ UNCHANGED shell
  /\ UNCHANGED <<dmsg, children, nextPid, pipe, backlog, bpc, bfam, bclient, cpc, cfam,
                 cnowait, kills, acceptFailures, interrupts, pdeath, lost, startFailures>>

\* daemonize(): fork(); the parent exits with EXIT_SUCCESS and the child
\* goes on.  The first parent is the command the shell waits for; the
\* second fork's parent is an orphan nobody waits for.
DaemonizeFork ==
  /\ dpc \in {"fork1", "fork2"}
  /\ dpc' = IF dpc = "fork1" THEN "fork2" ELSE "detach"
  /\ shell' = IF dpc = "fork1" THEN "success" ELSE shell
  /\ UNCHANGED <<dmsg, children, nextPid, pipe, backlog, bpc, bfam, bclient, cpc, cfam,
                 cnowait, kills, acceptFailures, interrupts, pdeath, lost, startFailures>>

\* daemonize(): umask(0), setsid() (the grandchild is never a process group
\* leader, so it succeeds), chdir("/"), stdin/out/err to /dev/null.
DaemonDetach ==
  /\ dpc = "detach"
  /\ dpc' = "start"
  /\ UNCHANGED <<dmsg, children, nextPid, pipe, backlog, bpc, bfam, bclient, cpc, cfam,
                 cnowait, kills, acceptFailures, interrupts, pdeath, lost, shell, startFailures>>

\* A start-up system call fails: fork() in daemonize() (logError, then
\* exit(EXIT_FAILURE)), or socket(), bind() or listen() in initSocket() or
\* pipe() in run() (logErrorAndDie(EXIT_FAILURE)), all before any booster
\* is forked.  The command sees the failure only if it is still waiting.
DaemonStartFails ==
  /\ dpc \in {"fork1", "fork2", "start"}
  /\ startFailures < MaxStartFailures
  /\ startFailures' = startFailures + 1
  /\ dpc' = "gone"
  /\ shell' = IF shell = "running" THEN "failure" ELSE shell
  /\ UNCHANGED <<dmsg, children, nextPid, pipe, backlog, bpc, bfam, bclient, cpc, cfam,
                 cnowait, kills, acceptFailures, interrupts, pdeath, lost>>

\* run(): create one listening socket per family and the pipe, then fork
\* one booster per family in FamilyOrder; the parent stores each pid.
DaemonRun ==
  LET n == Len(FamilyOrder) IN
  /\ dpc = "start"
  /\ dpc' = "read"
  /\ bpc' = [p \in Pids |-> IF p <= n THEN "boot" ELSE bpc[p]]
  /\ bfam' = [p \in Pids |-> IF p <= n THEN FamilyOrder[p] ELSE bfam[p]]
  /\ children' = 1..n
  /\ nextPid' = n + 1
  /\ UNCHANGED <<dmsg, pipe, backlog, bclient, cpc, cfam, cnowait, kills, acceptFailures, interrupts, pdeath, lost, shell, startFailures>>

\* run(): read(pipefd[0], &msg, 1) returns one family byte.
DaemonReadPipe ==
  /\ dpc = "read"
  /\ pipe /= <<>>
  /\ dmsg' = Head(pipe)
  /\ pipe' = Tail(pipe)
  /\ dpc' = "sleep"
  /\ UNCHANGED <<children, nextPid, backlog, bpc, bfam, bclient,
                 cpc, cfam, cnowait, kills, acceptFailures, interrupts, pdeath, lost, shell, startFailures>>

\* run(): the exit of a child raises SIGCHLD, whose handler (spec 4.D)
\* reaps; a handler without SA_RESTART makes read() return -1 (EINTR).
\* if (count) takes -1 for a byte, so forkBooster() gets msg uninitialized:
\* the byte the last iteration read, left in the same stack slot, or garbage.
DaemonReadInterrupted ==
  /\ dpc = "read"
  /\ ~ReadRestarts
  /\ interrupts < MaxInterrupts
  /\ Running
  /\ \E p \in children : bpc[p] = "exited"
  /\ children' = {p \in children : bpc[p] /= "exited"}
  /\ interrupts' = interrupts + 1
  /\ dmsg' \in {dmsg, NoFamily}
  /\ dpc' = "sleep"
  /\ UNCHANGED <<nextPid, pipe, backlog, bpc, bfam, bclient,
                 cpc, cfam, cnowait, kills, acceptFailures, pdeath, lost, shell, startFailures>>

\* run(): after sleep(2), forkBooster(msg); the parent pushes the new pid.
DaemonForkBooster ==
  /\ dpc = "sleep"
  /\ nextPid <= MaxPid
  /\ bpc' = [bpc EXCEPT ![nextPid] = "boot"]
  /\ bfam' = [bfam EXCEPT ![nextPid] = dmsg]
  /\ children' = children \cup {nextPid}
  /\ nextPid' = nextPid + 1
  /\ dpc' = "read"
  /\ UNCHANGED <<dmsg, pipe, backlog, bclient, cpc, cfam, cnowait, kills, acceptFailures, interrupts, pdeath, lost, shell, startFailures>>

\* Mutant: the erase condition is inverted.
ReapZombiesInverted ==
  /\ Running
  /\ \E p \in children : bpc[p] = "exited"
  /\ children' = {p \in children : bpc[p] = "exited"}
  /\ UNCHANGED <<dpc, dmsg, nextPid, pipe, backlog, bpc, bfam, bclient,
                 cpc, cfam, cnowait, kills, acceptFailures, interrupts, pdeath, lost, shell, startFailures>>

\* Mutant: reaping an exited booster also forks a replacement of its type.
ReapZombiesRefork ==
  /\ Running
  /\ \E p \in children :
       /\ bpc[p] = "exited"
       /\ children' = children \ {p}
       /\ IF dpc = "read" THEN dpc' = "sleep" /\ dmsg' = bfam[p]
                          ELSE UNCHANGED <<dpc, dmsg>>
  /\ UNCHANGED <<nextPid, pipe, backlog, bpc, bfam, bclient,
                 cpc, cfam, cnowait, kills, acceptFailures, interrupts, pdeath, lost, shell, startFailures>>

\* The daemon process is killed at any point of run()'s loop, or exits
\* there through logErrorAndDie() when fork() fails in forkBooster().  A
\* daemon in the foreground ends the command with a failure status.
DaemonDies ==
  /\ DaemonMayDie
  /\ Running
  /\ dpc' = "dead"
  /\ shell' = IF shell = "running" THEN "failure" ELSE shell
  /\ UNCHANGED <<dmsg, children, nextPid, pipe, backlog, bpc, bfam, bclient,
                 cpc, cfam, cnowait, kills, acceptFailures, interrupts, pdeath, lost, startFailures>>

\* reapZombies(): waitpid(pid, NULL, WNOHANG) on each stored pid; a pid
\* whose process has exited is erased, the others are kept.
ReapZombies ==
  /\ Running
  /\ \E p \in children : bpc[p] = "exited"
  /\ children' = {p \in children : bpc[p] /= "exited"}
  /\ UNCHANGED <<dpc, dmsg, nextPid, pipe, backlog, bpc, bfam, bclient,
                 cpc, cfam, cnowait, kills, acceptFailures, interrupts, pdeath, lost, shell, startFailures>>

-----------------------------------------------------------------------------
(* A booster: the child branch of forkBooster().                           *)

\* Reset SIGCHLD, PR_SET_PDEATHSIG, close the pipe's read end, setsid(),
\* (PR_SET_PDEATHSIG arms nothing once the daemon is already dead: the
\* child has been reparented and its new parent does not die),
\* construct the booster of the type, preload(), clearenv(), rename.  A
\* type that is neither MBooster's nor QtBooster's is logErrorAndDie().
BoosterBoot(p) ==
  /\ bpc[p] = "boot"
  /\ bpc' = [bpc EXCEPT ![p] = IF bfam[p] \in Families THEN "accept" ELSE "exited"]
  /\ pdeath' = [pdeath EXCEPT ![p] = dpc /= "dead"]
  /\ UNCHANGED <<dpc, dmsg, children, nextPid, pipe, backlog, bfam, bclient,
                 cpc, cfam, cnowait, kills, acceptFailures, interrupts, lost, shell, startFailures>>

\* Mutant: every booster accepts on the first family's socket.
BoosterAcceptFirstSocket(p) ==
  LET f == FamilyOrder[1] IN
  /\ bpc[p] = "accept"
  /\ backlog[f] /= <<>>
  /\ bclient' = [bclient EXCEPT ![p] = Head(backlog[f])]
  /\ backlog' = [backlog EXCEPT ![f] = Tail(@)]
  /\ cpc' = IF cpc[Head(backlog[f])] = "queued"
              THEN [cpc EXCEPT ![Head(backlog[f])] = "talking"]
              ELSE cpc
  /\ bpc' = [bpc EXCEPT ![p] = "recv"]
  /\ UNCHANGED <<dpc, dmsg, children, nextPid, pipe, bfam, cfam, cnowait, kills, acceptFailures, interrupts, pdeath, lost, shell, startFailures>>

\* readCommand() -> acceptConn(): accept() takes the oldest queued
\* connection of the booster's family.
BoosterAccept(p) ==
  LET f == bfam[p] IN
  /\ bpc[p] = "accept"
  /\ backlog[f] /= <<>>
  /\ bclient' = [bclient EXCEPT ![p] = Head(backlog[f])]
  /\ backlog' = [backlog EXCEPT ![f] = Tail(@)]
  /\ cpc' = IF cpc[Head(backlog[f])] = "queued"
              THEN [cpc EXCEPT ![Head(backlog[f])] = "talking"]
              ELSE cpc
  /\ bpc' = [bpc EXCEPT ![p] = "recv"]
  /\ UNCHANGED <<dpc, dmsg, children, nextPid, pipe, bfam, cfam, cnowait, kills, acceptFailures, interrupts, pdeath, lost, shell, startFailures>>

\* Mutant: a failed readCommand() makes the booster exit at once.
BoosterAcceptFailsExits(p) ==
  /\ bpc[p] = "accept"
  /\ acceptFailures < MaxAcceptFailures
  /\ acceptFailures' = acceptFailures + 1
  /\ bpc' = [bpc EXCEPT ![p] = "exited"]
  /\ UNCHANGED <<dpc, dmsg, children, nextPid, pipe, backlog, bfam, bclient,
                 cpc, cfam, cnowait, kills, interrupts, pdeath, lost, shell, startFailures>>

\* acceptConn(): accept() fails.  With an error other than EINTR it returns
\* false; with EINTR it returns true with m_fd = -1, and the receive on -1
\* fails.  Either way no connection is taken and forkBooster() carries on.
BoosterAcceptFails(p) ==
  /\ bpc[p] = "accept"
  /\ acceptFailures < MaxAcceptFailures
  /\ acceptFailures' = acceptFailures + 1
  /\ bpc' = [bpc EXCEPT ![p] = "notify"]
  /\ UNCHANGED <<dpc, dmsg, children, nextPid, pipe, backlog, bfam, bclient,
                 cpc, cfam, cnowait, kills, interrupts, pdeath, lost, shell, startFailures>>

\* Mutant: a failed receive ends the booster, as spec 4.B asks, with no
\* notification.
BoosterReceiveExitsOnError(p) ==
  LET c == bclient[p] IN
  /\ bpc[p] = "recv"
  /\ cpc[c] \in {"talking", "failed"}
  /\ cpc' = IF cpc[c] = "talking" THEN [cpc EXCEPT ![c] = "handedoff"] ELSE cpc
  /\ bpc' = [bpc EXCEPT ![p] = IF cpc[c] = "talking" THEN "notify" ELSE "exited"]
  /\ UNCHANGED <<dpc, dmsg, children, nextPid, pipe, backlog, bfam, bclient,
                 cfam, cnowait, kills, acceptFailures, interrupts, pdeath, lost, shell, startFailures>>

\* receiveApplicationData(): the whole exchange with the accepted invoker.
\* It succeeds if the invoker is alive; a dead invoker's connection reads
\* EOF and the receive fails.  Either way forkBooster() ignores the result.
BoosterReceive(p) ==
  LET c == bclient[p] IN
  /\ bpc[p] = "recv"
  /\ cpc[c] \in {"talking", "failed"}
  /\ cpc' = IF cpc[c] = "talking" THEN [cpc EXCEPT ![c] = "handedoff"] ELSE cpc
  /\ bpc' = [bpc EXCEPT ![p] = "notify"]
  /\ UNCHANGED <<dpc, dmsg, children, nextPid, pipe, backlog, bfam, bclient,
                 cfam, cnowait, kills, acceptFailures, interrupts, pdeath, lost, shell, startFailures>>

\* receiveApplicationData() -> recvStr(): new char[size] with the size the
\* peer sent; a size no allocation can satisfy throws std::bad_alloc, which
\* nothing catches, and the booster aborts before it writes its byte.
BoosterReceiveAborts(p) ==
  /\ bpc[p] = "recv"
  /\ cpc[bclient[p]] = "talking"
  /\ kills < MaxKills
  /\ kills' = kills + 1
  /\ bpc' = [bpc EXCEPT ![p] = "exited"]
  /\ lost' = lost \cup {p}
  /\ UNCHANGED <<dpc, dmsg, children, nextPid, pipe, backlog, bfam, bclient,
                 cpc, cfam, cnowait, acceptFailures, interrupts, pdeath, shell, startFailures>>

\* Rename, write the type byte to pipefd[1], close it, clear PDEATHSIG.
\* With the daemon dead the pipe has no reader: write() fails with EPIPE
\* (SIGPIPE is ignored, spec 4.D), is logged, and the booster goes on.
BoosterNotify(p) ==
  /\ bpc[p] = "notify"
  /\ pipe' = IF dpc = "dead" THEN pipe ELSE Append(pipe, bfam[p])
  /\ bpc' = [bpc EXCEPT ![p] = "run"]
  /\ pdeath' = [pdeath EXCEPT ![p] = FALSE]
  /\ UNCHANGED <<dpc, dmsg, children, nextPid, backlog, bfam, bclient,
                 cpc, cfam, cnowait, kills, acceptFailures, interrupts, lost, shell, startFailures>>

\* booster->run(): the target's main() returns and the process exits,
\* closing the accepted socket.
BoosterExit(p) ==
  /\ bpc[p] = "run"
  /\ bpc' = [bpc EXCEPT ![p] = "exited"]
  /\ UNCHANGED <<dpc, dmsg, children, nextPid, pipe, backlog, bfam, bclient,
                 cpc, cfam, cnowait, kills, acceptFailures, interrupts, pdeath, lost, shell, startFailures>>

\* A signal from outside kills a booster at any point of its life.
BoosterKilled(p) ==
  /\ bpc[p] \in {"boot", "accept", "recv", "notify", "run"}
  /\ kills < MaxKills
  /\ kills' = kills + 1
  /\ bpc' = [bpc EXCEPT ![p] = "exited"]
  /\ lost' = IF bpc[p] = "run" THEN lost ELSE lost \cup {p}
  /\ UNCHANGED <<dpc, dmsg, children, nextPid, pipe, backlog, bfam, bclient,
                 cpc, cfam, cnowait, acceptFailures, interrupts, pdeath, shell, startFailures>>

\* The daemon has died: the kernel sends SIGHUP (PR_SET_PDEATHSIG) to
\* every booster that armed it and has not yet cleared it.
BoosterHangup(p) ==
  /\ dpc = "dead"
  /\ pdeath[p]
  /\ bpc[p] \notin {"free", "exited"}
  /\ bpc' = [bpc EXCEPT ![p] = "exited"]
  /\ lost' = lost \cup {p}
  /\ UNCHANGED <<dpc, dmsg, children, nextPid, pipe, backlog, bfam, bclient,
                 cpc, cfam, cnowait, kills, acceptFailures, interrupts, pdeath, shell, startFailures>>

-----------------------------------------------------------------------------
(* An invoker: main() and invoke().                                        *)

\* invoker_init(): connect() to the family socket.  When no process holds
\* it (before run() creates it, or after the daemon and every process it
\* forked have gone) the connect is refused and the invoker dies;
\* otherwise the connection queues until a booster accepts it.
InvokerConnect(c) ==
  /\ cpc[c] = "idle"
  /\ \E f \in Families, nw \in WaitModes :
       /\ cfam' = [cfam EXCEPT ![c] = f]
       /\ cnowait' = [cnowait EXCEPT ![c] = nw]
       /\ IF ~SocketOpen
            THEN /\ cpc' = [cpc EXCEPT ![c] = "failed"]
                 /\ UNCHANGED backlog
            ELSE /\ Len(backlog[f]) < Backlog
                 /\ backlog' = [backlog EXCEPT ![f] = Append(@, c)]
                 /\ cpc' = [cpc EXCEPT ![c] = "queued"]
  /\ UNCHANGED <<dpc, dmsg, children, nextPid, pipe, bpc, bfam, bclient, kills, acceptFailures, interrupts, pdeath, lost, shell, startFailures>>

\* The last process holding the listening socket has exited: the queued
\* connection is reset, and invoke_recv_ack() reads an error; die(1, ...).
InvokerRefused(c) ==
  /\ cpc[c] = "queued"
  /\ ~SocketOpen
  /\ cpc' = [cpc EXCEPT ![c] = "failed"]
  /\ UNCHANGED <<dpc, dmsg, children, nextPid, pipe, backlog, bpc, bfam, bclient,
                 cfam, cnowait, kills, acceptFailures, interrupts, pdeath, lost, shell, startFailures>>

\* invoke_recv_ack(): the booster died before acknowledging; die(1, ...).
InvokerLosesBooster(c) ==
  /\ cpc[c] = "talking"
  /\ \E p \in Pids : bclient[p] = c /\ bpc[p] = "exited"
  /\ cpc' = [cpc EXCEPT ![c] = "failed"]
  /\ UNCHANGED <<dpc, dmsg, children, nextPid, pipe, backlog, bpc, bfam, bclient,
                 cfam, cnowait, kills, acceptFailures, interrupts, pdeath, lost, shell, startFailures>>

\* invoke(): unless --no-wait, recv(..., MSG_WAITALL) returns when the
\* booster closes the socket by exiting; then close(fd) and return 0.
InvokerFinish(c) ==
  /\ cpc[c] = "handedoff"
  /\ \/ cnowait[c]
     \/ \E p \in Pids : bclient[p] = c /\ bpc[p] = "exited"
  /\ cpc' = [cpc EXCEPT ![c] = "done"]
  /\ UNCHANGED <<dpc, dmsg, children, nextPid, pipe, backlog, bpc, bfam, bclient,
                 cfam, cnowait, kills, acceptFailures, interrupts, pdeath, lost, shell, startFailures>>

\* The invoker is killed while queued or in the protocol.
InvokerKilled(c) ==
  /\ cpc[c] \in {"queued", "talking"}
  /\ cpc' = [cpc EXCEPT ![c] = "failed"]
  /\ UNCHANGED <<dpc, dmsg, children, nextPid, pipe, backlog, bpc, bfam, bclient,
                 cfam, cnowait, kills, acceptFailures, interrupts, pdeath, lost, shell, startFailures>>

-----------------------------------------------------------------------------

Daemon == DaemonConstruct \/ DaemonizeFork \/ DaemonDetach \/ DaemonStartFails
          \/ DaemonRun \/ DaemonReadPipe \/ DaemonReadInterrupted \/ DaemonForkBooster
          \/ ReapZombies \/ DaemonDies

Booster(p) ==
  \/ BoosterBoot(p) \/ BoosterAccept(p) \/ BoosterAcceptFails(p)
  \/ BoosterReceive(p) \/ BoosterReceiveAborts(p) \/ BoosterNotify(p)
  \/ BoosterExit(p) \/ BoosterKilled(p) \/ BoosterHangup(p)

Invoker(c) ==
  \/ InvokerConnect(c) \/ InvokerRefused(c) \/ InvokerLosesBooster(c)
  \/ InvokerFinish(c)
  \/ InvokerKilled(c)

Next ==
  \/ Daemon
  \/ \E p \in Pids : Booster(p)
  \/ \E c \in Clients : Invoker(c)

\* The daemon and every booster are processes the kernel keeps scheduling:
\* each of their steps that stays enabled is eventually taken.  The kernel
\* delivers an armed PR_SET_PDEATHSIG, and resets a queued connection once
\* the last holder of the listening socket has exited.  Failures, kills,
\* the target's exit and invokers' choices are not forced.
Fairness ==
  /\ WF_vars(DaemonConstruct) /\ WF_vars(DaemonizeFork) /\ WF_vars(DaemonDetach)
  /\ WF_vars(DaemonRun) /\ WF_vars(DaemonReadPipe) /\ WF_vars(DaemonForkBooster)
  /\ \A p \in Pids : /\ WF_vars(BoosterBoot(p)) /\ WF_vars(BoosterAccept(p))
                     /\ WF_vars(BoosterReceive(p)) /\ WF_vars(BoosterNotify(p))
                     /\ WF_vars(BoosterHangup(p))
  /\ \A c \in Clients : /\ WF_vars(InvokerLosesBooster(c)) /\ WF_vars(InvokerFinish(c))
                        /\ WF_vars(InvokerRefused(c))

Spec == Init /\ [][Next]_vars /\ Fairness

-----------------------------------------------------------------------------
(* Properties.                                                             *)

\* Boosters of family f that have not yet told the daemon to replace them.
Standby(f) == {p \in Pids : bfam[p] = f /\ bpc[p] \in {"boot", "accept", "recv", "notify"}}

\* Replacement requests for f not yet turned into a fork: bytes in the pipe,
\* plus the one the daemon is sleeping on.
PendingForks(f) ==
  Cardinality({i \in DOMAIN pipe : pipe[i] = f})
    + (IF dpc = "sleep" /\ dmsg = f THEN 1 ELSE 0)

\* The pool is conserved (spec 5 and 8.7): once run() has forked the
\* initial boosters, every family has exactly one booster that is booting,
\* accepting or serving an invoker and has not yet written its byte, or
\* exactly one replacement owed to it by the notify pipe and the daemon's
\* read/sleep/forkBooster loop.  It implies that two boosters of a family
\* never accept at once and that a family is never left without a booster.
PoolConserved ==
  Running =>
    \A f \in Families : Cardinality(Standby(f)) + PendingForks(f) = 1

\* Even when boosters are killed, no family ever has two boosters waiting
\* or owed: a killed booster writes no byte, so the daemon's loop, which
\* forks only on a byte, never adds a second one.  Two boosters of a
\* family would both accept() on its socket.
PoolNeverDoubled ==
  \A f \in Families : Cardinality(Standby(f)) + PendingForks(f) <= 1

\* While the daemon runs, a family is left with neither a booster waiting
\* for an invoker nor a fork owed to it only when one of its boosters ended
\* before writing its byte (killed, or aborted in recvStr()): no other
\* path, in particular no signal interrupting the daemon's read of the
\* pipe and forkBooster() running with whatever msg holds, loses a family.
PoolNeverEmpty ==
  Running =>
    \A f \in Families : \/ Cardinality(Standby(f)) + PendingForks(f) >= 1
                       \/ \E p \in lost : bfam[p] = f

\* Each interrupted read of the pipe adds at most one booster to a family,
\* and nothing else does: kills, failed accepts and reaping never make a
\* family's boosters and owed forks exceed one plus the interrupted reads.
PoolExcessBounded ==
  \A f \in Families : Cardinality(Standby(f)) + PendingForks(f) <= 1 + interrupts

\* Once the daemon is dead, connects are refused (spec 5: "Daemon death ->
\* boosters receive the parent-death signal and terminate; future
\* invokers see connect refused"): no invoker's connect is queued after
\* the daemon has died.
DeadDaemonRefuses ==
  [][\A c \in Clients : dpc = "dead" /\ cpc[c] = "idle" => cpc'[c] /= "queued"]_vars

\* The daemon's m_children never loses a live booster: reapZombies() erases
\* only pids whose process has exited, and forkBooster() stores every pid.
ChildrenTracked ==
  \A p \in Pids : bpc[p] \notin {"free", "exited"} => p \in children

\* Every invoker whose connection is queued on a family socket is eventually
\* accepted and handed off (or has died): the booster that served the
\* previous invoker of the family is always replaced (spec 7, scenario S6).
QueuedEventuallyServed ==
  \A c \in Clients :
    cpc[c] = "queued" ~> cpc[c] \in {"handedoff", "done", "failed"}

-----------------------------------------------------------------------------
(* Refinement: the launcher implements LaunchService.                      *)

\* An invoker's state as the service sees it: queued in the kernel and
\* talking to a booster are both waiting; handed off is served.
ServiceStatus == [idle |-> "idle", queued |-> "waiting", talking |-> "waiting",
                  handedoff |-> "served", done |-> "done", failed |-> "failed"]

\* A family's line: the invoker its booster is talking to, then the live
\* connections in the listening socket's queue.  Dead connections still in
\* the queue are no longer in line.
ServiceLine(f) ==
  SetToSeq({c \in Clients : cpc[c] = "talking" /\ cfam[c] = f})
    \o SelectSeq(backlog[f], LAMBDA c : cpc[c] = "queued")

LS == INSTANCE LaunchService
        WITH status  <- [c \in Clients |-> ServiceStatus[cpc[c]]],
             waiting <- [f \in Families |-> ServiceLine(f)]

\* The daemon, its boosters and the invokers implement the service: each
\* family's invokers are handed off one at a time in the order they
\* connected (accept() takes the oldest connection and only one booster of
\* a family accepts at once), and none waits forever while boosters are
\* not killed.
ImplementsLaunchService == LS!Spec

=============================================================================
