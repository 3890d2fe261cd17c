# TLA+ models of mapplauncherd

These modules model the launcher daemon (`src/launcher/`) and the invoker
client (`src/invoker/`) at the level of processes, sockets, the notify pipe
and the words of the invoker protocol. They are checked with TLC.

## The system

| Part | Code | State | Operations |
|---|---|---|---|
| Daemon supervisor | `daemon.cpp` `Daemon::run`, `forkBooster` (parent branch), `reapZombies` | the notify pipe's read end, `m_children`, the listening sockets | create the sockets and the pipe; fork one booster per family; loop: read a byte, `sleep(2)`, `forkBooster(byte)`; reap |
| Booster process | `daemon.cpp` `forkBooster` (child branch), `booster.h` | its type, its accepted connection, its `AppData` | reset signals, `PR_SET_PDEATHSIG`, `setsid`, `preload`, `clearenv`, `readCommand` (accept + receive), write the type byte to the pipe, `run`, exit |
| Connection | `connection.cpp` | the socket pool, `m_fd`, `m_fileName`, `m_argc`, `m_argv`, `m_priority`, `m_io`, the environment | `initSocket`, `acceptConn`, `receiveApplicationData` → `receiveMagic`, `receiveAppName`, `receiveActions` → `receiveExec`/`Args`/`Env`/`Priority`/`IO`; `sendMsg` (ACK) |
| Invoker | `invoker.c` `main`, `get_delay`, `invoke` | its options, its socket, the step of the protocol | parse the command line; connect to the family socket; MAGIC, NAME, EXEC, ARGS, PRIO (each ACKed), IO, ENV (not ACKed), END (ACKed); unless `--no-wait`, block until the booster closes |
| Start-up | `Daemon::Daemon`, `parseArgs`, `usage`, `consoleQuiet`, `daemonize` | flags, the exit status the starting command sees | parse flags (`--help` exits 0); with `--daemon` fork, the parent exits 0, fork again, the parent exits 0, `setsid`, `chdir`, stdio to `/dev/null`; then `run()` |
| Logger | `logger.cpp` `openLog`, `writeLog`, `closeLog` | `m_isOpened`, `m_useSyslog`, `m_logFile`; `/var/log/launcher.log` and `launcher.log.old` | probe `/var/log` (or create it), remove the old log, rename the log to `.old`, open a new log, or fall back to syslog; append a message; close |
| Reporting | `report.h` | none | declarations only |

How they interact:
- Invokers reach a booster only through the kernel's accept queue of the family's listening socket.
- A booster tells the daemon that it has been used by writing one byte to the shared pipe.
- The daemon forks a replacement for each byte it reads.
- Every booster and every program it becomes inherits all listening sockets and never closes them, so a socket accepts connects while any of them is alive, the daemon or not.
- A booster arms `PR_SET_PDEATHSIG` (SIGHUP) right after `fork()` and clears it after notifying; only an armed booster dies with the daemon.
- Every launcher process rotates the same two log files when it opens its log. A launcher started while another runs rotates that one's open file.
- Nothing else is shared. The daemon learns nothing from a booster that dies before writing its byte.
- The protocol is a strict alternation. The invoker blocks for an ACK after most messages, and the booster blocks for the next word.
- Some code is not under `src/`: the ACK-reading helpers of `invokelib`, the action codes of `protocol.h`, `search_program()`, and the signal set-up of the launcher's `main`. These are taken from `spec.md`. In particular, SIGPIPE is ignored (spec 4.D), SIGCHLD is handled to reap (spec 4.D), and a short read in the invoker is fatal (spec 2). Whether the SIGCHLD handler has `SA_RESTART` is not known, so it is the constant `ReadRestarts`.

Behaviours that make it hard:
- any number of invokers racing for one booster per family;
- boosters killed at any point, and the daemon itself killed;
- start-up system calls failing after the starting command has already exited;
- failed `accept()`;
- invokers killed mid-message, with each `write` separate;
- handlers whose failures `receiveActions()` ignores;
- a peer that is not the invoker at all.

## Modules

| Module | Models | Variables ↔ code |
|---|---|---|
| `Launcher` | daemon + boosters + invokers as processes (the protocol is one step) | `dpc`/`dmsg`: where `run()` is and the byte read (or the stale `msg` an interrupted read leaves); `interrupts`: reads interrupted so far; `children`: `m_children`; `pipe`: bytes in the notify pipe; `backlog`: each listening socket's accept queue; `bpc`/`bfam`/`bclient`: each forked process's step in `forkBooster()`, type and accepted invoker; `cpc`/`cfam`/`cnowait`: each invoker's step, `--type`, `--no-wait` (chosen from the constant `WaitModes`); `pdeath`: each process's armed `PR_SET_PDEATHSIG`; `shell`: what the command that started the launcher has seen (running, or its exit status); `kills`/`acceptFailures`/`startFailures`: faults so far; `lost`: boosters that ended before notifying (history) |
| `Wire` | the byte stream as tokens: one token per `invoke_send_msg`/`invoke_send_str`/`sendmsg` | `AsCode`, `AsU32`, `RecvStr`: what `recvMsg()`/`recvStr()` make of a token of another kind, or of EOF |
| `Connection` | the booster's `receiveApplicationData()`, one action per read | `bpc`: the next read; `rem`: strings left in an argv/env loop; `req`: `m_fileName`, `m_argc`, `m_argv`, `m_priority`, `m_io`, the environment and the app name; `berr`, `magicOk`: history for the properties |
| `Invoker` | `invoke()`, one action per write | `istep`/`ioff`: message and token being written; `ipc`: sending, waiting for an ACK, waiting for close, done or died |
| `LaunchService` | the abstract service: per family, a line of waiting invokers served one at a time from its head | `status`: each invoker idle, waiting, served, done or failed; `waiting`: each family's line |
| `InvokerArgs` | `main()` and `get_delay()` as the recursive operator `Parse` over argv, beside a reference `Reference` written from spec 4.E and 6 | `input`: one command line (options, program name, the program's words); it never changes |
| `Logger` | `openLog()`, `writeLog()`, `closeLog()` of several launcher processes sharing `/var/log` | `isOpened`, `useSyslog`, `logFile`: the static members of each process; `link`: the file each of the two directory entries names; `logged`, `lost`: files that got messages, and those truncated after that (history); `rotations`: how many rotations each file has been through; `fsFailures`: failed probes, `mkdir()`s and `open()`s so far |
| `RogueClient` | any local process writing arbitrary words | `writes` |
| `Handoff` | `Connection` ∥ `Invoker` over one socket (`c2b`, `b2c`, close flags) | |
| `HandoffRogue` | `Connection` ∥ `RogueClient` | |
| `MCLauncher`, `MCHandoff`, `MCHandoffRogue`, `MCInvokerArgs`, `MCLogger` | model values and small sets for TLC | |

Each action models a whole handler: its guard is the code's condition or early return, and the ACK the handler writes is part of the same step. The data is abstracted:
- strings are members of a small set;
- sizes are not modelled, so `recvStr()` either returns a string or NULL;
- the IO message either carries the three descriptors or does not;
- a word of the wrong kind reads as "JUNK" (for a code) or as `CodeValue` (for a number), as the code's comparisons would see it.

## Runs

| Run | Config | Result | What it shows |
|---|---|---|---|
| launcher_pool | `MCLauncher.cfg` | pass, ~133k states, under 1 min with 2 workers | `PoolConserved`: every family has exactly one booster or one owed fork. `ChildrenTracked`: `m_children` holds every live booster. `QueuedEventuallyServed`: every queued invoker is served. `ImplementsLaunchService`: under the refinement mapping below, every behaviour is one of `LaunchService`, its fairness included. One accept may fail and invokers may die. Every invoker waits for its program (`WaitModes = {FALSE}`). |
| launcher_kill_starves | `MCLauncherKill.cfg` | **violation** of `QueuedEventuallyServed` | A booster killed before it notifies is never replaced (finding 1) |
| launcher_faults | `MCLauncherFaults.cfg` | pass, ~2.6M states, ~1 min | all faults together: one booster killed or aborted, one interrupted read (no `SA_RESTART`), one failed start-up call, the daemon killed. `PoolNeverEmpty`: while the daemon runs, a family is without a booster or an owed fork only after one of its boosters died before notifying. `PoolExcessBounded`: a family never has more than one booster or owed fork plus the number of interrupted reads |
| launcher_daemon_dies | `MCLauncherDead.cfg` | **violation** of `DeadDaemonRefuses` | the daemon dies before its boosters armed `PR_SET_PDEATHSIG`; they live on holding the sockets, and a connect is queued instead of refused (finding 8) |
| launcher_eintr_doubles | `MCLauncherDoubled.cfg` | **violation** of `PoolNeverDoubled` | an interrupted read forks with the previous byte still in `msg`: a second booster of one family (finding 5) |
| invoker_args | `MCInvokerArgs.cfg` | pass, ~4k command lines | `ParseMatchesSpec`: `main()` launches exactly what the spec says, or exits 1, for every command line of up to three options, an installed program and two words after it |
| invoker_args_edges | `MCInvokerArgsEdge.cfg` | **violation** of `ParseMatchesSpec` | the same check with `--delay 0`, `--delay -1` and a program that is not installed among the inputs. TLC reports the missing program first (finding 7); with `Targets` limited to installed names it reports `--delay 0` (finding 6) |
| handoff | `MCHandoff.cfg` | pass, ~4k states | `HandoffAgreement`: once the invoker has read END's ACK, the booster holds exactly the launch that was sent. `ExchangeEnds`: the exchange always ends, even when the invoker dies mid-message. |
| handoff_env_error | `MCHandoffEnv.cfg` | **violation** of `NoCompletionAfterError` | An empty environment gives ENV 0, `receiveEnv()` fails, and END still completes the request (finding 2) |
| rogue_receive_ends | `MCHandoffRogue.cfg` | pass, ~750k states, ~1 min | `ReceiveEnds`: whatever a peer writes, the booster's receive ends once the peer closes |
| logger_rotation | `MCLogger.cfg` | pass, ~340 states | `RotatedLogKept`: a log file that got messages keeps all of them, under `launcher.log` or `launcher.log.old`, until two later `openLog()` calls have rotated the directory. Three launcher processes open, write and close in any overlap, and up to two probes, `mkdir()`s or `open()`s fail. A launch whose final `open()` failed counts as a rotation, because it has already renamed the log; the file log before it then survives one more start only. |
| rogue_accepts_invalid | `MCHandoffAccepted.cfg` | **violation** of `AcceptedRequestValid` | a peer gets a request accepted that the protocol does not allow. Two defects lead there: a request without the magic word (finding 3) and one whose `m_argc` disagrees with `m_argv` (finding 4). TLC reports a request without the magic first |

Findings:
1. **daemon.cpp:124.** Only a pipe byte triggers a fork. A booster that dies before writing its byte leaves the family without a booster, and invokers of that family queue forever. Spec 7 requires a replacement after an exit without notification (S1).
2. **connection.cpp:402.** `receiveActions()` ignores the handlers' return values. A failed ENV, ARGS, EXEC or IO does not end the receive.
3. **connection.cpp:189.** A first word without the magic tag is neither ACKed nor rejected.
4. **connection.cpp:251.** ARGS with a count of 0 or of `ARG_MAX` or more stores `m_argc` and keeps the old `m_argv`. The request is accepted with the two disagreeing.
5. **daemon.cpp:129.** `if (count)` takes a `read()` of -1 for a byte. When SIGCHLD interrupts the read, `forkBooster(msg)` runs with `msg` uninitialized. If it holds the previous byte, a second booster of that family accepts on its socket. If it holds garbage, the child dies as an unknown type. The model allows both outcomes. Neither empties a family (launcher_faults), but the first breaks the one-booster-per-family rule of spec 5.
6. **invoker.c:298.** `get_delay()` rejects 0, which spec 6 says disables the delay. Its `ULONG_MAX` test can never hold for an `unsigned int`, so `-1` becomes 2^32-1 seconds. Widths are scaled down (24 and 16 bits) so that TLC holds them; the wrap is the same.
7. **invoker.c:426.** A target `search_program()` does not find ends in `usage(0)`, i.e. exit 0. Spec 4.E says non-zero.
8. **daemon.cpp:160.** `PR_SET_PDEATHSIG` is armed after `fork()` returns, without checking that the daemon is still the parent, and cleared after the notify. Boosters and programs inherit the listening sockets. When the daemon dies, an unarmed booster, a booster past its notify and every running program keep the sockets open: connects still queue and an orphan booster may take one. Spec 5 says boosters terminate on the parent-death signal and later invokers see connect refused.
Start-up failures after daemonize's first exit: `daemonize()` exits the first parent with `EXIT_SUCCESS` before the second `fork()`, and before `run()` creates the sockets and the pipe. So the starting command reports success even when no daemon comes up. `Launcher` models this (`shell`, `DaemonStartFails`), but spec 7 states nothing about the exit status, so it is recorded as a hazard and not as a finding.

The refinement. `LaunchService` says what the pool promises: an invoker that asks is refused or joins its family's line; the family serves the head of its line; a waiting invoker may give up; a served one finishes; every family with a line eventually serves (weak fairness). `Launcher` maps onto it with:
- `status[c]`: `queued` and `talking` are waiting, `handedoff` is served, `done` and `failed` are themselves;
- `waiting[f]`: the invoker the family's booster is talking to, then the live connections in the accept queue, oldest first.

So a booster's `accept()` is a stutter step, its receive is `Serve`, and an invoker that dies while queued or talking is `Abandon`. The check shows that each family serves its invokers in the order they connected (two connections wait together in one accept queue, and a booster taking the newest one instead breaks the refinement), that no family serves two invokers at once, and that the daemon's replacement loop serves every line when nothing is killed.

Type invariants: `TypeOK` is checked only in the handoff run, where a NULL string stored in argv (a missing check in `receiveArgs()`) breaks it. `Launcher` and `Logger` have a `TypeOK` too, but there only a model bound (the listen backlog, the number of failing calls) could break it, so no run checks it.

Each property of a passing run has a mutant in `PROJECT.json`: a plausible bug in the mapped action, which TLC catches under the run's own config. Examples:
- a failed `readCommand()` exiting without notifying breaks `PoolConserved`;
- a probe that opens `launcher.log` instead of `launcher.log.old` breaks `RotatedLogKept`;
- an inverted erase condition in `reapZombies()` breaks `ChildrenTracked`;
- a reaper that also forks replacements breaks `PoolExcessBounded` and the refinement;
- a booster that exits instead of notifying after a failed receive breaks `PoolNeverEmpty`;
- a parse loop that does not stop at the program name breaks `ParseMatchesSpec`;
- an ACKed ENV loop breaks `HandoffAgreement`;
- an un-ACKed PRIO breaks `ExchangeEnds`.

## Bounds

- **Launcher**
  - Two families (M, Qt) and two invokers. Two invokers can contend for one family, and both families are used.
  - `Backlog = 2` scales `listen(…, 10)` down. Both invokers can wait in one family's accept queue, so the order of service is at stake. With two invokers the queue never overflows, so a connect never blocks; the kernel's bound needs no check, and no type invariant is checked for `Launcher`, whose variables' types no code change could break.
  - `MaxPid = families + invokers + accept failures` is enough pids for every fork the run can need: each fork follows one byte, and each byte follows one accept.
  - One failed accept, and at most one kill.
  - Three invokers did not finish within 20 minutes.
  - In launcher_pool every invoker waits (`WaitModes = {FALSE}`). Checking liveness and the refinement dominates the run's time, and an invoker with `--no-wait` is, for the pool, a waiting invoker that finishes at once after the handoff. launcher_faults and the violation runs allow both modes.
  - One interrupted read (`MaxInterrupts = 1`), with `MaxPid` grown by one, so that both outcomes of the stale `msg` happen.
  - launcher_faults has one kill, one interrupted read, one failed start-up call and the daemon's death together, with symmetry over the two invokers (no action or property names one).
  - Kills also stand for a booster aborting in `recvStr()` on a huge size (`BoosterReceiveAborts`): both leave the booster exited before it notifies.
- **InvokerArgs**
  - Every sequence of up to three options from `--type=m`, `--type=qt`, `--no-wait`, `--delay W` and an unknown `--bogus`, then an installed program (with and without `.launch`), then up to two words that include option words. This reaches every branch of the loop, repeated and overriding options, and options after the program.
  - `--delay` words 5 (pass run), and 0 and -1 (violation run).
- **Handoff**
  - argv of one or two strings, where two exercises the argv loop.
  - An environment that is empty (count 0, the error path), one valid entry, or one entry without `=` (the warning path).
  - Two priorities.
  - `--no-wait` both ways.
  - `ArgMax = MaxVars = 4` stand for `ARG_MAX` and `MAX_VARS`; the counts sent stay far below them, as in the code.
- **Logger**
  - Three processes: with two later starts, a file reaches `.old` and is then truncated, while a third process can overlap both.
  - Two failed file-system calls: a failed probe and a failed final `open()` can happen in one behaviour.
- **HandoffRogue**
  - Up to five writes. The tokens are the codes MAGIC (good and bad version), NAME, ARGS, ENV and END; a word that is no code; counts 0 and 1; the strings "app" and "" (an empty name, ACKed and then rejected); and the IO message. EXEC, PRIO and IO are left out to keep the run small; the handoff run drives them with the real invoker.
  - Six writes in the violation run, which is the shortest request that gets past the name.

## Fairness

- **Launcher.** Weak fairness is assumed for:
  - the daemon's steps and each booster's steps up to notify, because they are processes the kernel keeps scheduling;
  - an invoker noticing that its booster died, or finishing;
  - the kernel delivering an armed `PR_SET_PDEATHSIG`, and resetting a queued connection once the last holder of its listening socket has exited.

  Not assumed:
  - kills, failed accepts, failed start-up calls, the daemon's death and invokers connecting, which are the environment's choices;
  - a launched program exiting, because a program may run for ever.
- **Handoff.** Weak fairness is assumed for:
  - the booster's reads;
  - the booster closing after a failed receive, because the process exits;
  - the invoker's writes, ACK reads and final wait.

  Not assumed:
  - a kill of the invoker;
  - the close after a successful receive, which waits for the launched program.
- **HandoffRogue.** The peer is assumed only to exit eventually.
- **LaunchService.** Weak fairness of each family's `Serve`: a family with a waiting invoker keeps a booster that accepts. This is what the launcher's fairness has to deliver, and launcher_pool checks that it does. The interrupted read is not fair (it needs a signal at the right moment), nor is it needed.
- **Logger** is checked for safety only, so it assumes no fairness.
- **InvokerArgs** has no behaviour to be fair about: its one state never changes.

Deadlock checking is off in every run of `Launcher`, `Handoff`, `HandoffRogue` and `Logger`. Each of these models legitimately stops: all invokers are done, both ends of the socket are closed, or every launcher process has closed its log. The `InvokerArgs` runs keep it on; their state only stutters.

## Not modelled, and the plan

Left out:
- Report formatting (`report.h`): it holds declarations only.
- In the Logger:
  - the message text, timestamp, priority tag and echo mode. In echo mode `writeLog()` reuses a consumed `va_list` (undefined behaviour, logger.cpp:116). That affects only what is written.
  - two `openLog()` calls interleaving step by step. Each `openLog()` is one step, because launchers started in the same instant are not a case the code or spec addresses.
  - which process calls `openLog()` and `closeLog()`, and when. The callers are outside `src/`; each process opens once and closes once.
- In start-up, the redirections to `/dev/null`, `umask` and a `chdir("/")` failure: they change where output goes, or cannot happen in practice. `setsid()` cannot fail in the grandchild.
- A `fork()` failure in `run()`'s own two `forkBooster()` calls: `DaemonRun` is one step, so this is not among the start-up failures. The same failure later in the loop is `DaemonDies`.
- The graceful shutdown on SIGTERM: its handler is outside `src/`.
- String sizes, including `recvStr()`'s `new char[size]` (a huge size kills the booster, which has the same effect as a kill).
- `receiveIO()` reading 1 byte of a longer word.
- A read error or a short read in `recvStr()`. It stores `read()`'s result in a `uint32_t`, so -1 (for instance `ECONNRESET`) passes the `ret < size` test and the uninitialized buffer is accepted (connection.cpp:169). `Wire` reads a whole token or EOF.

- Reaping liveness (spec 8.5). `reapZombies()` is called only from the SIGCHLD handler outside `src/`, so a property that every exited pid is eventually erased would hold only by the fairness assumed for that handler.
- The refinement with kills: a kill before notify starves the family (finding 1), so `LaunchService`'s fairness fails there. launcher_pool runs without kills.

Plan for later sittings:
1. Launcher: SIGPIPE at its default disposition. A booster writing an ACK to a dead invoker dies before it notifies.
2. A stale socket path: a second launcher's `initSocket()` unlinks the path of a running one.
3. A read error in `recvStr()` (`Wire` with a token lost to `ECONNRESET`).
4. Composing `Launcher` with `Connection`, so that a failed receive, with the `AppData` it leaves behind, reaches `run()`.
