------------------------------- MODULE Logger -------------------------------
(***************************************************************************)
(* The launcher's log file (src/launcher/logger.cpp).  A launcher process *)
(* opens its log once with Logger::openLog().  First it checks that        *)
(* /var/log is writable by creating and removing launcher.log.old, or by   *)
(* creating the directory.  Then it removes launcher.log.old, renames      *)
(* launcher.log to launcher.log.old and opens a new launcher.log.  When a  *)
(* step fails it falls back to syslog.  Launcher processes that run one    *)
(* after another, or at the same time, share the two directory entries.   *)
(*                                                                         *)
(* A file is a model value: the process whose openLog() created it.  A     *)
(* missing /var/log is not a separate state.  It holds no files, and a     *)
(* successful mkdir() leads to the same steps as a successful probe.       *)
(***************************************************************************)
EXTENDS Naturals, FiniteSets

CONSTANTS
    Procs,          \* launcher processes; each one opens the log once
    NoFile,         \* an absent directory entry, or a QFile with no file open
    MaxFsFailures   \* how many of openLog()'s file-system calls may fail

ASSUME MaxFsFailures \in Nat /\ NoFile \notin Procs

\* The directory entries /var/log/launcher.log and /var/log/launcher.log.old.
Names == {"log", "old"}

\* The files openLog() can create: one per process.
Files == Procs

VARIABLES
    pc,           \* p's caller: "idle" before openLog(), "open", or "closed" after closeLog()
    isOpened,     \* Logger::m_isOpened of process p
    useSyslog,    \* Logger::m_useSyslog of process p
    logFile,      \* the file that p's Logger::m_logFile has open, or NoFile
    link,         \* the file each directory entry names, or NoFile
    logged,       \* history: files that have received a message
    lost,         \* history: files truncated after they received a message
    rotations,    \* rotations since file f was created, capped at 2
    fsFailures    \* failed file-system calls so far

vars == <<pc, isOpened, useSyslog, logFile, link, logged, lost, rotations,
          fsFailures>>

TypeOK ==
    /\ pc \in [Procs -> {"idle", "open", "closed"}]
    /\ isOpened \in [Procs -> BOOLEAN]
    /\ useSyslog \in [Procs -> BOOLEAN]
    /\ logFile \in [Procs -> Files \cup {NoFile}]
    /\ link \in [Names -> Files \cup {NoFile}]
    /\ logged \subseteq Files /\ lost \subseteq logged
    /\ rotations \in [Files -> 0..2]
    /\ fsFailures \in 0..MaxFsFailures

\* The static members start out false, and the log directory starts out empty.
Init ==
    /\ pc = [p \in Procs |-> "idle"]
    /\ isOpened = [p \in Procs |-> FALSE]
    /\ useSyslog = [p \in Procs |-> FALSE]
    /\ logFile = [p \in Procs |-> NoFile]
    /\ link = [n \in Names |-> NoFile]
    /\ logged = {} /\ lost = {}
    /\ rotations = [f \in Files |-> 0]
    /\ fsFailures = 0

\* The outcome of a file-system call: it succeeds, or fails while failures remain.
FsCall == {TRUE} \cup (IF fsFailures < MaxFsFailures THEN {FALSE} ELSE {})

\* Mutant: the probe opens logFileName instead of oldLogFileName.
ProbeTargetLog == "log"

\* The entry the writability probe opens WriteOnly and then removes.
ProbeTarget == "old"

\* Mutant: the rename is dropped; only the old log is removed.
RotateNoRename(l) == [l EXCEPT !["old"] = NoFile]

\* remove(oldLogFileName); rename(logFileName, oldLogFileName).  The rename
\* fails only when there is no launcher.log, and then .old stays absent.
Rotate(l) == [l EXCEPT !["old"] = l["log"], !["log"] = NoFile]

\* QFile::open(WriteOnly) on entry n of l: the file it names is truncated.
Truncated(l, n) == IF l[n] = NoFile THEN {} ELSE {l[n]} \cap logged

(***************************************************************************)
(* Logger::openLog(), called once by process p.  dirOk is the outcome of   *)
(* the probe's open(), or of mkdir() when /var/log is missing.  openOk is  *)
(* the outcome of the final open() of launcher.log.                       *)
(***************************************************************************)
OpenLog(p) ==
    /\ pc[p] = "idle"
    /\ ~isOpened[p]
    /\ \E dirOk \in FsCall, openOk \in FsCall :
        LET probed  == [link EXCEPT ![ProbeTarget] = NoFile]
            rotated == Rotate(probed)
            opened  == IF rotated["log"] = NoFile THEN p ELSE rotated["log"]
        IN
        /\ dirOk \/ openOk        \* a failed probe skips the final open()
        /\ fsFailures' = fsFailures + (IF dirOk /\ openOk THEN 0 ELSE 1)
        /\ useSyslog' = [useSyslog EXCEPT ![p] = ~(dirOk /\ openOk)]
        /\ IF dirOk
           THEN /\ link' = IF openOk THEN [rotated EXCEPT !["log"] = opened]
                                     ELSE rotated
                /\ logFile' = [logFile EXCEPT ![p] = IF openOk THEN opened
                                                              ELSE NoFile]
                /\ lost' = lost \cup Truncated(link, ProbeTarget)
                              \cup (IF openOk THEN Truncated(rotated, "log")
                                              ELSE {})
                /\ rotations' = [f \in Files |->
                                  IF openOk /\ f = opened /\ rotated["log"] = NoFile
                                  THEN 0
                                  ELSE IF rotations[f] < 2 THEN rotations[f] + 1
                                                           ELSE 2]
           ELSE UNCHANGED <<link, logFile, lost, rotations>>
    /\ isOpened' = [isOpened EXCEPT ![p] = TRUE]
    /\ pc' = [pc EXCEPT ![p] = "open"]
    /\ UNCHANGED logged

\* Logger::writeLog() to the file: the stream appends to the open file,
\* whatever entry, if any, still names it.  Writes to syslog change no file.
WriteLog(p) ==
    /\ isOpened[p]
    /\ ~useSyslog[p]
    /\ logged' = logged \cup {logFile[p]}
    /\ UNCHANGED <<pc, isOpened, useSyslog, logFile, link, lost, rotations,
                   fsFailures>>

\* Logger::closeLog() at exit.  m_useSyslog is not reset.
CloseLog(p) ==
    /\ isOpened[p]
    /\ isOpened' = [isOpened EXCEPT ![p] = FALSE]
    /\ logFile' = [logFile EXCEPT ![p] = NoFile]
    /\ pc' = [pc EXCEPT ![p] = "closed"]
    /\ UNCHANGED <<useSyslog, link, logged, lost, rotations, fsFailures>>

Next == \E p \in Procs : OpenLog(p) \/ WriteLog(p) \/ CloseLog(p)

Spec == Init /\ [][Next]_vars

(***************************************************************************)
(* The log rotates and keeps the previous run (spec: "a rotating log file  *)
(* under /var/log").  A file that received messages keeps all of them, and *)
(* a directory entry still names it, until two later openLog() calls have  *)
(* rotated the directory.  Only the second of those may truncate it, when  *)
(* its probe opens launcher.log.old.  This checks the order of openLog()'s *)
(* probe, remove, rename and open, across processes that run at the same   *)
(* time and calls that fail.                                               *)
(***************************************************************************)
RotatedLogKept ==
    \A f \in logged :
        rotations[f] < 2 => /\ f \notin lost
                            /\ \E n \in Names : link[n] = f
=============================================================================
