----------------------------- MODULE Connection -----------------------------
(***************************************************************************)
(* The booster's side of one invoker connection: Connection::              *)
(* receiveApplicationData() and the handlers it calls                      *)
(* (src/launcher/connection.cpp).  The booster reads tokens from c2b and   *)
(* writes ACKs to b2c; every handler is one step per read it makes.  The   *)
(* handlers' return values are ignored by receiveActions(), so a failed    *)
(* handler goes back to reading the next action.                           *)
(***************************************************************************)
EXTENDS Naturals, Sequences, Wire

CONSTANTS
  Strings,     \* strings a peer may send, "" included
  EnvStrings,  \* those of Strings that contain '='
  ArgMax,      \* sysconf(_SC_ARG_MAX)
  MaxVars,     \* receiveEnv(): MAX_VARS (1024)
  SigpipeIgnored \* the process ignores SIGPIPE (nothing under src/ does)

ASSUME /\ "" \in Strings /\ EnvStrings \subseteq Strings
       /\ ArgMax \in Nat /\ MaxVars \in Nat /\ SigpipeIgnored \in BOOLEAN
       /\ CodeValue >= ArgMax /\ CodeValue >= MaxVars

VARIABLES
  c2b,        \* tokens the invoker has written and the booster not yet read
  b2c,        \* ACKs the booster has written and the invoker not yet read
  c2bClosed,  \* the invoker's end of the socket is closed
  b2cClosed,  \* the booster's end of the socket is closed
  bpc,        \* which read the booster makes next
  rem,        \* strings still to read in the argv or environment loop
  req,        \* the AppData fields and environment built so far
  berr,       \* some handler has returned false (history)
  magicOk     \* the first word was the magic with the supported version (history)

cvars == <<bpc, rem, req, berr, magicOk>>

BoosterPcs == {"magic", "name", "namestr", "actions", "exec", "argc", "argv",
               "envc", "envv", "prio", "io", "done", "failed", "sigpipe"}

\* The connection's fields as the constructor leaves them: m_fileName(""),
\* m_argc(0), m_argv(NULL), m_io[] = -1, m_priority(0); the environment
\* was emptied by clearenv() in forkBooster().
InitReq == [name |-> "", exec |-> "", argc |-> 0, argv |-> <<>>,
            env |-> {}, prio |-> 0, io |-> FALSE]

ConnInit ==
  /\ bpc = "magic"
  /\ rem = 0
  /\ req = InitReq
  /\ berr = FALSE
  /\ magicOk = FALSE

\* A read can complete: a token is there, or the peer closed (EOF).
Readable == c2b /= <<>> \/ c2bClosed
Tok == IF c2b /= <<>> THEN Head(c2b) ELSE EOF
Consume == c2b' = IF c2b /= <<>> THEN Tail(c2b) ELSE c2b

\* sendMsg(INVOKER_MSG_ACK), then go on at pc.  write() to a socket whose
\* peer has closed raises SIGPIPE, which kills the booster unless ignored.
Ack(pc) ==
  IF c2bClosed /\ ~SigpipeIgnored
    THEN bpc' = "sigpipe" /\ UNCHANGED b2c
    ELSE bpc' = pc /\ b2c' = Append(b2c, Code("ACK"))

\* One read by the booster: consume a token, take step A.
Read(A) == /\ bpc \notin {"done", "failed", "sigpipe"} /\ Readable /\ Consume /\ A
               /\ UNCHANGED <<c2bClosed, b2cClosed>>

\* receiveMagic(): ACK the supported magic; a bad version returns -1 and
\* ends the receive.  Any word without the magic tag is not rejected: the
\* options are taken from it and receiveAppName() runs next.
RecvMagic == Read(
  /\ bpc = "magic"
  /\ magicOk' = (AsCode(Tok) = "MAGIC")
  /\ CASE AsCode(Tok) = "MAGIC"        -> Ack("name")
       [] AsCode(Tok) = "MAGIC_BADVER" -> bpc' = "failed" /\ UNCHANGED b2c
       [] OTHER                        -> bpc' = "name" /\ UNCHANGED b2c
  /\ UNCHANGED <<rem, req, berr>>)

\* receiveAppName(): the action must be NAME.
RecvNameMsg == Read(
  /\ bpc = "name"
  /\ bpc' = IF AsCode(Tok) = "NAME" THEN "namestr" ELSE "failed"
  /\ UNCHANGED <<b2c, rem, req, berr, magicOk>>)

\* receiveAppName(): the name string is ACKed before it is checked; an
\* empty name makes receiveApplicationData() return false.
RecvNameStr == Read(
  LET s == RecvStr(Tok) IN
  /\ bpc = "namestr"
  /\ IF s = Null
       THEN /\ bpc' = "failed" /\ UNCHANGED <<b2c, req>>
       ELSE /\ req' = [req EXCEPT !.name = s]
            /\ Ack(IF s = "" THEN "failed" ELSE "actions")
  /\ UNCHANGED <<rem, berr, magicOk>>)

\* receiveActions(): dispatch on the action code; END is ACKed and ends
\* the loop with success, an unknown code ends it with failure.
RecvAction == Read(
  LET a == AsCode(Tok)
      Handler == [EXEC |-> "exec", ARGS |-> "argc", ENV |-> "envc",
                  PRIO |-> "prio", IO |-> "io"]
  IN
  /\ bpc = "actions"
  /\ CASE a \in DOMAIN Handler -> bpc' = Handler[a] /\ UNCHANGED b2c
       [] a = "END"            -> Ack("done")
       [] OTHER                -> bpc' = "failed" /\ UNCHANGED b2c
  /\ UNCHANGED <<rem, req, berr, magicOk>>)

\* A handler returns false; receiveActions() ignores it and loops.
Fail == /\ berr' = TRUE /\ bpc' = "actions"

\* receiveExec()
RecvExec == Read(
  LET s == RecvStr(Tok) IN
  /\ bpc = "exec"
  /\ IF s = Null
       THEN Fail /\ UNCHANGED <<b2c, req>>
       ELSE /\ req' = [req EXCEPT !.exec = s]
            /\ Ack("actions") /\ UNCHANGED berr
  /\ UNCHANGED <<rem, magicOk>>)

\* receiveArgs(): m_argc takes the count whatever it is; only a count in
\* (0, ARG_MAX) allocates a new m_argv and reads that many strings.
RecvArgc == Read(
  LET n == AsU32(Tok) IN
  /\ bpc = "argc"
  /\ IF 0 < n /\ n < ArgMax
       THEN /\ req' = [req EXCEPT !.argc = n, !.argv = <<>>]
            /\ rem' = n /\ bpc' = "argv" /\ UNCHANGED b2c
       ELSE /\ req' = [req EXCEPT !.argc = n]
            /\ Ack("actions") /\ UNCHANGED rem
  /\ UNCHANGED <<berr, magicOk>>)

\* Mutant: the NULL check on m_argv[i] is missing.
RecvArgvNoNullCheck == Read(
  LET s == RecvStr(Tok) IN
  /\ bpc = "argv"
  /\ req' = [req EXCEPT !.argv = Append(@, s)]
  /\ rem' = rem - 1
  /\ IF rem = 1 THEN Ack("actions") ELSE UNCHANGED <<b2c, bpc>>
  /\ UNCHANGED <<berr, magicOk>>)

\* receiveArgs(): one m_argv[i] = recvStr(); a NULL returns false without
\* an ACK; the ACK follows the last string.
RecvArgv == Read(
  LET s == RecvStr(Tok) IN
  /\ bpc = "argv"
  /\ IF s = Null
       THEN Fail /\ UNCHANGED <<b2c, req, rem>>
       ELSE /\ req' = [req EXCEPT !.argv = Append(@, s)]
            /\ rem' = rem - 1
            /\ IF rem = 1 THEN Ack("actions") ELSE UNCHANGED <<b2c, bpc>>
            /\ UNCHANGED berr
  /\ UNCHANGED magicOk)

\* receiveEnv(): a count outside (0, MAX_VARS) returns false.  No ACK.
RecvEnvc == Read(
  LET n == AsU32(Tok) IN
  /\ bpc = "envc"
  /\ IF 0 < n /\ n < MaxVars
       THEN rem' = n /\ bpc' = "envv" /\ UNCHANGED berr
       ELSE Fail /\ UNCHANGED rem
  /\ UNCHANGED <<b2c, req, magicOk>>)

\* Mutant: the environment loop is ACKed like the argv loop.
RecvEnvvAcked == Read(
  LET s == RecvStr(Tok) IN
  /\ bpc = "envv"
  /\ IF s = Null
       THEN Fail /\ UNCHANGED <<b2c, req, rem>>
       ELSE /\ req' = IF s \in EnvStrings THEN [req EXCEPT !.env = @ \cup {s}]
                                          ELSE req
            /\ rem' = rem - 1
            /\ IF rem = 1 THEN Ack("actions") ELSE UNCHANGED <<b2c, bpc>>
            /\ UNCHANGED berr
  /\ UNCHANGED magicOk)

\* Mutant: a NULL string is skipped and the loop goes on waiting for it.
RecvEnvvSkipsNull == Read(
  LET s == RecvStr(Tok) IN
  /\ bpc = "envv"
  /\ IF s = Null
       THEN UNCHANGED <<bpc, req, rem, berr>>
       ELSE /\ req' = IF s \in EnvStrings THEN [req EXCEPT !.env = @ \cup {s}]
                                          ELSE req
            /\ rem' = rem - 1
            /\ bpc' = IF rem = 1 THEN "actions" ELSE "envv"
            /\ UNCHANGED berr
  /\ UNCHANGED <<b2c, magicOk>>)

\* receiveEnv(): one recvStr(); putenv() if it contains '=', else a
\* warning; a NULL returns false.  No ACK after the last string.
RecvEnvv == Read(
  LET s == RecvStr(Tok) IN
  /\ bpc = "envv"
  /\ IF s = Null
       THEN Fail /\ UNCHANGED <<req, rem>>
       ELSE /\ req' = IF s \in EnvStrings THEN [req EXCEPT !.env = @ \cup {s}]
                                          ELSE req
            /\ rem' = rem - 1
            /\ bpc' = IF rem = 1 THEN "actions" ELSE "envv"
            /\ UNCHANGED berr
  /\ UNCHANGED <<b2c, magicOk>>)

\* Mutant: the priority is not ACKed.
RecvPrioNoAck == Read(
  /\ bpc = "prio"
  /\ req' = [req EXCEPT !.prio = AsU32(Tok)]
  /\ bpc' = "actions"
  /\ UNCHANGED <<b2c, rem, berr, magicOk>>)

\* receivePriority(): recvMsg()'s result is not checked; always ACKed.
RecvPrio == Read(
  /\ bpc = "prio"
  /\ req' = [req EXCEPT !.prio = AsU32(Tok)]
  /\ Ack("actions")
  /\ UNCHANGED <<rem, berr, magicOk>>)

\* receiveIO(): recvmsg() must bring exactly one SCM_RIGHTS message of
\* three descriptors; otherwise it returns false.  No ACK.
RecvIO == Read(
  /\ bpc = "io"
  /\ IF Tok.k = "fds" /\ Tok.v
       THEN req' = [req EXCEPT !.io = TRUE] /\ bpc' = "actions" /\ UNCHANGED berr
       ELSE Fail /\ UNCHANGED req
  /\ UNCHANGED <<b2c, rem, magicOk>>)

\* The booster's socket closes: after a failed receive, when the launched
\* program exits, or when SIGPIPE has killed the booster.
BoosterClose ==
  /\ bpc \in {"done", "failed", "sigpipe"}
  /\ ~b2cClosed
  /\ b2cClosed' = TRUE
  /\ UNCHANGED <<c2b, b2c, c2bClosed, bpc, rem, req, berr, magicOk>>

ConnStep ==
  \/ RecvMagic \/ RecvNameMsg \/ RecvNameStr \/ RecvAction \/ RecvExec
  \/ RecvArgc \/ RecvArgv \/ RecvEnvc \/ RecvEnvv \/ RecvPrio \/ RecvIO

ConnNext == ConnStep \/ BoosterClose

=============================================================================
