------------------------------ MODULE Invoker ------------------------------
(***************************************************************************)
(* The invoker's side of the connection: invoke() in                       *)
(* src/invoker/invoker.c.  It writes the messages of one launch in a       *)
(* fixed order and, after each message but IO and ENV, blocks until it     *)
(* reads one ACK (invoke_recv_ack()); anything else, or EOF, is fatal.     *)
(***************************************************************************)
EXTENDS Naturals, Sequences, Wire

CONSTANTS
  Argvs,   \* prog_argv values: non-empty sequences, prog_argv[0] the name
  Execs,   \* prog_name values: the path search_program() resolved
  Envs,    \* environ values: sequences of strings
  Prios    \* getpriority() values

VARIABLES
  c2b, b2c, c2bClosed, b2cClosed,   \* the socket, as in Connection
  ipc,      \* "send", "ack" (blocked in invoke_recv_ack()), "wait", "done", "died"
  istep,    \* index in Program of the message being sent or acknowledged
  ioff,     \* tokens of message istep already written
  intent,   \* what this invoker launches
  nowait    \* --no-wait

ivars == <<ipc, istep, ioff, intent, nowait>>

Intents == [argv : Argvs, exec : Execs, env : Envs, prio : Prios]

\* The messages invoke() sends, in order: invoker_send_magic, _name, _exec,
\* _args, _prio, _io, _env, _end.  ack: whether it then waits for an ACK.
Program ==
  LET argv == intent.argv
      env  == intent.env
  IN
  << [msg |-> <<Code("MAGIC")>>, ack |-> TRUE],
     [msg |-> <<Code("NAME"), Str(argv[1])>>, ack |-> TRUE],
     [msg |-> <<Code("EXEC"), Str(intent.exec)>>, ack |-> TRUE],
     [msg |-> <<Code("ARGS"), Num(Len(argv))>>
                \o [i \in 1..Len(argv) |-> Str(argv[i])], ack |-> TRUE],
     [msg |-> <<Code("PRIO"), Num(intent.prio)>>, ack |-> TRUE],
     [msg |-> <<Code("IO"), Fds(TRUE)>>, ack |-> FALSE],
     [msg |-> <<Code("ENV"), Num(Len(env))>>
                \o [i \in 1..Len(env) |-> Str(env[i])], ack |-> FALSE],
     [msg |-> <<Code("END")>>, ack |-> TRUE] >>

InvInit ==
  /\ ipc = "send"
  /\ istep = 1
  /\ ioff = 0
  /\ intent \in Intents
  /\ nowait \in BOOLEAN

\* The invoker exits: its end of the socket closes.
Exit(pc) == ipc' = pc /\ c2bClosed' = TRUE

\* Go on after message istep.
Advance ==
  /\ ioff' = 0
  /\ IF istep = Len(Program) THEN ipc' = "wait" /\ UNCHANGED istep
                             ELSE ipc' = "send" /\ istep' = istep + 1

\* One write of message istep: invoke_send_msg(), invoke_send_str() or
\* sendmsg().  Writing to a socket the booster has closed raises SIGPIPE,
\* which kills the invoker.
InvokerSend ==
  LET msg == Program[istep].msg IN
  /\ ipc = "send"
  /\ IF b2cClosed
       THEN Exit("died") /\ UNCHANGED <<c2b, istep, ioff>>
       ELSE /\ c2b' = Append(c2b, msg[ioff + 1])
            /\ CASE ioff + 1 < Len(msg)  -> ioff' = ioff + 1 /\ UNCHANGED <<ipc, istep>>
                 [] Program[istep].ack -> ipc' = "ack" /\ UNCHANGED <<istep, ioff>>
                 [] OTHER              -> Advance
            /\ UNCHANGED c2bClosed
  /\ UNCHANGED <<b2c, b2cClosed, intent, nowait>>

\* invoke_recv_ack(): an ACK lets the invoker go on; any other word, or
\* EOF once the booster has closed, is die(1, ...).
InvokerRecvAck ==
  /\ ipc = "ack"
  /\ b2c /= <<>> \/ b2cClosed
  /\ IF b2c /= <<>> /\ Head(b2c) = Code("ACK")
       THEN Advance /\ UNCHANGED c2bClosed
       ELSE Exit("died") /\ UNCHANGED <<istep, ioff>>
  /\ b2c' = IF b2c /= <<>> THEN Tail(b2c) ELSE b2c
  /\ UNCHANGED <<c2b, b2cClosed, intent, nowait>>

\* invoke(): unless --no-wait, recv(fd, &dummy_buf, 0, MSG_WAITALL) blocks
\* until the socket is readable (the kernel's low-water mark is at least one
\* byte): the booster closes it, or writes to it.  Then close(fd).
InvokerWait ==
  /\ ipc = "wait"
  /\ nowait \/ b2cClosed \/ b2c /= <<>>
  /\ Exit("done")
  /\ UNCHANGED <<c2b, b2c, b2cClosed, istep, ioff, intent, nowait>>

\* A signal kills the invoker before it is done.
InvokerKilled ==
  /\ ipc \in {"send", "ack", "wait"}
  /\ Exit("died")
  /\ UNCHANGED <<c2b, b2c, b2cClosed, istep, ioff, intent, nowait>>

InvNext == InvokerSend \/ InvokerRecvAck \/ InvokerWait \/ InvokerKilled

=============================================================================
