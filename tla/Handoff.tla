------------------------------ MODULE Handoff ------------------------------
(***************************************************************************)
(* One invoker and the booster that accepted its connection, message by    *)
(* message: Invoker's send side and Connection's receive side over the     *)
(* two directions of the Unix stream socket.                               *)
(***************************************************************************)
EXTENDS Naturals, Sequences, FiniteSets

CONSTANTS Null, CodeValue, Strings, EnvStrings, ArgMax, MaxVars,
          SigpipeIgnored, Argvs, Execs, Envs, Prios

VARIABLES c2b, b2c, c2bClosed, b2cClosed,
          bpc, rem, req, berr, magicOk,
          ipc, istep, ioff, intent, nowait

chan  == <<c2b, b2c, c2bClosed, b2cClosed>>
boosterVars == <<bpc, rem, req, berr, magicOk>>
invokerVars == <<ipc, istep, ioff, intent, nowait>>
vars  == <<chan, boosterVars, invokerVars>>

Conn == INSTANCE Connection
Inv  == INSTANCE Invoker

TypeOK ==
  /\ c2b \in Seq(Conn!Tokens(Strings))
  /\ b2c \in Seq({Conn!Code("ACK")})
  /\ c2bClosed \in BOOLEAN /\ b2cClosed \in BOOLEAN
  /\ bpc \in Conn!BoosterPcs
  /\ rem \in Nat
  /\ req \in [name : Strings, exec : Strings, argc : Nat, argv : Seq(Strings),
              env : SUBSET EnvStrings, prio : Nat, io : BOOLEAN]
  /\ berr \in BOOLEAN /\ magicOk \in BOOLEAN
  /\ ipc \in {"send", "ack", "wait", "done", "died"}
  /\ istep \in 1..8
  /\ ioff \in Nat
  /\ intent \in Inv!Intents
  /\ nowait \in BOOLEAN

Init ==
  /\ c2b = <<>> /\ b2c = <<>> /\ c2bClosed = FALSE /\ b2cClosed = FALSE
  /\ Conn!ConnInit
  /\ Inv!InvInit

\* A step of one side leaves the other side's private state alone.
Booster(A) == A /\ UNCHANGED invokerVars
Invoker(A) == A /\ UNCHANGED boosterVars

Next ==
  \/ Booster(Conn!ConnNext)
  \/ Invoker(Inv!InvNext)

\* Both are processes the kernel keeps scheduling.  The booster's socket
\* closes on its own only after a failed receive (the booster exits); after
\* a successful one it closes when the launched program exits, which is not
\* assumed.  Killing the invoker is not forced.
Fairness ==
  /\ WF_vars(Booster(Conn!ConnStep))
  /\ WF_vars(Booster(Conn!BoosterClose /\ bpc /= "done"))
  /\ WF_vars(Invoker(Inv!InvokerSend)) /\ WF_vars(Invoker(Inv!InvokerRecvAck))
  /\ WF_vars(Invoker(Inv!InvokerWait))

Spec == Init /\ [][Next]_vars /\ Fairness

-----------------------------------------------------------------------------
(* Properties.                                                             *)

\* What the booster should hold once the invoker's launch is accepted: the
\* invoker's argv[0] as name, its resolved path, argv and priority, its
\* stdio descriptors, and the entries of its environment that contain '='.
Expected ==
  [name |-> intent.argv[1], exec |-> intent.exec,
   argc |-> Len(intent.argv), argv |-> intent.argv,
   env |-> {intent.env[i] : i \in {j \in DOMAIN intent.env : intent.env[j] \in EnvStrings}},
   prio |-> intent.prio, io |-> TRUE]

\* When the invoker has read the ACK of END (and goes on to wait or exit 0),
\* the booster has received END and holds exactly the launch the invoker
\* sent.  The ACKs it counts are the booster's answers to its own messages,
\* although IO and ENV are answered by none.
HandoffAgreement ==
  ipc \in {"wait", "done"} => bpc = "done" /\ req = Expected

\* The exchange never wedges: the invoker gets past END or exits, and the
\* booster finishes or abandons the receive.
ExchangeEnds ==
  <>(ipc \in {"wait", "done", "died"} /\ bpc \in {"done", "failed", "sigpipe"})

\* A request counts as received only if no handler failed on the way
\* (spec 3: partial requests are discarded on any read error; spec 4.B:
\* an ENV count out of range terminates the connection).
NoCompletionAfterError ==
  bpc = "done" => ~berr

=============================================================================
