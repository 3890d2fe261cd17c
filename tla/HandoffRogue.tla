---------------------------- MODULE HandoffRogue ----------------------------
(***************************************************************************)
(* A booster's Connection against an arbitrary peer (RogueClient): which  *)
(* requests can the booster accept, and does every receive end?           *)
(***************************************************************************)
EXTENDS Naturals, Sequences, Wire

CONSTANTS Strings, EnvStrings, ArgMax, MaxVars, SigpipeIgnored,
          RogueTokens, MaxWrites

VARIABLES c2b, b2c, c2bClosed, b2cClosed,
          bpc, rem, req, berr, magicOk,
          writes

chan        == <<c2b, b2c, c2bClosed, b2cClosed>>
boosterVars == <<bpc, rem, req, berr, magicOk>>
vars        == <<chan, boosterVars, writes>>

Conn  == INSTANCE Connection
Rogue == INSTANCE RogueClient

TypeOK ==
  /\ c2b \in Seq(RogueTokens)
  /\ b2c \in Seq({Code("ACK")})
  /\ c2bClosed \in BOOLEAN /\ b2cClosed \in BOOLEAN
  /\ bpc \in Conn!BoosterPcs
  /\ rem \in Nat
  /\ req \in [name : Strings, exec : Strings, argc : Nat, argv : Seq(Strings),
              env : SUBSET EnvStrings, prio : Nat, io : BOOLEAN]
  /\ berr \in BOOLEAN /\ magicOk \in BOOLEAN
  /\ writes \in 0..MaxWrites

Init == /\ c2b = <<>> /\ b2c = <<>> /\ c2bClosed = FALSE /\ b2cClosed = FALSE
        /\ Conn!ConnInit /\ Rogue!RogueInit

Booster(A) == A /\ UNCHANGED writes
Peer(A)    == A /\ UNCHANGED boosterVars

Next == Booster(Conn!ConnNext) \/ Peer(Rogue!RogueNext)

\* The booster runs its reads as long as it can; the peer is arbitrary and
\* only assumed to exit some time (the process ends).
Spec == /\ Init /\ [][Next]_vars
        /\ WF_vars(Booster(Conn!ConnStep))
        /\ WF_vars(Booster(Conn!BoosterClose /\ bpc /= "done"))
        /\ WF_vars(Peer(Rogue!RogueClose))

\* Every receive ends once the peer has closed, whatever it wrote: no read
\* in receiveApplicationData() or its handlers blocks on a closed socket
\* or loops, so a booster cannot be wedged by a peer that goes away.
ReceiveEnds == <>[](bpc \in {"done", "failed", "sigpipe"})

\* A request the booster accepts is one the protocol allows: the peer sent
\* the magic of the supported version first (protocol.h; spec 4.B:
\* receiveMagic() rejects any first word that is not the magic), and the
\* request has as many argv entries as its argc, since the booster later
\* execs with AppData's argc and argv together.
AcceptedRequestValid ==
  bpc = "done" => magicOk /\ req.argc = Len(req.argv)

=============================================================================
