---------------------------- MODULE RogueClient ----------------------------
(***************************************************************************)
(* Any local process that connects to a booster socket: the socket is      *)
(* created with default permissions and the booster trusts what it reads.  *)
(* The peer writes up to MaxWrites tokens of its choice, never reads, and  *)
(* closes its end at a time of its choice.                                 *)
(***************************************************************************)
EXTENDS Naturals, Sequences, Wire

CONSTANTS
  RogueTokens,  \* tokens the peer may write
  MaxWrites     \* bound on the number of writes

VARIABLES
  c2b, b2c, c2bClosed, b2cClosed,   \* the socket, as in Connection
  writes                            \* tokens written so far

RogueInit == writes = 0

\* The peer writes one token; a write after the booster closed is SIGPIPE,
\* which ends the peer like a close.
RogueWrite ==
  /\ ~c2bClosed
  /\ writes < MaxWrites
  /\ IF b2cClosed
       THEN c2bClosed' = TRUE /\ UNCHANGED <<c2b, writes>>
       ELSE \E t \in RogueTokens :
              /\ c2b' = Append(c2b, t)
              /\ writes' = writes + 1
              /\ UNCHANGED c2bClosed
  /\ UNCHANGED <<b2c, b2cClosed>>

\* The peer closes its end (close() or exit).
RogueClose ==
  /\ ~c2bClosed
  /\ c2bClosed' = TRUE
  /\ UNCHANGED <<c2b, b2c, b2cClosed, writes>>

RogueNext == RogueWrite \/ RogueClose

=============================================================================
