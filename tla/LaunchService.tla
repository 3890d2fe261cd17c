---------------------------- MODULE LaunchService ----------------------------
(***************************************************************************)
(* What the launcher promises its invokers (spec 1, 5 and scenario S6),    *)
(* with no daemon, boosters or sockets: an invoker asks for a launch of a  *)
(* family and waits in that family's line; the lines are served in order,  *)
(* each request handed to a booster of its own; a waiting invoker may give  *)
(* up (die) at any time, and every line that is not empty is served.       *)
(***************************************************************************)
EXTENDS Sequences, SequencesExt

CONSTANTS Families, Clients

VARIABLES
  status,   \* per invoker: "idle", "waiting", "served", "done", "failed"
  waiting   \* per family: the invokers waiting, in the order they asked

vars == <<status, waiting>>

Init ==
  /\ status = [c \in Clients |-> "idle"]
  /\ waiting = [f \in Families |-> <<>>]

\* An invoker asks for a launch of family f and joins the end of its line.
Request(c, f) ==
  /\ status[c] = "idle"
  /\ status' = [status EXCEPT ![c] = "waiting"]
  /\ waiting' = [waiting EXCEPT ![f] = Append(@, c)]

\* The launcher is not running yet: the request is refused.
Refuse(c) ==
  /\ status[c] = "idle"
  /\ status' = [status EXCEPT ![c] = "failed"]
  /\ UNCHANGED waiting

\* The first invoker in f's line has its launch handed over.
Serve(f) ==
  /\ waiting[f] /= <<>>
  /\ status' = [status EXCEPT ![Head(waiting[f])] = "served"]
  /\ waiting' = [waiting EXCEPT ![f] = Tail(@)]

\* A waiting invoker dies and leaves its line.
Abandon(c) ==
  /\ status[c] = "waiting"
  /\ status' = [status EXCEPT ![c] = "failed"]
  /\ waiting' = [f \in Families |-> Remove(waiting[f], c)]

\* A served invoker returns.
Finish(c) ==
  /\ status[c] = "served"
  /\ status' = [status EXCEPT ![c] = "done"]
  /\ UNCHANGED waiting

Next ==
  \/ \E c \in Clients : \/ \E f \in Families : Request(c, f)
                        \/ Refuse(c) \/ Abandon(c) \/ Finish(c)
  \/ \E f \in Families : Serve(f)

\* No line that stays non-empty is left unserved.
Spec == Init /\ [][Next]_vars /\ \A f \in Families : WF_vars(Serve(f))

=============================================================================
