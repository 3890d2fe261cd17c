----------------------------- MODULE MCLauncher -----------------------------
(* Instantiates Launcher for TLC: the two booster types of daemon.cpp and   *)
(* two invokers.                                                          *)
EXTENDS Launcher, TLC

CONSTANTS M, Q, c1, c2

MCFamilyOrder == <<M, Q>>
MCClients == {c1, c2}

MCMaxAcceptFailures == 1

MCMaxInterrupts == 1

\* Enough pids that the bound never disables a fork: the initial boosters,
\* one replacement per invoker, per failed accept() and per interrupted read.
MCMaxPid == Len(MCFamilyOrder) + Cardinality(MCClients) + MCMaxAcceptFailures
              + MCMaxInterrupts

\* The invokers are interchangeable: no action or invariant names one.
MCClientSymmetry == Permutations(MCClients)
=============================================================================
