----------------------------- MODULE MCHandoff -----------------------------
(* Instantiates Handoff for TLC: one- and two-word command lines, an empty *)
(* environment, one with a KEY=VALUE entry and one with a malformed entry. *)
EXTENDS Handoff

MCStrings == {"", "app", "arg", "/usr/bin/app", "K=V", "junk"}
MCEnvStrings == {"K=V"}
MCArgvs == {<<"app">>, <<"app", "arg">>}
MCExecs == {"/usr/bin/app"}
MCEnvs == {<<>>, <<"K=V">>, <<"junk">>}
MCPrios == {0, 1}
=============================================================================
