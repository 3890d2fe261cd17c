--------------------------- MODULE MCHandoffRogue ---------------------------
EXTENDS HandoffRogue

MCStrings    == {"", "app"}
MCEnvStrings == {}
\* The words that steer receiveApplicationData() through receiveMagic(),
\* receiveAppName(), ARGS, ENV and END: the codes of these, a bad version,
\* a word that is no code, a zero and a small count, a name, an empty name
\* and the IO message.  EXEC, PRIO and IO are left out to keep the run
\* small; the handoff run drives them with the real invoker.
MCRogueTokens ==
  {Code(c) : c \in {"MAGIC", "MAGIC_BADVER", "NAME", "ARGS", "ENV", "END",
                    "JUNK"}}
    \cup {Num(0), Num(1), Str("app"), Str(""), Fds(TRUE)}

=============================================================================
