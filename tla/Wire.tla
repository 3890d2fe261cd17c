-------------------------------- MODULE Wire --------------------------------
(***************************************************************************)
(* The invoker<->booster byte stream, abstracted to tokens.  A token is    *)
(* one thing the sender writes with one call: a 32-bit action code, a      *)
(* 32-bit number, a length-prefixed string, or the one-byte message that   *)
(* carries the SCM_RIGHTS control data.  The receiver reads a token with   *)
(* recvMsg(), recvStr() or recvmsg(); reading the wrong kind of token      *)
(* returns what that read makes of its bytes.                              *)
(***************************************************************************)
EXTENDS Naturals, Sequences

CONSTANTS
  Null,       \* model value: the NULL that recvStr() returns on failure
  CodeValue   \* any action code read as a number (all codes are >= 2^16)

\* The action codes of protocol.h.  "MAGIC" is INVOKER_MSG_MAGIC with the
\* supported version, "MAGIC_BADVER" the magic tag with another version,
\* "JUNK" any 32-bit word that is none of the codes.
Codes == {"MAGIC", "MAGIC_BADVER", "NAME", "EXEC", "ARGS", "ENV", "PRIO",
          "IO", "END", "ACK", "JUNK"}

Code(x) == [k |-> "code", v |-> x]
Num(n)  == [k |-> "num", v |-> n]
Str(s)  == [k |-> "str", v |-> s]
\* The IO message: one dummy byte, with (TRUE) or without (FALSE) a single
\* SCM_RIGHTS control message of three descriptors.
Fds(ok) == [k |-> "fds", v |-> ok]
\* What a read returns once the peer has closed and the stream is drained.
EOF     == [k |-> "eof", v |-> 0]

\* Every token a sender may write, its strings drawn from S.
Tokens(S) ==
  [k : {"code"}, v : Codes] \cup [k : {"num"}, v : Nat]
    \cup [k : {"str"}, v : S] \cup [k : {"fds"}, v : BOOLEAN]

\* recvMsg() read as an action code: a short read leaves 0, which is no code.
AsCode(t) == IF t.k = "code" THEN t.v ELSE "JUNK"

\* recvMsg() read as a number: 0 after a short read.
AsU32(t) ==
  CASE t.k = "num"  -> t.v
    [] t.k = "eof"  -> 0
    [] OTHER        -> CodeValue

\* recvStr(): the size word, then size bytes; NULL when the size is 0 or
\* the read comes up short.
RecvStr(t) == IF t.k = "str" THEN t.v ELSE Null

=============================================================================
