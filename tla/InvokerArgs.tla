---------------------------- MODULE InvokerArgs ----------------------------
(***************************************************************************)
(* The invoker's command line: main() and get_delay() in                   *)
(* src/invoker/invoker.c, as a recursive operator over argv[1..], checked  *)
(* against a reference definition of spec 4.E, 6 and testable property 6. *)
(* The state is one command line, built as options, a program name and    *)
(* the program's own arguments; the specification never changes it.       *)
(***************************************************************************)
EXTENDS Naturals, Sequences, SequencesExt

CONSTANTS
  Installed,   \* names search_program() finds on the standard path
  Targets,     \* program names given on the command line
  DelayWords,  \* words given after --delay
  NumArg,      \* [word -> strtoul(word, NULL, 10)], an unsigned long
  RestWords,   \* words given after the program name
  MaxUnits,    \* options on one command line
  IntBits      \* width of the unsigned int get_delay() returns

VARIABLE input  \* [opts, target, rest]

\* The option words; an option unit is one of them, or --delay and its word.
Units == {<<"--type=m">>, <<"--type=qt">>, <<"--no-wait">>, <<"--bogus">>}
           \cup {<<"--delay", d>> : d \in DelayWords}
\* strncmp(argv[i], "--", 2) == 0, for the words used here.
DashArgs == {"--type=m", "--type=qt", "--no-wait", "--delay", "--bogus",
             "--help", "--creds"}

Inputs == [opts : BoundedSeq(Units, MaxUnits), target : Targets,
           rest : BoundedSeq(RestWords, 2)]

\* argv[1..argc-1].
Args(in) == FlattenSeq(in.opts) \o <<in.target>> \o in.rest

\* strstr(argv[i], ".launch") cut to '\0': the name invoke() sends.
Stem(n) == IF n = "app.launch" THEN "app" ELSE n

\* get_delay(): strtoul() stored in an unsigned int, so modulo 2^IntBits.
GetDelay(w) == NumArg[w] % 2^IntBits

Exit(code) == [kind |-> "exit", code |-> code]
Launch(o) ==
  [kind |-> "invoke", type |-> o.type, nowait |-> o.nowait, delay |-> o.delay,
   exec |-> o.prog, argv |-> <<Stem(o.prog)>> \o o.rest]

\* app_type, no_wait, delay = DEFAULT_DELAY (0), prog_name = NULL.
InitOpts == [type |-> "unknown", nowait |-> FALSE, delay |-> 0,
             prog |-> "", rest |-> <<>>]

\* Mutant: the loop does not break at the program name.
RECURSIVE ParseNoBreak(_, _, _)
ParseNoBreak(a, i, o) ==
  IF i > Len(a) THEN IF o.prog = "" THEN Exit(1) ELSE Launch(o)
  ELSE LET w == a[i] IN
    CASE w = "--delay" ->
           IF i = Len(a) THEN ParseNoBreak(a, i + 1, o)
           ELSE IF GetDelay(a[i + 1]) = 0 THEN Exit(1)
           ELSE ParseNoBreak(a, i + 2, [o EXCEPT !.delay = GetDelay(a[i + 1])])
      [] w \in {"--help", "--creds"} -> ParseNoBreak(a, i + 1, o)
      [] w = "--no-wait" -> ParseNoBreak(a, i + 1, [o EXCEPT !.nowait = TRUE])
      [] w = "--type=m"  -> ParseNoBreak(a, i + 1, [o EXCEPT !.type = "m"])
      [] w = "--type=qt" -> ParseNoBreak(a, i + 1, [o EXCEPT !.type = "qt"])
      [] w \in DashArgs  -> Exit(1)
      [] w \notin Installed -> Exit(0)
      [] OTHER -> ParseNoBreak(a, i + 1,
                    [o EXCEPT !.prog = w, !.rest = SubSeq(a, i + 1, Len(a))])

\* main()'s loop from argv[i]: options set fields; "--delay" takes the next
\* word (none left ends the loop) and get_delay() rejects 0 with usage(1);
\* another "--" word is usage(1); the first other word is the program:
\* not found is usage(0), found breaks with the rest of argv as its
\* arguments; no program at all is die(1).
RECURSIVE Parse(_, _, _)
Parse(a, i, o) ==
  IF i > Len(a) THEN IF o.prog = "" THEN Exit(1) ELSE Launch(o)
  ELSE LET w == a[i] IN
    CASE w = "--delay" ->
           IF i = Len(a) THEN Parse(a, i + 1, o)
           ELSE IF GetDelay(a[i + 1]) = 0 THEN Exit(1)
           ELSE Parse(a, i + 2, [o EXCEPT !.delay = GetDelay(a[i + 1])])
      [] w \in {"--help", "--creds"} -> Parse(a, i + 1, o)
      [] w = "--no-wait" -> Parse(a, i + 1, [o EXCEPT !.nowait = TRUE])
      [] w = "--type=m"  -> Parse(a, i + 1, [o EXCEPT !.type = "m"])
      [] w = "--type=qt" -> Parse(a, i + 1, [o EXCEPT !.type = "qt"])
      [] w \in DashArgs  -> Exit(1)
      [] w \notin Installed -> Exit(0)
      [] OTHER -> Launch([o EXCEPT !.prog = w, !.rest = SubSeq(a, i + 1, Len(a))])

\* main(): no arguments is usage(1); one is "--creds" or "--help" (exit 0)
\* or usage(1); then the loop; then invoke(), whose invoker_init() dies on
\* an unknown type.
Main(a) ==
  LET r == Parse(a, 1, InitOpts) IN
  CASE Len(a) = 0 -> Exit(1)
    [] Len(a) = 1 -> IF a[1] \in {"--creds", "--help"} THEN Exit(0) ELSE Exit(1)
    [] r.kind = "invoke" /\ r.type = "unknown" -> Exit(1)
    [] OTHER -> r

Init == input \in Inputs
Next == UNCHANGED input
Spec == Init /\ [][Next]_input

-----------------------------------------------------------------------------
(* The reference: the command line as spec 4.E and 6 describe it.          *)

\* --delay takes a non-negative integer; 0 disables the delay.
SpecDelay == [w \in {"0", "5"} |-> NumArg[w]]

Reference(in) ==
  LET o == in.opts
      types  == {i \in DOMAIN o : o[i] \in {<<"--type=m">>, <<"--type=qt">>}}
      delays == {i \in DOMAIN o : o[i][1] = "--delay"}
      LastOf(S) == CHOOSE i \in S : \A j \in S : j <= i
  IN
  IF \/ \E i \in DOMAIN o : o[i] = <<"--bogus">>
     \/ \E i \in delays : o[i][2] \notin DOMAIN SpecDelay
     \/ in.target \notin Installed
     \/ types = {}
  THEN Exit(1)
  ELSE [kind |-> "invoke",
        type |-> IF o[LastOf(types)] = <<"--type=m">> THEN "m" ELSE "qt",
        nowait |-> \E i \in DOMAIN o : o[i] = <<"--no-wait">>,
        delay |-> IF delays = {} THEN 0 ELSE SpecDelay[o[LastOf(delays)][2]],
        exec |-> in.target, argv |-> <<Stem(in.target)>> \o in.rest]

\* main() parses every command line as the spec says: the last --type and
\* --delay count, --no-wait anywhere before the program, an unknown option
\* or a missing program or type is exit 1, and every word after the program
\* (options included) is passed to the program untouched.
ParseMatchesSpec == Main(Args(input)) = Reference(input)

=============================================================================
