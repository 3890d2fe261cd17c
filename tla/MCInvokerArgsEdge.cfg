\* The edges of the command line: --delay 0 (spec: disables the delay),
\* --delay -1 (spec: not a non-negative integer), and a program name
\* search_program() does not find.
CONSTANTS
  Installed <- MCInstalled
  Targets = {"prog", "app.launch", "nosuch"}
  DelayWords = {"0", "5", "-1"}
  NumArg <- MCNumArg
  RestWords <- MCRestWords
  MaxUnits = 3
  IntBits <- MCIntBits
SPECIFICATION Spec
INVARIANT ParseMatchesSpec
