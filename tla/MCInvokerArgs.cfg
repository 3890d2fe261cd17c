\* Command lines of up to three options, an installed program and up to two
\* words after it, with a positive --delay.
CONSTANTS
  Installed <- MCInstalled
  Targets <- MCInstalled
  DelayWords = {"5"}
  NumArg <- MCNumArg
  RestWords <- MCRestWords
  MaxUnits = 3
  IntBits <- MCIntBits
SPECIFICATION Spec
INVARIANT ParseMatchesSpec
