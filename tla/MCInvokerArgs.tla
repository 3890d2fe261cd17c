--------------------------- MODULE MCInvokerArgs ---------------------------
EXTENDS InvokerArgs

MCInstalled == {"prog", "app.launch"}
\* The widths are scaled down from 64 and 32 bits so that TLC's integers
\* hold them: unsigned long is MCLongBits wide, unsigned int MCIntBits.
MCLongBits == 24
MCIntBits == 16
\* strtoul(): "0" and "5" are themselves, "-1" is negated into ULONG_MAX.
MCNumArg == ("0" :> 0) @@ ("5" :> 5) @@ ("-1" :> 2^MCLongBits - 1)
MCRestWords == {"a", "--no-wait", "--bogus"}

=============================================================================
