-------------------------------- MODULE Bytes --------------------------------
(* Numbers that hardware takes byte by byte.  A byte has base values.       *)
EXTENDS Integers

\* What a one in a byte of a number is worth, the lowest byte being 0.
Place(base, n) ==
    LET two == base * base
        four == two * two
    IN  <<1, base, two, two * base, four, four * base, four * two, four * two * base,
          four * four>>[n + 1]
=============================================================================
