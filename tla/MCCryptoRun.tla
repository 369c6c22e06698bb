---------------------------- MODULE MCCryptoRun ----------------------------
(* TLC instance: y^2 = x^3 + 28 over 43 elements, which has 31 points. *)
EXTENDS CryptoRun
\* A hash for the small field: any mixing of the sequence will do.
Mix(a, b) == (a * a + 3 * a + 7 * b + 5) % 101
MCHash(s) == 1 + (FoldLeft(Mix, Len(s), s) % (Q - 1))
MCKeys == 1..8
=============================================================================
