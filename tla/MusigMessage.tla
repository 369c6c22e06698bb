---------------------------- MODULE MusigMessage ----------------------------
(***************************************************************************)
(* What is signed for a sign command: the bytes typed after the command    *)
(* word, brought to a fixed width (format_musig_msg in src/cli/node.rs).   *)
(* Nothing limits the length of what is typed.                             *)
(***************************************************************************)
EXTENDS Naturals, Sequences

CONSTANT Width  \* of a message in bytes: 32

ASSUME WidthAssumption == Width \in Nat \ {0}

\* The vec![0u8; 32 - len] with the bytes appended.
Padded(msg) ==
    LET zeros == Width - Len(msg)
    IN  [i \in 1..Width |-> IF i <= zeros THEN 0 ELSE msg[i - zeros]]

\* Mutant: without the slice at the end.
FormatUncut(msg) == IF Len(msg) < Width THEN Padded(msg) ELSE msg

format_musig_msg(msg) ==
    IF Len(msg) < Width THEN Padded(msg) ELSE SubSeq(msg, 1, Width)
=============================================================================
