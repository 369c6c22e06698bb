------------------------------ MODULE KeyCodec ------------------------------
(***************************************************************************)
(* Keys, nonces and shares as the bytes messages carry them                *)
(* (src/cli/protocals/key.rs), and what a party makes of those bytes.      *)
(*                                                                         *)
(* A 32 byte word is a number below Word, which is more than both the      *)
(* field and the group order, so a word need not be a coordinate or a      *)
(* scalar.  A public key is a tag byte and two words.                      *)
(***************************************************************************)
EXTENDS Musig2Crypto

CONSTANTS Word  \* values of 32 bytes

ASSUME WordAssumption == Word \in Nat /\ Word > P /\ Word > Q
ASSUME ErrAssumption == /\ Err \notin Int
                        /\ Err \notin [R : Scalar, c : Scalar, X_tilde : Scalar, s_i : Scalar]

TAG_PUBKEY_FULL == 4

\* The point with these coordinates.
PointAt(x, y) == CHOOSE pt \in 1..(Q - 1) : Coord[pt] = <<x, y>>

\* PublicKey::serialize.
Serialize(pt) == [tag |-> TAG_PUBKEY_FULL, x |-> Coord[pt][1], y |-> Coord[pt][2]]

OnCurve(x, y) == (y * y) % P = (x ^ 3 + CurveB) % P

\* PublicKey::parse: the tag is not looked at.
ParsePublicKey(b) ==
    IF b.x < P /\ b.y < P /\ OnCurve(b.x, b.y) THEN PointAt(b.x, b.y) ELSE Err

\* convert_to_vec, convert_from_vec: what does not parse is left out, with
\* a warning.
ConvertToVec(pks) == [k \in DOMAIN pks |-> Serialize(pks[k])]

PushParsed(pks, b) ==
    IF ParsePublicKey(b) = Err THEN pks ELSE Append(pks, ParsePublicKey(b))

ConvertFromVec(v) == FoldLeft(PushParsed, << >>, v)
-----------------------------------------------------------------------------
(* The messages of rounds.rs.                                              *)

\* MessageRound1 of a party with private key x.
MessageRound1(x) ==
    [ephemeral_keys |-> ConvertToVec(Ephemeral(x)), pubkey |-> Serialize(x)]

\* Mutant: the own key behind the received ones.
ReceivedKeysOwnLast(own, i, received) ==
    ConvertFromVec([k \in DOMAIN received |-> received[k].pubkey]) \o <<own>>

\* Round1::proceed of the party at index i: the keys that parse in slot order,
\* its own in front of the slot with its index.
ReceivedKeys(own, i, received) ==
    LET Parsed(slots) == ConvertFromVec([k \in DOMAIN slots |-> slots[k].pubkey])
    IN  Parsed(SubSeq(received, 1, i - 1)) \o <<own>>
            \o Parsed(SubSeq(received, i, Len(received)))

ReceivedNonces(received) ==
    [k \in DOMAIN received |-> ConvertFromVec(received[k].ephemeral_keys)]
=============================================================================
