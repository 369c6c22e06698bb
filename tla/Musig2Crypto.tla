---------------------------- MODULE Musig2Crypto ----------------------------
(***************************************************************************)
(* The arithmetic of a signing (src/cli/protocals): key aggregation, the   *)
(* two nonces of a party, its share, the sum, the verification.            *)
(*                                                                         *)
(* The curve y^2 = x^3 + CurveB over the field of P elements has a prime   *)
(* number Q of points, so every point is a multiple k of the generator: a  *)
(* point is written k, infinity is 0, and Coord has the coordinates, which *)
(* matter because x is hashed and the parity of y decides a sign.  With    *)
(* CurveB = 7 this is the equation of secp256k1, over a small field.       *)
(*                                                                         *)
(* Every Result::Err, and the expect() that turns one into a panic, is     *)
(* Err: either ends the signing of that party.  Bytes are not modelled: a  *)
(* hash maps a sequence of scalars to a scalar (H), never to zero.         *)
(***************************************************************************)
EXTENDS Integers, Sequences, SequencesExt

CONSTANTS P, CurveB, Q,   \* field, curve, number of points
          Gx, Gy,         \* the generator
          H(_),           \* tagged sha256, parsed as a scalar
          Err             \* no value

Scalar == 0..(Q - 1)

(* External: the group of libsecp256k1.                                    *)
InverseMod(a) == CHOOSE b \in 1..(P - 1) : (a * b) % P = 1

\* The sum of two affine points that are not opposite.
AffineSum(p, q) ==
    LET slope == IF p = q
                 THEN (3 * p[1] * p[1] * InverseMod((2 * p[2]) % P)) % P
                 ELSE ((q[2] - p[2]) * InverseMod((q[1] - p[1]) % P)) % P
        x == (slope * slope - p[1] - q[1]) % P
    IN  <<x, (slope * (p[1] - x) - p[2]) % P>>

\* Coord[k]: the coordinates of k times the generator.
Coord ==
    FoldLeft(LAMBDA c, k : Append(c, AffineSum(Last(c), <<Gx, Gy>>)),
             << <<Gx, Gy>> >>, [k \in 1..(Q - 2) |-> k])

\* What makes this a group of prime order, and a point its multiple.
ASSUME CurveAssumption ==
    /\ \A n \in {P, Q} : n \in Nat /\ n > 3 /\ \A d \in 2..(n - 1) : n % d # 0
    /\ \A k \in 1..(Q - 1) :
         /\ Coord[k] \in (0..(P - 1)) \X (0..(P - 1))
         /\ (Coord[k][2] * Coord[k][2]) % P = (Coord[k][1] ^ 3 + CurveB) % P
         /\ Coord[k] = <<Coord[Q - k][1], P - Coord[Q - k][2]>>
    /\ \A k, l \in 1..(Q - 1) : Coord[k] = Coord[l] => k = l
    /\ \A x, y \in 0..(P - 1) :
         (y * y) % P = (x ^ 3 + CurveB) % P => \E k \in 1..(Q - 1) : Coord[k] = <<x, y>>
-----------------------------------------------------------------------------
(* key.rs.                                                                 *)
IsErr(s) == \E i \in DOMAIN s : s[i] = Err

NonZero(v) == IF v = 0 THEN Err ELSE v

\* PrivateKey::add_scalar, PublicKey::add_point: infinity is no point.
Add(a, b) == IF a = Err \/ b = Err THEN Err ELSE NonZero((a + b) % Q)

\* PrivateKey::mul_scalar, PublicKey::mul_scalar.
Mul(a, b) == IF a = Err \/ b = Err THEN Err ELSE NonZero((a * b) % Q)

Neg(a) == IF a = Err THEN Err ELSE (-a) % Q

\* PrivateKey::parse refuses what is not below the order.
Parse(x) == IF x < Q THEN x ELSE Err

\* An x coordinate, taken for a scalar.
XScalar(pt) == IF pt = Err THEN Err ELSE Parse(Coord[pt][1])

\* parse_x_coor: some point has it.
IsXCoor(x) == \E pt \in 1..(Q - 1) : Coord[pt][1] = x

IsOddY(pt) == Coord[pt][2] % 2 = 1

Hash(s) == IF IsErr(s) THEN Err ELSE H(s)
-----------------------------------------------------------------------------
(* musig2.rs.  pks is a sequence of points, a private key x has the public *)
(* key x times the generator: x again.                                     *)

\* The hash of all keys that goes with one of them.
KeyCoefficient(pks, i) ==
    LET xs == [k \in DOMAIN pks |-> XScalar(pks[k])]
    IN  Hash(<<1, xs[i]>> \o xs)

\* X_tilde: the keys, each times its coefficient, summed in their order.
AggregatedKey(pks) ==
    LET term == [k \in DOMAIN pks |-> Mul(pks[k], KeyCoefficient(pks, k))]
    IN  FoldLeft(Add, Head(term), Tail(term))

\* key_aggregation_n for the party at index i.
KeyAgg(pks, i) == [X_tilde |-> AggregatedKey(pks), a_i |-> KeyCoefficient(pks, i)]

\* EphemeralKey: the Nv = 2 nonces, derived from the private key.
Ephemeral(x) == <<Hash(<<x, 0>>), Hash(<<x, 1>>)>>

\* Mutant: the own nonce behind the received ones.
NonceSumOwnLast(own, received, j) ==
    LET all == Append([k \in DOMAIN received |-> received[k][j]], own[j])
    IN  FoldLeft(Add, Head(all), Tail(all))

\* add_ephemeral_keys: own first, then the received ones in their order.
NonceSum(own, received, j) ==
    FoldLeft(Add, own[j], [k \in DOMAIN received |-> received[k][j]])

\* schnorrsig_challenge.
Challenge(rx, X_tilde, message) == Hash(<<rx, XScalar(X_tilde), message>>)

\* compute_global_params: b for the second nonce (it is 1 for the first), R, c.
GlobalParams(own, message, pks, received) ==
    LET X  == AggregatedKey(pks)
        R1 == NonceSum(own, received, 1)
        R2 == NonceSum(own, received, 2)
        b  == Hash(<<XScalar(X), XScalar(R1), XScalar(R2), Parse(message), 1>>)
        R  == Add(Mul(R1, 1), Mul(R2, b))
    IN  [b |-> b, R |-> R, c |-> Challenge(XScalar(R), X, message)]

\* Mutant: only the first nonce is negated.
ShareHalfNegated(own, g, x, a) ==
    LET first == Mul(own[1], 1)
    IN  Add(Add(IF IsOddY(g.R) THEN Neg(first) ELSE first, Mul(own[2], g.b)),
            Mul(Mul(g.c, x), a))

\* compute_signature_share: both nonces negated when R has an odd y, which
\* the verifier takes for its opposite.
SignatureShare(own, g, x, a) ==
    LET Signed(r) == IF IsOddY(g.R) THEN Neg(r) ELSE r
    IN  Add(Add(Signed(Mul(own[1], 1)), Signed(Mul(own[2], g.b))),
            Mul(Mul(g.c, x), a))

\* sign_prime, Err when something in it fails.
SignPrime(x, message, pks, received, i) ==
    LET own == Ephemeral(x)
        agg == KeyAgg(pks, i)
        g   == GlobalParams(own, message, pks, received)
    IN  IF IsErr(<<agg.X_tilde, g.R, g.b, g.c>>) THEN Err
        ELSE LET s == SignatureShare(own, g, x, agg.a_i)
             IN  IF s = Err THEN Err
                 ELSE [R |-> g.R, c |-> g.c, X_tilde |-> agg.X_tilde, s_i |-> s]

\* sign_double_prime.
SumShares(own, received) == FoldLeft(Add, own, received)

\* verify: rx is an x coordinate, and R = s.G - h.X has it, with an even y.
\* (s is a scalar here, so the test of its overflow is empty, as is that of X.)
Verify(rx, s, message, X_tilde) ==
    LET R == (s - Challenge(rx, X_tilde, message) * X_tilde) % Q
    IN  /\ IsXCoor(rx)
        /\ R # 0
        /\ ~IsOddY(R)
        /\ XScalar(R) = rx
=============================================================================
