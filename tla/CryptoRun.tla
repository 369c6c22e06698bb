----------------------------- MODULE CryptoRun -----------------------------
(***************************************************************************)
(* One signing computed with Musig2Crypto by 1..N parties whose messages   *)
(* all arrive, as rounds.rs calls it: Round1 (sign_prime) and Round2       *)
(* (sign_double_prime, verify) of every party.  What a party computes      *)
(* depends only on what it received, so all do it in one step.             *)
(***************************************************************************)
EXTENDS KeyCodec

CONSTANTS N,        \* most parties
          Keys,     \* private keys to draw from
          Messages  \* messages to draw from, as words

ASSUME RunAssumption == /\ N \in Nat \ {0}
                        /\ Keys \subseteq 1..(Q - 1)
                        /\ Messages \subseteq 0..(Word - 1)

VARIABLES keys,     \* keys[i]: the private key of party i
          message,  \* the message
          primes,   \* primes[i]: what sign_prime gave party i, or Err
          sums      \* sums[i]: the s of party i, or Err

crvars == <<keys, message, primes, sums>>

Parties == DOMAIN keys
\* What party i gets from the others, in slot order.
FromOthers(i, v) == SubSeq(v, 1, i - 1) \o SubSeq(v, i + 1, Len(v))

Init == /\ keys \in UNION {[1..n -> Keys] : n \in 1..N}
        /\ message \in Messages
        /\ primes = << >>
        /\ sums = << >>

Nonces == [i \in Parties |-> Ephemeral(keys[i])]

Round1 == /\ primes = << >>
          /\ LET sent == [i \in Parties |-> MessageRound1(keys[i])]
             IN  primes' = [i \in Parties |->
                    LET received == FromOthers(i, sent)
                    IN  SignPrime(keys[i], message,
                                  ReceivedKeys(keys[i], i, received),
                                  ReceivedNonces(received), i)]
          /\ UNCHANGED <<keys, message, sums>>

\* With a share missing nobody gets here.
Round2 == /\ primes # << >>
          /\ ~IsErr(primes)
          /\ sums = << >>
          /\ LET shares == [i \in Parties |-> primes[i].s_i]
             IN  sums' = [i \in Parties |->
                    SumShares(shares[i],
                              [k \in DOMAIN FromOthers(i, shares) |->
                                 Parse(FromOthers(i, shares)[k])])]
          /\ UNCHANGED <<keys, message, primes>>

Next == Round1 \/ Round2

Spec == Init /\ [][Next]_crvars
-----------------------------------------------------------------------------
ScalarSum(v) == FoldLeft(LAMBDA a, b : (a + b) % Q, 0, v)
Summed == {i \in DOMAIN sums : sums[i] # Err}

(* Reference: the sums over all parties, in the order of the indices.      *)
KeyTerms == [k \in Parties |-> KeyCoefficient(keys, k) * keys[k]]
NonceTotal(j) == ScalarSum([k \in Parties |-> Nonces[k][j]])
Factor(X) == H(<<Coord[X][1], Coord[NonceTotal(1)][1], Coord[NonceTotal(2)][1], message, 1>>)

\* A single signer who holds the secret of the aggregated key and the sum of all
\* nonces, and signs as BIP340 does.
SingleSigner ==
    LET x == ScalarSum(KeyTerms)
        b == Factor(x)
        k == ScalarSum([i \in Parties |-> Nonces[i][1] + b * Nonces[i][2]])
        c == Challenge(Coord[k][1], x, message)
    IN  [ R |-> k, X_tilde |-> x, s |-> ((IF IsOddY(k) THEN -k ELSE k) + c * x) % Q ]

\* Every party ends with the signature a single signer would make with the
\* aggregated key, the same for all, in whatever order it adds up and with
\* whatever parity R has.
OneSigner ==
    \A i \in Summed :
        [R |-> primes[i].R, X_tilde |-> primes[i].X_tilde, s |-> sums[i]] = SingleSigner

HasZeroPrefix(v) == \E k \in DOMAIN v : ScalarSum(SubSeq(v, 1, k)) = 0
TooLarge(pts) == \E pt \in pts : Coord[pt][1] >= Q

\* The nonces of a party and of the others, as it adds them up.
NonceTerms(i, j) == <<Nonces[i][j]>> \o [k \in 1..(Len(keys) - 1) |-> FromOthers(i, Nonces)[k][j]]

\* The parts of a share.
ShareTerms(i, r, b, c) ==
    LET sign == IF IsOddY(r) THEN -1 ELSE 1
    IN  <<sign * Nonces[i][1], sign * b * Nonces[i][2], c * keys[i] * KeyCoefficient(keys, i)>>

\* Round1 fails exactly when some sum comes to infinity or zero on the way, or a
\* coordinate or the message is no scalar.  A party adds up the nonces in an
\* order of its own, so that it can fail alone while the others go on.
FailsOnlyAtEdges ==
    primes # << >> =>
    LET X == ScalarSum(KeyTerms)
        b == Factor(X)
        r == (NonceTotal(1) + b * NonceTotal(2)) % Q
        c == Challenge(Coord[r][1], X, message)
    IN  \A i \in Parties :
          primes[i] = Err <=>
            \/ TooLarge({keys[k] : k \in Parties}) \/ message >= Q
            \/ HasZeroPrefix(KeyTerms)
            \/ \E j \in 1..2 : HasZeroPrefix(NonceTerms(i, j))
            \/ TooLarge({X, NonceTotal(1), NonceTotal(2)})
            \/ r = 0
            \/ TooLarge({r})
            \/ HasZeroPrefix(ShareTerms(i, r, b, c))

\* A sum of honest shares always verifies (the assert! of Round2 holds), and no
\* other scalar does: with any share replaced by one of a different signing,
\* verify refuses.
OnlyTheSumVerifies ==
    \A i \in Summed : \A s \in Scalar :
        Verify(XScalar(primes[i].R), s, message, primes[i].X_tilde) <=> s = sums[i]
=============================================================================
