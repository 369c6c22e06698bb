------------------------------ MODULE MultiSig ------------------------------
(***************************************************************************)
(* What a signing is for, without sessions, rounds or a network: every     *)
(* party publishes its nonces, a share of a message appears only when all  *)
(* nonces are out, and a signature of it only when every party has put out *)
(* its share.  Signing implements it.                                      *)
(***************************************************************************)
CONSTANTS Party, Message

VARIABLES committed,   \* the parties whose nonces are out
          shared,      \* shared[m]: the parties whose share of m is out
          signed       \* the messages a signature exists of

msvars == <<committed, shared, signed>>

Init == /\ committed = {}
        /\ shared = [m \in Message |-> {}]
        /\ signed = {}

Commit(p) == /\ p \notin committed
             /\ committed' = committed \cup {p}
             /\ UNCHANGED <<shared, signed>>

Give(p, m) == /\ committed = Party
              /\ p \notin shared[m]
              /\ shared' = [shared EXCEPT ![m] = @ \cup {p}]
              /\ UNCHANGED <<committed, signed>>

Sign(m) == /\ shared[m] = Party
           /\ m \notin signed
           /\ signed' = signed \cup {m}
           /\ UNCHANGED <<committed, shared>>

Next == \/ \E p \in Party : Commit(p)
        \/ \E p \in Party, m \in Message : Give(p, m) \/ Sign(m)

Spec == Init /\ [][Next]_msvars
=============================================================================
