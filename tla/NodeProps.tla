----------------------------- MODULE NodeProps ------------------------------
(* What the nodes of a network must satisfy. *)
EXTENDS Node

Elements(s) == {s[i] : i \in DOMAIN s}

\* None stands for a node that runs: it is no reason to stop.
ASSUME NoneAssumption ==
    None \notin {"position", "strip_prefix", "stdin", "rx_inter", "rx_party"}

\* A node with no event to handle lists exactly the peers it has dialed and is
\* still connected to, each once and in the same order in both lists, whatever
\* the peers dialed in the other direction and however often connections broke.
ListsWhomItDialed ==
    \A n \in Up : events[n] = << >> =>
        /\ IsInjective(peer_ids[n])
        /\ Elements(peer_ids[n]) = {q \in Party : <<n, q>> \in conns}
        /\ parties[n] = peer_ids[n]

\* No signer is counted twice, even when both ends of a pair dial at the same
\* time: party_n is the number of different nodes, and party_i the own place.
NobodyTwice ==
    \A n \in Party : \A k \in DOMAIN sessions[n] :
        LET s == sessions[n][k] IN
        /\ \A i \in 2..Len(s.members) : s.members[i - 1] < s.members[i]
        /\ s.members[s.party_i] = n

\* Nodes that list the same signers give every signer the same index, in
\* whatever order their connections came about.
SameSignersSameOrder ==
    \A n, q \in Party : \A k \in DOMAIN sessions[n], l \in DOMAIN sessions[q] :
        Elements(sessions[n][k].members) = Elements(sessions[q][l].members) =>
          /\ sessions[n][k].members = sessions[q][l].members
          /\ sessions[n][k].party_i = sessions[q][l].party_i => n = q

\* With channels that hold what all sessions can send, a node stops only for
\* what is typed: the two expect() of the loop hold, and so does the unwrap()
\* of a peer that is to be removed.
OnlyInputStopsANode ==
    \A n \in Party : down[n] \in {None, "strip_prefix", "stdin"}

\* The first Width bytes of a command, read as one number.
FirstBytes(text) == IF Len(text) < Width THEN text ELSE SubSeq(text, 1, Width)
Number(text) ==
    LET digits == FirstBytes(text)
        n[k \in 0..Len(digits)] == IF k = 0 THEN 0 ELSE n[k - 1] * 256 + digits[k]
    IN  n[Len(digits)]

\* Sessions on any nodes, of any commands, sign the same bytes exactly when the
\* first Width bytes typed are the same number: neither what comes behind them
\* nor a zero in front is signed.
SignsTheFirstBytes ==
    \A n, q \in Party : \A k \in DOMAIN sessions[n], l \in DOMAIN sessions[q] :
        sessions[n][k].message = sessions[q][l].message <=>
            Number(TextOf[sessions[n][k].job]) = Number(TextOf[sessions[q][l].job])

\* A call that a node has taken in starts its session, or the node is down.
CallIsAnswered ==
    \A n \in Party, j \in Job :
        (\E call \in heard[n] : call.job = j) ~>
            \/ \E k \in DOMAIN sessions[n] : sessions[n][k].job = j
            \/ down[n] # None

\* Refinement: what a command sets off.
C == INSTANCE Calls WITH
       Caller <- [ j \in Job |-> CHOOSE n \in Party : \E i \in DOMAIN Stdin[n] :
                     Stdin[n][i].verb = "sign" /\ Stdin[n][i].job = j ],
       starts <- [ n \in Party |-> [ j \in Job |->
                     Cardinality({k \in DOMAIN sessions[n] : sessions[n][k].job = j}) ] ]
ImplementsCalls == C!Spec
=============================================================================
