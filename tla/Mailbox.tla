------------------------------ MODULE Mailbox ------------------------------
(***************************************************************************)
(* What a round's message store promises, told by party and without slots: *)
(* party self keeps at most one body per other party, never replaces one,  *)
(* can say at any time whose body is missing, and hands the bodies over    *)
(* once, when none is.  BroadcastMsgsStore implements it (StoreMachine).   *)
(***************************************************************************)
EXTENDS Naturals

CONSTANTS N,      \* the number of parties
          Body,   \* what a broadcast may carry
          None    \* no body yet

VARIABLES self,   \* the owner
          mail,   \* the body kept from each other party, or None
          open,   \* TRUE until the bodies are handed over
          reply   \* the last call and what it returned

mbvars == <<self, mail, open, reply>>

Others(p) == (1..N) \ {p}
Missing == {p \in Others(self) : mail[p] = None}

Init == /\ self \in 1..N
        /\ mail = [p \in Others(self) |-> None]
        /\ open = TRUE
        /\ reply = <<"new", TRUE>>

\* A body is welcome when it is a broadcast of a party not heard yet.
Accept(p, b) == /\ open
                /\ p \in Missing
                /\ mail' = [mail EXCEPT ![p] = b]
                /\ reply' = <<"push_msg", "Ok">>
                /\ UNCHANGED <<self, open>>

Refuse(p, broadcast, error) == /\ open
                               /\ p \notin Missing \/ ~broadcast
                               /\ reply' = <<"push_msg", error>>
                               /\ UNCHANGED <<self, mail, open>>

Blamed == /\ open
          /\ reply' = <<"blame", Missing>>
          /\ UNCHANGED <<self, mail, open>>

\* Whether a body of p is there.
Asked(p) == /\ open
            /\ reply' = <<"contains_msg_from", p \in Others(self) \ Missing>>
            /\ UNCHANGED <<self, mail, open>>

HandOver == /\ open
            /\ Missing = {}
            /\ open' = FALSE
            /\ reply' = <<"finish", mail>>
            /\ UNCHANGED <<self, mail>>

TooEarly == /\ open
            /\ Missing # {}
            /\ open' = FALSE
            /\ reply' = <<"too_early", Missing>>
            /\ UNCHANGED <<self, mail>>

Errors == {"UnknownSender", "ExpectedBroadcast", "ItsFromMe", "MsgOverwrite"}

Next == \/ \E p \in 1..N, b \in Body : Accept(p, b)
        \/ \E p \in 0..(N + 1), broadcast \in BOOLEAN, error \in Errors :
             Refuse(p, broadcast, error)
        \/ Blamed
        \/ \E p \in 1..(N + 1) : Asked(p)
        \/ HandOver
        \/ TooEarly

Spec == Init /\ [][Next]_mbvars
=============================================================================
