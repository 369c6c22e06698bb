----------------------------- MODULE MCSigning -----------------------------
(* TLC instances of Signing: one command (j1) or two of different messages. *)
EXTENDS SigningProps
OneJob == {"j1"}
OneMessage == [j \in OneJob |-> "m1"]
OneInitiator == [j \in OneJob |-> 1]
TwoJobs == {"j1", "j2"}
TwoMessages == [j \in TwoJobs |-> IF j = "j1" THEN "m1" ELSE "m2"]
TwoInitiators == [j \in TwoJobs |-> 1]
AllPeers == [s \in Session |-> Party \ {s[1]}]
\* Node 2 dialed both others and they dialed it; 1 and 3 know only of 2.
SomePeers == [s \in Session |-> IF s[1] = 2 THEN {1, 3} ELSE {2}]
\* For the second command node 2 has lost its connection to node 1.
LoneSecond == [AllPeers EXCEPT ![<<2, "j2">>] = {}]
AllCalled == Session
=============================================================================
