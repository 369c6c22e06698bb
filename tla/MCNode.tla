------------------------------- MODULE MCNode -------------------------------
(* TLC instances of Node. *)
EXTENDS NodeProps
Sign(j) == [verb |-> "sign", blank |-> TRUE, job |-> j]
Other(v) == [verb |-> v, blank |-> TRUE]
ListNoBlank == [verb |-> "list", blank |-> FALSE]
\* One command, on node 2.
OneJob == {"j1"}
OneText == [j \in OneJob |-> <<97>>]
OneTyped == [n \in Party |-> IF n = 2 THEN << Sign("j1") >> ELSE << >>]
\* A command on each node at the same time, of texts that differ behind the
\* width of a message only, and lines that do nothing or stop the node.
TwoJobs == {"j1", "j2"}
TwoTexts == [j \in TwoJobs |-> <<97, 98>> \o IF j = "j1" THEN <<99>> ELSE <<100, 101>>]
TwoTyped == [n \in Party |-> IF n = 1 THEN << Other("list"), Sign("j1") >>
                             ELSE << Sign("j2"), ListNoBlank >>]
=============================================================================
