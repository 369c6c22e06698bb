------------------------------- MODULE Calls --------------------------------
(***************************************************************************)
(* What a sign command sets off, without connections, queues or a network: *)
(* a session on the node it is typed on, and after that at most one on     *)
(* every other node.  Node implements it.                                  *)
(***************************************************************************)
EXTENDS Naturals

CONSTANTS Party, Job,
          Caller    \* Caller[j]: the node command j is typed on

VARIABLE starts   \* starts[n][j]: sessions node n has started for command j

Start(n, j) == /\ starts[n][j] = 0
               /\ starts' = [starts EXCEPT ![n][j] = 1]

Command(j)   == Start(Caller[j], j)
Answer(n, j) == starts[Caller[j]][j] > 0 /\ Start(n, j)

Init == starts = [n \in Party |-> [j \in Job |-> 0]]
Next == \E j \in Job : Command(j) \/ \E n \in Party : Answer(n, j)

Spec == Init /\ [][Next]_starts
=============================================================================
