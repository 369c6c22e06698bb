--------------------------- MODULE SimulationProps ---------------------------
(* What the synchronous simulation promises. *)
EXTENDS Simulation

\* The context of n parties with the keys 1 to n, and what the parties send.
Context(n, message) == [pks |-> [i \in 1..n |-> i], message |-> message]

Bodies ==
    {Round1Body(i, m) : i \in 1..N, m \in Messages} \cup
    {Share(i, Context(n, m)) : i \in 1..N, n \in 2..N, m \in Messages}

\* None stands for Rust's None: it is no body and no store.
ASSUME NoneAssumption ==
    /\ None \notin Bodies
    /\ \A n \in 2..N : \A i \in 1..n :
         None \notin [ party_i : {i}, msgs : [1..(n - 1) -> Bodies \cup {None}],
                      msgs_left : 0..(n - 1) ]

\* Within a lap one party is handed everything before the next one gets
\* anything, and still no party is ever more than one round ahead of another,
\* whatever the order they were added in.  Whenever a lap is over all are in the
\* same round, so that finish_if_possible never finds some finished and others
\* not.  And no message is ever refused, as none comes in a round it is not
\* meant for.
LockStep ==
    /\ refused = {}
    /\ pc # "panicked" => \A j, k \in Index :
         CurrentRound(parties[j]) <= CurrentRound(parties[k]) + 1
    /\ pc = "check" => \A j, k \in Index : parties[j].round = parties[k].round

\* run() panics in the assert! of Round2 exactly for parties that were given
\* different messages, and then no signature exists of any of them.
PanicsOnTwoMessages ==
    LET differ == \E j, k \in Index : parties[j].message # parties[k].message
    IN  /\ pc = "panicked" => differ
        /\ pc = "returned" => ~differ /\ Len(answer) = Len(parties)
        /\ differ => \A k \in Index : parties[k].result = None

\* What benchmark_results() can show: rounds 1 and 2 go on inside
\* handle_incoming, which has no stopwatch, so that only Prepare is measured.
OnlyPrepareIsMeasured == measured \subseteq {0}

\* The first call of run() comes to an end: the outputs or a panic.  (Not the
\* second one: the parties are Gone by then, and the loop has no other exit.)
FirstRunEnds == (runs = 1 /\ pc = "proceed") ~> pc \in Ended
=============================================================================
