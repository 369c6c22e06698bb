------------------------ MODULE AsyncSimulationProps ------------------------
(* What the asynchronous simulation promises. *)
EXTENDS AsyncSimulation

\* What the parties send.
Contexts == [pks : [1..N -> Party], message : Messages]
Bodies ==
    {Round1Body(p, m) : p \in Party, m \in Messages} \cup
    {Share(p, c) : p \in Party, c \in Contexts}

\* None stands for Rust's None: it is no body, no store and no list of handles.
ASSUME NoneAssumption ==
    /\ None \notin Bodies /\ None \notin Seq(Party)
    /\ \A p \in Party :
         None \notin [ party_i : {p}, msgs : [1..(N - 1) -> Bodies \cup {None}],
                      msgs_left : 0..(N - 1) ]

\* Action property: what a call of run() returns has one entry for every party
\* added so far, in the order they were added, whatever order their tasks ended
\* in.  The first call returns what each of the tasks ended with, and only when
\* all of them have; every later one as many errors.
AnswersInOrder ==
    [][ answers' # answers =>
          LET answer == Last(answers')
          IN  /\ DOMAIN answer = DOMAIN parties
              /\ \A k \in DOMAIN parties :
                   \/ /\ answers = << >>
                      /\ status[parties[k]] = "done"
                      /\ answer[k] = outcome[parties[k]]
                   \/ /\ answers # << >>
                      /\ answer[k].tag = "Exhausted" ]_vars

\* Everybody sends twice and hears itself too, but the last share cannot be sent
\* before the slowest party has read something: whatever the interleaving, and
\* also when parties panic or are overtaken, nobody falls further behind than
\* 2N - 1 messages.  (new() asks for 20 places and tokio makes it 32: up to 16
\* parties are never overtaken.)
BacklogBounded == \A p \in Party : status[p] = "receive" => Unread(p) <= 2 * N - 1

\* Every call of run() returns when all parties were added before it: one that is
\* overtaken has sent its nonces already, so that the others get as far as
\* Round2, which has a deadline.
RunReturns ==
    (handles # None /\ Range(parties) = Party) ~> handles = None
=============================================================================
