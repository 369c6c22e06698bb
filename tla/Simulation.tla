----------------------------- MODULE Simulation -----------------------------
(***************************************************************************)
(* The synchronous simulation (src/cli/party/sim/simulation.rs): parties   *)
(* of one signing in a vector, driven in lock step by run().  Every lap    *)
(* freezes the messages sent so far, hands them to the parties one after   *)
(* the other, lets each proceed, and looks whether all have finished.      *)
(*                                                                         *)
(* A step is one party's proceed_if_needed with its send_outgoing, one     *)
(* message of its handle_incoming or the send_outgoing after that, or the  *)
(* check that closes a lap.                                                *)
(***************************************************************************)
EXTENDS Musig2Instance

CONSTANTS N,         \* bound on the number of parties
          Messages,  \* what the parties may be given to sign
          Runs       \* bound on the calls of run()

ASSUME NAssumption == N \in Nat /\ N >= 2
ASSUME MessagesAssumption == Messages # {} /\ None \notin Messages
ASSUME RunsAssumption == Runs \in Nat \ {0}

VARIABLES parties,   \* Simulation::parties
          pull,      \* msgs_pull
          frozen,    \* msgs_pull_frozen
          pc,        \* the loop run() is in, or how it ended
          at,        \* the position of that loop
          seen,      \* messages party `at` has been handed in this lap
          answer,    \* what the last run() returned, None before
          measured,  \* the rounds in the benchmark's results
          refused,   \* errors of handle_incoming, critical or not
          runs       \* calls of run() so far

vars == <<parties, pull, frozen, pc, at, seen, answer, measured, refused, runs>>

Ended == {"idle", "returned", "failed", "panicked"}

\* What the callers build: the parties of one signing, added in any order.
Built(n) ==
    { [k \in 1..n |-> NewInstance(order[k], n, order[k], message[k])] :
        order \in {f \in [1..n -> 1..n] : \A i, j \in 1..n : f[i] = f[j] => i = j},
        message \in [1..n -> Messages] }

Init == /\ parties \in UNION {Built(n) : n \in 2..N}
        /\ pull = << >> /\ frozen = << >>
        /\ pc = "idle" /\ at = 1 /\ seen = 0
        /\ answer = None
        /\ measured = {} /\ refused = {}
        /\ runs = 0

Index == DOMAIN parties
-----------------------------------------------------------------------------
\* run(), with fresh message vectors; parties and benchmark are the
\* simulation's own and stay as they are.
Run == /\ pc \in {"idle", "returned"}
       /\ runs < Runs
       /\ runs' = runs + 1
       /\ pull' = << >> /\ frozen' = << >>
       /\ pc' = "proceed" /\ at' = 1 /\ seen' = 0
       /\ answer' = None
       /\ UNCHANGED <<parties, measured, refused>>

\* The next party, or what comes after the loop.
Advance(after) ==
    IF at < Len(parties) THEN at' = at + 1 /\ UNCHANGED pc
    ELSE at' = 1 /\ pc' = after

\* send_outgoing: the message queue of party k, moved into the pull.
SendOutgoing(inst) ==
    /\ parties' = [parties EXCEPT ![at] = [inst EXCEPT !.msgs_queue = << >>]]
    /\ pull' = pull \o inst.msgs_queue

\* proceed_if_needed; send_outgoing.  A round is measured under the number it
\* had before, when the number changed.
ProceedIfNeeded ==
    /\ pc = "proceed"
    /\ LET old == parties[at]
           new == IF WantsToProceed(old) THEN Proceed(old) ELSE old
       IN  IF WantsToProceed(old) /\ Panicked(new)
           THEN /\ parties' = [parties EXCEPT ![at] = new]
                /\ pc' = "panicked"
                /\ UNCHANGED <<pull, at, measured>>
           ELSE /\ SendOutgoing(new)
                /\ measured' = IF CurrentRound(old) # CurrentRound(new)
                               THEN measured \cup {CurrentRound(old)} ELSE measured
                /\ Advance("check")
    /\ UNCHANGED <<frozen, seen, answer, refused, runs>>

\* Mutant: the parties later in the lap see what the earlier ones just sent.
DeliveredNow == frozen \o pull

\* What handle_incoming gets to see in this lap.
Delivered == frozen

\* handle_incoming, one message of its loop: skip what is one's own.
Handle ==
    /\ pc = "handle"
    /\ seen < Len(Delivered)
    /\ seen' = seen + 1
    /\ LET old == parties[at]
           msg == Delivered[seen + 1]
           r == IF msg.sender = old.party_i THEN "Ok" ELSE HandleResult(old, msg)
           new == IF msg.sender = old.party_i THEN old ELSE HandleIncoming(old, msg)
       IN  /\ parties' = [parties EXCEPT ![at] = new]
           /\ refused' = refused \cup ({r} \ {"Ok"})
           /\ pc' = IF IsCritical(r) THEN "failed"
                    ELSE IF Panicked(new) THEN "panicked" ELSE pc
    /\ UNCHANGED <<pull, frozen, at, answer, measured, runs>>

\* The end of that loop; send_outgoing.
Handled ==
    /\ pc = "handle"
    /\ seen = Len(Delivered)
    /\ seen' = 0
    /\ SendOutgoing(parties[at])
    /\ Advance("proceed")
    /\ UNCHANGED <<frozen, answer, measured, refused, runs>>

\* msgs_pull.split_off(0).
Freeze == frozen' = pull /\ pull' = << >>

\* finish_if_possible, or else the next lap.
FinishIfPossible ==
    /\ pc = "check"
    /\ IF \A k \in Index : IsFinished(parties[k])
       THEN /\ answer' = [k \in Index |-> parties[k].result]
            /\ parties' = [k \in Index |-> PickOutput(parties[k])]
            /\ pc' = "returned"
            /\ UNCHANGED <<pull, frozen>>
       ELSE /\ Freeze
            /\ pc' = "handle"
            /\ UNCHANGED <<parties, answer>>
    /\ UNCHANGED <<at, seen, measured, refused, runs>>

Next == Run \/ ProceedIfNeeded \/ Handle \/ Handled \/ FinishIfPossible

\* run() is a loop without a wait.
Fairness == WF_vars(ProceedIfNeeded \/ Handle \/ Handled \/ FinishIfPossible)

Spec == Init /\ [][Next]_vars /\ Fairness
=============================================================================
