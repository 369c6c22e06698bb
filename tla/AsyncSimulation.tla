--------------------------- MODULE AsyncSimulation ---------------------------
(***************************************************************************)
(* The asynchronous simulation (src/cli/party/sim/async_simulation.rs):    *)
(* every party is an AsyncProtocol executor in a task of its own, and all  *)
(* of them send to and receive from one tokio broadcast channel.           *)
(*                                                                         *)
(* The channel is a log with a position per receiver.  It holds Capacity   *)
(* messages: a receiver that is further behind has been overtaken, and its *)
(* next recv() returns Lagged.  A party receives its own messages too and  *)
(* filters them out, so they take up room.                                 *)
(*                                                                         *)
(* The tasks take the executor's steps between two waits for a message, as *)
(* in Signing.  run() waits for their handles one after the other.         *)
(***************************************************************************)
EXTENDS Musig2Instance, SequencesExt, FiniteSets

CONSTANTS N,          \* number of parties of the signing
          Messages,   \* what the parties may be given to sign
          Capacity,   \* of the broadcast channel
          Runs        \* bound on the calls of run()

ASSUME NAssumption == N \in Nat \ {0}
ASSUME MessagesAssumption == Messages # {} /\ None \notin Messages
ASSUME CapacityAssumption == Capacity \in Nat \ {0}
ASSUME RunsAssumption == Runs \in Nat \ {0}

Party == 1..N

VARIABLES parties,    \* the parties in the order they were added
          exhausted,  \* AsyncSimulation::exhausted
          handles,    \* the tasks run() has not awaited yet
          results,    \* what it has got from the others
          answers,    \* what the calls of run() returned so far
          status,     \* where the task of a party is
          inst,       \* its Musig2Instance
          outcome,    \* what its task ended with, None before
          log,        \* messages sent into the channel
          read        \* how far the receiver of a party has got

caller == <<parties, exhausted, handles, results, answers>>
tasks  == <<status, inst, outcome, log, read>>
vars   == <<caller, tasks>>

Live == {"spawned", "flush", "finish", "receive"}

Init == /\ parties = << >> /\ exhausted = FALSE
        /\ handles = None /\ results = << >> /\ answers = << >>
        /\ status = [p \in Party |-> "absent"]
        /\ \E message \in [Party -> Messages] :
             inst = [p \in Party |-> NewInstance(p, N, p, message[p])]
        /\ outcome = [p \in Party |-> None]
        /\ log = << >>
        /\ read = [p \in Party |-> 0]
-----------------------------------------------------------------------------
(* The caller.                                                             *)

\* run() has `self` for as long as it waits.
Idle == handles = None /\ Len(answers) < Runs

\* add_party: the party is subscribed from here on, and not yet running.
AddParty(p) ==
    /\ Idle
    /\ status[p] = "absent"
    /\ parties' = Append(parties, p)
    /\ status' = [status EXCEPT ![p] = "added"]
    /\ read' = [read EXCEPT ![p] = Len(log)]
    /\ UNCHANGED <<exhausted, handles, results, answers, inst, outcome, log>>

\* run(), the first time: a task per party.
Run == /\ Idle /\ ~exhausted
       /\ exhausted' = TRUE
       /\ handles' = parties
       /\ results' = << >>
       /\ status' = [p \in Party |->
                       IF p \in Range(parties) THEN "spawned" ELSE status[p]]
       /\ UNCHANGED <<parties, answers, inst, outcome, log, read>>

\* run() again.
RunExhausted ==
    /\ Idle /\ exhausted
    /\ answers' = Append(answers, [k \in DOMAIN parties |-> [tag |-> "Exhausted"]])
    /\ UNCHANGED <<parties, exhausted, handles, results, tasks>>

\* Mutant: the results come in the order the tasks end in.
AwaitAny ==
    /\ handles \notin {None, << >>}
    /\ \E k \in DOMAIN handles :
         /\ status[handles[k]] = "done"
         /\ results' = Append(results, outcome[handles[k]])
         /\ handles' = RemoveAt(handles, k)
    /\ UNCHANGED <<parties, exhausted, answers, tasks>>

\* party.await, handle by handle.
Await ==
    /\ handles \notin {None, << >>}
    /\ status[Head(handles)] = "done"
    /\ results' = Append(results, outcome[Head(handles)])
    /\ handles' = Tail(handles)
    /\ UNCHANGED <<parties, exhausted, answers, tasks>>

Return ==
    /\ handles = << >>
    /\ answers' = Append(answers, results)
    /\ handles' = None
    /\ UNCHANGED <<parties, exhausted, results, tasks>>
-----------------------------------------------------------------------------
(* The task of party p.                                                    *)

\* run() up to its first send: Prepare always wants to proceed.
Begin(p) ==
    /\ status[p] = "spawned"
    /\ inst' = [inst EXCEPT ![p] = Proceed(@)]
    /\ status' = [status EXCEPT ![p] = "flush"]
    /\ UNCHANGED <<outcome, log, read, caller>>

\* Mutant: what was sent stays in the queue.
FlushCopy(p) ==
    /\ status[p] = "flush"
    /\ Len(log) < 4 * N
    /\ log' = log \o inst[p].msgs_queue
    /\ status' = [status EXCEPT ![p] =
                    IF IsFinished(inst[p]) THEN "finish" ELSE "receive"]
    /\ UNCHANGED <<inst, outcome, read, caller>>

\* send_outgoing; finish_if_possible decides where to go on.
Flush(p) ==
    /\ status[p] = "flush"
    /\ log' = log \o inst[p].msgs_queue
    /\ inst' = [inst EXCEPT ![p].msgs_queue = << >>]
    /\ status' = [status EXCEPT ![p] =
                    IF IsFinished(inst[p]) THEN "finish" ELSE "receive"]
    /\ UNCHANGED <<outcome, read, caller>>

FinishIfPossible(p) ==
    /\ status[p] = "finish"
    /\ outcome' = [outcome EXCEPT ![p] = [tag |-> "Ok", result |-> inst[p].result]]
    /\ inst' = [inst EXCEPT ![p] = PickOutput(@)]
    /\ status' = [status EXCEPT ![p] = "done"]
    /\ UNCHANGED <<log, read, caller>>

\* The task ends with an error or a panic.
End(p, result) ==
    /\ status' = [status EXCEPT ![p] = "done"]
    /\ outcome' = [outcome EXCEPT ![p] = result]

Unread(p) == Len(log) - read[p]

Overtaken(p) == Unread(p) > Capacity

\* The filter of incoming(); all messages are broadcasts.
IsOwn(p, msg) == msg.sender = p

Receive(p) ==
    /\ status[p] = "receive"
    /\ Unread(p) > 0 /\ ~Overtaken(p)
    /\ read' = [read EXCEPT ![p] = @ + 1]
    /\ LET msg == log[read[p] + 1]
           r == HandleResult(inst[p], msg)
           i == Turn(inst[p], msg)
       IN  IF IsOwn(p, msg) THEN UNCHANGED <<status, inst, outcome>>
           ELSE /\ inst' = [inst EXCEPT ![p] = i]
                /\ IF IsCritical(r) THEN End(p, [tag |-> "HandleIncoming"])
                   ELSE IF Panicked(i) THEN End(p, [tag |-> "Panicked"])
                   ELSE /\ status' = [status EXCEPT ![p] = "flush"]
                        /\ UNCHANGED outcome
    /\ UNCHANGED <<log, caller>>

ReceiveLagged(p) ==
    /\ status[p] = "receive"
    /\ Overtaken(p)
    /\ End(p, [tag |-> "Recv"])
    /\ UNCHANGED <<inst, log, read, caller>>

\* Only Round2 has a deadline; the stream is polled before the timer.
Timeout(p) ==
    /\ status[p] = "receive"
    /\ HasTimeout(inst[p])
    /\ Unread(p) = 0
    /\ End(p, [tag |-> "HandleIncomingTimeout", blamed |-> TimeoutBlame(inst[p])])
    /\ UNCHANGED <<inst, log, read, caller>>

Step(p) == \/ Begin(p) \/ Flush(p) \/ FinishIfPossible(p)
           \/ Receive(p) \/ ReceiveLagged(p) \/ Timeout(p)

Next == \/ \E p \in Party : AddParty(p) \/ Step(p)
        \/ Run \/ RunExhausted \/ Await \/ Return

\* The runtime polls every task and the one that awaits run(); nothing makes
\* the caller add a party or call run().
Fairness == /\ \A p \in Party : WF_vars(Step(p))
            /\ WF_vars(Await \/ Return)

Spec == Init /\ [][Next]_vars /\ Fairness
=============================================================================
