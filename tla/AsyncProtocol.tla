---------------------------- MODULE AsyncProtocol ----------------------------
(***************************************************************************)
(* The executor of one session (src/cli/party/async_protocol.rs) around    *)
(* one Musig2Instance, step by step between its awaits, while messages of  *)
(* the other parties come in.  The peers are the environment: each sends   *)
(* the Round1 and Round2 messages of this signing, and, when <<p, "other">>*)
(* is in Streams, those of another signing that runs on the same nodes at  *)
(* the same time (messages carry no session id, p2p/behaviour.rs).         *)
(*                                                                         *)
(* A message can arrive at any moment and in any order, any of them may    *)
(* never arrive, and the receive buffer holds Capacity messages: when one  *)
(* more comes the oldest is dropped and the next recv() returns Lagged.    *)
(***************************************************************************)
EXTENDS Musig2Instance, FiniteSets

CONSTANTS N,          \* parties of this signing
          Self,       \* party_ind of the instance
          Message,    \* what is signed here
          Other,      \* what the other signing signs
          Streams,    \* which peers send for which signing: pairs <<p, s>>
          Capacity    \* of the incoming broadcast channel

ASSUME PartyAssumption == N \in Nat \ {0} /\ Self \in 1..N
ASSUME MessageAssumption == Message # Other
ASSUME StreamsAssumption ==
         Streams \subseteq ((1..N) \ {Self}) \X {"this", "other"}
ASSUME CapacityAssumption == Capacity \in Nat \ {0}

VARIABLES pc,             \* where run() is
          state,          \* AsyncProtocol::state, None while moved away
          task,           \* the instance inside spawn_blocking, or None
          deadline,       \* whether a deadline is set
          current_round,  \* AsyncProtocol::current_round
          incoming,       \* received and not yet read
          lagged,         \* the channel overwrote an unread message
          outgoing,       \* what went into the outgoing sink, in order
          outcome,        \* what run() returned, None before
          arrived         \* every message that reached this node

runner  == <<pc, state, task, deadline, current_round, outgoing, outcome>>
channel == <<incoming, lagged, arrived>>
vars    == <<runner, channel>>

Peers == (1..N) \ {Self}
Ctx(message) == [pks |-> [i \in 1..N |-> i], message |-> message]
SignedIn(s) == IF s = "this" THEN Message ELSE Other

R1(p, s) == Broadcast(p, Round1Body(p, SignedIn(s)))
R2(p, s) == Broadcast(p, Share(p, Ctx(SignedIn(s))))
-----------------------------------------------------------------------------
Init == /\ pc = "start"
        /\ state = NewInstance(Self, N, Self, Message)
        /\ task = None
        /\ deadline = FALSE
        /\ current_round = None
        /\ outgoing = << >>
        /\ outcome = None
        /\ incoming = << >>
        /\ lagged = FALSE
        /\ arrived = {}

\* Mutant: a channel without a bound.
ArriveUnbounded(m) == /\ pc # "done"
                      /\ m \notin arrived
                      /\ arrived' = arrived \cup {m}
                      /\ incoming' = Append(incoming, m)
                      /\ UNCHANGED <<lagged, runner>>

\* A peer's broadcast reaches the channel run() listens on.
Arrive(m) == /\ pc # "done"
             /\ m \notin arrived
             /\ arrived' = arrived \cup {m}
             /\ IF Len(incoming) < Capacity
                THEN incoming' = Append(incoming, m) /\ UNCHANGED lagged
                ELSE incoming' = Append(Tail(incoming), m) /\ lagged' = TRUE
             /\ UNCHANGED runner

\* The nonces and shares the peers can have sent by now: one has its share of
\* this signing only after our Round1 message.
PeersSent ==
    LET own == R1(Self, "this") \in {outgoing[i] : i \in DOMAIN outgoing}
    IN  {R1(st[1], st[2]) : st \in Streams} \cup
        {R2(st[1], st[2]) : st \in {x \in Streams : x[2] = "this" => own}}
-----------------------------------------------------------------------------
Return(result) == pc' = "done" /\ outcome' = result

\* Mutant: the deadline is set once.
RefreshTimerOnce(st) ==
    /\ current_round' = CurrentRound(st)
    /\ deadline' = IF current_round = None THEN HasTimeout(st) ELSE deadline

\* refresh_timer: the deadline changes when the round number did, only then.
RefreshTimer(st) ==
    /\ current_round' = CurrentRound(st)
    /\ deadline' = IF current_round # CurrentRound(st) THEN HasTimeout(st)
                   ELSE deadline

\* run(), up to the first await.
Start == /\ pc = "start"
         /\ RefreshTimer(state)
         /\ pc' = "proceed"
         /\ UNCHANGED <<state, task, outgoing, outcome, channel>>

\* proceed_if_needed takes the state, and moves it to a blocking thread when
\* there is something to compute ...
ProceedIfNeeded ==
    /\ pc = "proceed"
    /\ IF WantsToProceed(state)
       THEN /\ task' = state
            /\ state' = None
            /\ pc' = "blocking"
       ELSE /\ pc' = "flush"
            /\ UNCHANGED <<state, task>>
    /\ UNCHANGED <<deadline, current_round, outgoing, outcome, channel>>

\* Mutant: the state is not put back.
BlockingDoneKeeps ==
    /\ pc = "blocking"
    /\ pc' = "flush"
    /\ task' = None
    /\ UNCHANGED <<state, deadline, current_round, outgoing, outcome, channel>>

\* ... whose result brings it back; a panic in there loses it.
BlockingDone ==
    /\ pc = "blocking"
    /\ LET s == Proceed(task)
       IN  IF Panicked(s)
           THEN /\ Return([tag |-> "ProceedPanicked"])
                /\ UNCHANGED state
           ELSE /\ state' = s
                /\ pc' = "flush"
                /\ UNCHANGED outcome
    /\ task' = None
    /\ UNCHANGED <<deadline, current_round, outgoing, channel>>

\* Mutant: the queue is sent but not drained.
DrainedNot(st) == st

\* send_outgoing: drain the queue of the instance into the sink.
Drained(st) == [st EXCEPT !.msgs_queue = << >>]

\* send_outgoing; refresh_timer; finish_if_possible.
Flush ==
    /\ pc = "flush"
    /\ outgoing' = outgoing \o state.msgs_queue
    /\ RefreshTimer(state)
    /\ IF IsFinished(state)
       THEN /\ Return([tag |-> "Ok", result |-> state.result])
            /\ state' = PickOutput(Drained(state))
       ELSE /\ pc' = "receive"
            /\ state' = Drained(state)
            /\ UNCHANGED outcome
    /\ UNCHANGED <<task, channel>>

\* handle_incoming of the executor, with a message to read.
Receive ==
    /\ pc = "receive"
    /\ ~lagged
    /\ incoming # << >>
    /\ incoming' = Tail(incoming)
    /\ LET m == Head(incoming)
           r == HandleResult(state, m)
       IN  /\ state' = HandleIncoming(state, m)
           /\ IF IsCritical(r)
              THEN Return([tag |-> "HandleIncoming", error |-> r])
              ELSE IF Panicked(HandleIncoming(state, m))
                   THEN Return([tag |-> "TaskPanicked"])
                   ELSE pc' = "reply" /\ UNCHANGED outcome
    /\ UNCHANGED <<task, deadline, current_round, outgoing, lagged, arrived>>

\* The stream yields Err(Lagged).
ReceiveLagged ==
    /\ pc = "receive"
    /\ lagged
    /\ Return([tag |-> "Recv"])
    /\ UNCHANGED <<state, task, deadline, current_round, outgoing, channel>>

\* Mutant: the timer is polled before the stream.
TimeoutFirst ==
    /\ pc = "receive"
    /\ deadline
    /\ Return([tag |-> "HandleIncomingTimeout", blamed |-> TimeoutBlame(state)])
    /\ UNCHANGED <<state, task, deadline, current_round, outgoing, channel>>

\* timeout_at polls the stream first: the deadline ends the wait only when
\* there is nothing to read.
Timeout ==
    /\ pc = "receive"
    /\ deadline
    /\ incoming = << >> /\ ~lagged
    /\ Return([tag |-> "HandleIncomingTimeout", blamed |-> TimeoutBlame(state)])
    /\ UNCHANGED <<state, task, deadline, current_round, outgoing, channel>>

\* send_outgoing; refresh_timer, after handle_incoming.
Reply == /\ pc = "reply"
         /\ outgoing' = outgoing \o state.msgs_queue
         /\ state' = Drained(state)
         /\ RefreshTimer(state)
         /\ pc' = "proceed"
         /\ UNCHANGED <<task, outcome, channel>>

Run == \/ Start \/ ProceedIfNeeded \/ BlockingDone \/ Flush
       \/ Receive \/ ReceiveLagged \/ Timeout \/ Reply

Next == Run \/ \E m \in PeersSent : Arrive(m)

\* tokio keeps polling the task, the blocking pool runs what it was given and
\* the timer fires; nothing obliges a peer to send.
Fairness == WF_vars(Run)

Spec == Init /\ [][Next]_vars /\ Fairness
=============================================================================
