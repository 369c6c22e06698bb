------------------------------- MODULE Signing -------------------------------
(***************************************************************************)
(* Signings across nodes.  Every party runs a node; a sign command on one  *)
(* of them makes it call the others (CoopSign, node.rs), and each node     *)
(* starts a session of its own for it: an AsyncProtocol executor around a  *)
(* Musig2Instance, fed by the messages the node receives from then on.     *)
(* Messages name no session, so every live session of a node gets every    *)
(* message (p2p/behaviour.rs), and the sessions of two sign commands share *)
(* the traffic.                                                            *)
(*                                                                         *)
(* Steps are those of the executor between two waits for a message (one    *)
(* turn of its loop is Receive then Flush; AsyncProtocol has the finer     *)
(* steps).  The network is floodsub: a published message is delivered to a *)
(* node at most once, in any order, possibly never.                        *)
(*                                                                         *)
(* Nodes are numbered in the order of their peer ids, and node p has a key *)
(* of its own, written p too.  A session has the member list its node had  *)
(* when it started (module Node says how that comes about): two sessions   *)
(* of a command may disagree on n and on who has which index.              *)
(***************************************************************************)
EXTENDS Musig2Instance, FiniteSets

CONSTANTS N,          \* number of nodes
          Job,        \* sign commands
          MessageOf,  \* MessageOf[j]: the message of command j
          Initiator,  \* Initiator[j]: the node command j is typed on
          Peers,      \* Peers[s]: whom its node lists when session s starts
          Called,     \* the sessions <<p, j>> whose call can reach p
          Capacity,   \* of the channel from the node to its sessions
          MaxCrash    \* bound on node crashes

ASSUME NAssumption == N \in Nat \ {0}
ASSUME JobAssumption == /\ Initiator \in [Job -> 1..N]
                        /\ DOMAIN MessageOf = Job
                        /\ \A j \in Job : MessageOf[j] # None
ASSUME CapacityAssumption == Capacity \in Nat \ {0}
ASSUME MaxCrashAssumption == MaxCrash \in Nat

Party == 1..N
Session == Party \X Job

ASSUME CalledAssumption ==
         Called \subseteq Session /\ \A j \in Job : <<Initiator[j], j>> \in Called
ASSUME PeersAssumption == /\ Peers \in [Session -> SUBSET Party]
                          /\ \A s \in Session : s[1] \notin Peers[s]

\* start_musig2: the sorted peer ids with the own one, and its place there.
Signers(s) == Peers[s] \cup {s[1]}
PartyN(s) == Cardinality(Signers(s))

\* Mutant: the index as enumerate() counts it, from zero.
PartyIFromZero(s) == Cardinality({q \in Signers(s) : q < s[1]})

PartyI(s) == Cardinality({q \in Signers(s) : q <= s[1]})

NewSession(s) == NewInstance(PartyI(s), PartyN(s), s[1], MessageOf[s[2]])

VARIABLES status,    \* where the task of a session is
          inst,      \* its Musig2Instance
          incoming,  \* messages on its receiver, not read yet
          lagged,    \* its receiver was overtaken
          outcome,   \* what AsyncProtocol::run returned, None before
          sent,      \* messages published by some node: [from, msg]
          received,  \* received[p]: those that reached node p
          down       \* crashed nodes

vars == <<status, inst, incoming, lagged, outcome, sent, received, down>>

Live == {"spawned", "flush", "finish", "receive"}

Init == /\ status = [s \in Session |-> "absent"]
        /\ inst = [s \in Session |-> NewSession(s)]
        /\ incoming = [s \in Session |-> << >>]
        /\ lagged = [s \in Session |-> FALSE]
        /\ outcome = [s \in Session |-> None]
        /\ sent = {}
        /\ received = [p \in Party |-> {}]
        /\ down = {}
-----------------------------------------------------------------------------
\* Mutant: a repeated call starts the session again.
StartMusig2Again(s) ==
    /\ s \in Called
    /\ s[1] \notin down
    /\ status[s] \in {"absent", "done"}
    /\ s[1] = Initiator[s[2]] \/ status[<<Initiator[s[2]], s[2]>>] # "absent"
    /\ status' = [status EXCEPT ![s] = "spawned"]
    /\ inst' = [inst EXCEPT ![s] = NewSession(s)]
    /\ UNCHANGED <<incoming, lagged, outcome, sent, received, down>>

\* handle_sign, start_musig2: on the initiator, then on every node the call
\* reaches.  The session is subscribed to the node's channel from here on.
StartMusig2(s) ==
    /\ s \in Called
    /\ s[1] \notin down
    /\ status[s] = "absent"
    /\ s[1] = Initiator[s[2]] \/ status[<<Initiator[s[2]], s[2]>>] # "absent"
    /\ status' = [status EXCEPT ![s] = "spawned"]
    /\ UNCHANGED <<inst, incoming, lagged, outcome, sent, received, down>>

\* run() up to its first send: Prepare always wants to proceed.
Begin(s) ==
    /\ status[s] = "spawned"
    /\ inst' = [inst EXCEPT ![s] = Proceed(@)]
    /\ status' = [status EXCEPT ![s] = "flush"]
    /\ UNCHANGED <<incoming, lagged, outcome, sent, received, down>>

\* send_outgoing and the node's publish_msg.
Published(s) ==
    { [from |-> s, msg |-> inst[s].msgs_queue[i]] : i \in DOMAIN inst[s].msgs_queue }

\* Mutant: a finished session returns without its last send.
FlushFinishFirst(s) ==
    /\ status[s] = "flush"
    /\ IF IsFinished(inst[s])
       THEN /\ status' = [status EXCEPT ![s] = "finish"]
            /\ UNCHANGED <<sent, inst>>
       ELSE /\ status' = [status EXCEPT ![s] = "receive"]
            /\ sent' = sent \cup Published(s)
            /\ inst' = [inst EXCEPT ![s].msgs_queue = << >>]
    /\ UNCHANGED <<incoming, lagged, outcome, received, down>>

Flush(s) ==
    /\ status[s] = "flush"
    /\ sent' = sent \cup Published(s)
    /\ inst' = [inst EXCEPT ![s].msgs_queue = << >>]
    /\ status' = [status EXCEPT ![s] =
                    IF IsFinished(inst[s]) THEN "finish" ELSE "receive"]
    /\ UNCHANGED <<incoming, lagged, outcome, received, down>>

\* finish_if_possible.
FinishIfPossible(s) ==
    /\ status[s] = "finish"
    /\ outcome' = [outcome EXCEPT ![s] = [tag |-> "Ok", result |-> inst[s].result]]
    /\ inst' = [inst EXCEPT ![s] = PickOutput(@)]
    /\ status' = [status EXCEPT ![s] = "done"]
    /\ UNCHANGED <<incoming, lagged, sent, received, down>>
-----------------------------------------------------------------------------
\* The filter of incoming(): what carries the own index counts as one's own.
IsOwn(s, msg) == msg.sender = PartyI(s)

Skip(s) ==
    /\ status[s] = "receive"
    /\ ~lagged[s]
    /\ incoming[s] # << >>
    /\ IsOwn(s, Head(incoming[s]))
    /\ incoming' = [incoming EXCEPT ![s] = Tail(@)]
    /\ UNCHANGED <<status, inst, lagged, outcome, sent, received, down>>

Receive(s) ==
    /\ status[s] = "receive"
    /\ ~lagged[s]
    /\ incoming[s] # << >>
    /\ ~IsOwn(s, Head(incoming[s]))
    /\ incoming' = [incoming EXCEPT ![s] = Tail(@)]
    /\ LET m == Head(incoming[s])
           r == HandleResult(inst[s], m)
           i == Turn(inst[s], m)
       IN  /\ inst' = [inst EXCEPT ![s] = i]
           /\ IF IsCritical(r) \/ Panicked(i)
              THEN /\ status' = [status EXCEPT ![s] = "done"]
                   /\ outcome' = [outcome EXCEPT ![s] =
                        [tag |-> IF IsCritical(r) THEN "HandleIncoming" ELSE "Panicked"]]
              ELSE /\ status' = [status EXCEPT ![s] = "flush"]
                   /\ UNCHANGED outcome
    /\ UNCHANGED <<lagged, sent, received, down>>

\* The receiver yields Err(Lagged).
ReceiveLagged(s) ==
    /\ status[s] = "receive"
    /\ lagged[s]
    /\ status' = [status EXCEPT ![s] = "done"]
    /\ outcome' = [outcome EXCEPT ![s] = [tag |-> "Recv"]]
    /\ UNCHANGED <<inst, incoming, lagged, sent, received, down>>

\* Mutant: the timer is polled before the stream.
TimeoutFirst(s) ==
    /\ status[s] = "receive"
    /\ HasTimeout(inst[s])
    /\ status' = [status EXCEPT ![s] = "done"]
    /\ outcome' = [outcome EXCEPT ![s] =
         [tag |-> "HandleIncomingTimeout", blamed |-> TimeoutBlame(inst[s])]]
    /\ UNCHANGED <<inst, incoming, lagged, sent, received, down>>

\* The deadline of Round2, with nothing left to read.
Timeout(s) ==
    /\ status[s] = "receive"
    /\ HasTimeout(inst[s])
    /\ incoming[s] = << >> /\ ~lagged[s]
    /\ status' = [status EXCEPT ![s] = "done"]
    /\ outcome' = [outcome EXCEPT ![s] =
         [tag |-> "HandleIncomingTimeout", blamed |-> TimeoutBlame(inst[s])]]
    /\ UNCHANGED <<inst, incoming, lagged, sent, received, down>>

Step(s) == \/ Begin(s) \/ Flush(s) \/ FinishIfPossible(s)
           \/ Skip(s) \/ Receive(s) \/ ReceiveLagged(s) \/ Timeout(s)
-----------------------------------------------------------------------------
\* The live sessions of node q: those subscribed to its channel.
Subscribed(q) == {s \in Session : s[1] = q /\ status[s] \in Live}

\* Mutant: the network delivers a message more than once.
DeliverAgain(q, e) ==
    /\ q \notin down
    /\ e.from[1] # q
    /\ received' = [received EXCEPT ![q] = @ \cup {e}]
    /\ incoming' = [ s \in Session |->
         IF s \in Subscribed(q) /\ Len(incoming[s]) < Capacity
         THEN Append(incoming[s], e.msg) ELSE incoming[s] ]
    /\ UNCHANGED <<status, inst, lagged, outcome, sent, down>>

\* A published message reaches node q, which puts it on its channel: every
\* subscribed session gets it, one that is full is overtaken.
Deliver(q, e) ==
    /\ q \notin down
    /\ e.from[1] # q
    /\ e \notin received[q]
    /\ received' = [received EXCEPT ![q] = @ \cup {e}]
    /\ incoming' = [ s \in Session |->
         IF s \notin Subscribed(q) THEN incoming[s]
         ELSE IF Len(incoming[s]) < Capacity THEN Append(incoming[s], e.msg)
         ELSE Append(Tail(incoming[s]), e.msg) ]
    /\ lagged' = [ s \in Session |->
         lagged[s] \/ (s \in Subscribed(q) /\ Len(incoming[s]) = Capacity) ]
    /\ UNCHANGED <<status, inst, outcome, sent, down>>

\* A node stops with its sessions; nothing of a signing is on disk.
Crash(q) ==
    /\ q \notin down
    /\ Cardinality(down) < MaxCrash
    /\ down' = down \cup {q}
    /\ status' = [ s \in Session |->
         IF s \in Subscribed(q) THEN "crashed" ELSE status[s] ]
    /\ UNCHANGED <<inst, incoming, lagged, outcome, sent, received>>

Next == \/ \E s \in Session : StartMusig2(s) \/ Step(s)
        \/ \E q \in Party : Crash(q) \/ \E e \in sent : Deliver(q, e)

\* tokio polls every task and fires its timers; the network owes nothing.
Fairness == \A s \in Session : WF_vars(Step(s))

Spec == Init /\ [][Next]_vars /\ Fairness

\* What the network does not promise: that calls and messages arrive.
Reliable == /\ \A s \in Session : WF_vars(StartMusig2(s))
            /\ \A q \in Party : WF_vars(\E e \in sent : Deliver(q, e))
=============================================================================
