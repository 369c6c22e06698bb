-------------------------------- MODULE Node --------------------------------
(***************************************************************************)
(* The main task of every node (node.rs, the member list of                *)
(* musig2_party.rs, the dispatch of behaviour.rs).  Node::run is a loop    *)
(* around a select! of four sources, and one turn of it is one action: a   *)
(* line from stdin, an event of the swarm, a message a session wants sent, *)
(* a call that came in.  Nodes are numbered in the order of their peer     *)
(* ids, an address is written as the node it leads to.                     *)
(*                                                                         *)
(* The channels are tokio broadcast channels: a receiver that falls behind *)
(* by more than Capacity misses the oldest messages and is told so, and    *)
(* both of the loop's receivers expect() that this never happens.  A panic *)
(* of the main task ends the node.                                         *)
(*                                                                         *)
(* External: libp2p.  Dial, Lose and Flood say what mdns, floodsub and the *)
(* swarm can do as they are used here.                                     *)
(***************************************************************************)
EXTENDS MusigMessage, FiniteSets, SequencesExt

CONSTANTS N,         \* number of nodes
          None,
          Job,       \* sign commands
          TextOf,    \* TextOf[j]: the bytes command j is to sign, as typed
          Stdin,     \* Stdin[n]: the lines typed on node n
          Ended,     \* the nodes whose stdin ends after that
          Capacity,  \* of the two channels the loop reads
          Sends,     \* messages a session sends: 2, fewer where they do not matter
          MaxDials,  \* bound on connections ever made
          MaxLoss    \* bound on connections that break

Party == 1..N
\* A line starts with a verb, with or without a blank behind it.
Line == [verb : {"sign"}, blank : BOOLEAN, job : Job]
        \cup [verb : {"list", "verify", "other"}, blank : BOOLEAN]

ASSUME NodeAssumption ==
    /\ N \in Nat \ {0} /\ Capacity \in Nat \ {0}
    /\ Sends \in 0..2 /\ MaxDials \in Nat /\ MaxLoss \in Nat
    /\ Stdin \in [Party -> Seq(Line)]
    /\ Ended \subseteq Party
    /\ TextOf \in [Job -> Seq(0..255)]
    \* every sign command is typed once
    /\ \A n, q \in Party : \A i \in DOMAIN Stdin[n], k \in DOMAIN Stdin[q] :
         Stdin[n][i].verb = "sign" /\ Stdin[q][k].verb = "sign" =>
           (Stdin[n][i].job = Stdin[q][k].job => n = q /\ i = k)

VARIABLES stdin,     \* lines not read yet
          conns,     \* open connections <<dialer, listener>>
          dials,     \* how many were ever made
          losses,    \* how many broke
          events,    \* events[n]: what the swarm of n has yet to report
          open,      \* open[n]: connections it has reported
          peer_ids, parties,   \* the member list: peer ids, addresses
          published, \* calls in flight: [job, from]
          heard,     \* heard[n]: calls that reached node n
          rx_inter,  \* calls for the loop: [unread, lagged]
          rx_party,  \* messages of its sessions for the loop
          sessions,  \* sessions[n]: [job, message, members, party_i, unsent]
          down       \* down[n]: what made it panic, None while it runs

membership == <<peer_ids, parties>>
network == <<conns, dials, losses, events, open>>
channels == <<rx_inter, rx_party>>
vars == <<stdin, network, membership, published, heard, channels, sessions, down>>

Up == {n \in Party : down[n] = None}
Empty == [unread |-> << >>, lagged |-> FALSE]

Init == /\ stdin = Stdin
        /\ conns = {} /\ dials = 0 /\ losses = 0
        /\ events = [n \in Party |-> << >>]
        /\ open = [n \in Party |-> {}]
        /\ peer_ids = [n \in Party |-> << >>]
        /\ parties = [n \in Party |-> << >>]
        /\ published = {}
        /\ heard = [n \in Party |-> {}]
        /\ rx_inter = [n \in Party |-> Empty]
        /\ rx_party = [n \in Party |-> Empty]
        /\ sessions = [n \in Party |-> << >>]
        /\ down = [n \in Party |-> None]
-----------------------------------------------------------------------------
(* Channels.                                                               *)
\* Mutant: room for one message less.
SendShort(ch, x) ==
    IF Len(ch.unread) + 1 < Capacity THEN [ch EXCEPT !.unread = Append(@, x)]
    ELSE [unread |-> Append(Tail(ch.unread), x), lagged |-> TRUE]

Send(ch, x) ==
    IF Len(ch.unread) < Capacity THEN [ch EXCEPT !.unread = Append(@, x)]
    ELSE [unread |-> Append(Tail(ch.unread), x), lagged |-> TRUE]

Recv(ch) == [ch EXCEPT !.unread = Tail(@)]

(* The swarm.                                                              *)
Connected(n, q) == {<<n, q>>, <<q, n>>} \cap conns # {}

Report(evs, kind, cs) ==
    [ n \in Party |->
        evs[n] \o SetToSeq({[kind |-> kind, conn |-> c] :
                              c \in {x \in cs : n \in {x[1], x[2]} /\ n \in Up}}) ]

\* A panic of the main task: its connections close.
Panic(n, why) ==
    LET closed == {c \in conns : n \in {c[1], c[2]}}
    IN  /\ down' = [down EXCEPT ![n] = why]
        /\ conns' = conns \ closed
        /\ events' = [Report(events, "Closed", closed) EXCEPT ![n] = << >>]
        /\ UNCHANGED <<stdin, dials, losses, open, membership, published, heard,
                       channels, sessions>>

\* mdns has found l, and floodsub dials it unless it is connected already, as
\* far as the swarm of d knows.  Both may dial at the same time.
Dial(d, l) ==
    /\ {d, l} \subseteq Up /\ d # l
    /\ dials < MaxDials
    /\ \A c \in open[d] : l \notin {c[1], c[2]}
    /\ \A i \in DOMAIN events[d] : events[d][i].conn # <<d, l>>
    /\ conns' = conns \cup {<<d, l>>}
    /\ dials' = dials + 1
    /\ events' = Report(events, "Established", {<<d, l>>})
    /\ UNCHANGED <<stdin, losses, open, membership, published, heard, channels,
                   sessions, down>>

Lose(c) ==
    /\ losses < MaxLoss
    /\ conns' = conns \ {c}
    /\ losses' = losses + 1
    /\ events' = Report(events, "Closed", {c})
    /\ UNCHANGED <<stdin, dials, open, membership, published, heard, channels,
                   sessions, down>>

\* Mutant: floodsub hands over every copy that arrives.
FloodAgain(q, call) ==
    /\ q \in Up
    /\ q # call.from
    /\ \E n \in Up : Connected(n, q) /\ (n = call.from \/ call \in heard[n])
    /\ Len(rx_inter[q].unread) < Capacity /\ Len(sessions[q]) < 3
    /\ heard' = [heard EXCEPT ![q] = @ \cup {call}]
    /\ rx_inter' = [rx_inter EXCEPT ![q] = Send(@, call.job)]
    /\ UNCHANGED <<stdin, network, membership, published, rx_party, sessions, down>>
\* A call reaches q over a connection to a node that has it: floodsub forwards,
\* and hands every message to a node once.  inject_event puts it on rx_inter.
Flood(q, call) ==
    /\ q \in Up
    /\ q # call.from
    /\ call \notin heard[q]
    /\ \E n \in Up : Connected(n, q) /\ (n = call.from \/ call \in heard[n])
    /\ heard' = [heard EXCEPT ![q] = @ \cup {call}]
    /\ rx_inter' = [rx_inter EXCEPT ![q] = Send(@, call.job)]
    /\ UNCHANGED <<stdin, network, membership, published, rx_party, sessions, down>>
-----------------------------------------------------------------------------
(* Sessions.                                                               *)
\* Mutant: the own id stays where it was pushed.
MembersUnsorted(n) == Append(peer_ids[n], n)

\* The elements of a sequence of numbers in increasing order.
Sorted(s) ==
    LET order == CHOOSE p \in [DOMAIN s -> DOMAIN s] :
                   /\ IsInjective(p)
                   /\ \A i, k \in DOMAIN s : i < k => s[p[i]] <= s[p[k]]
    IN  [i \in DOMAIN s |-> s[order[i]]]

Members(n) == Sorted(Append(peer_ids[n], n))

\* handle_sign, start_musig2: the member list of this moment, for the life of
\* the session.
NewSession(n, j) ==
    LET members == Members(n)
    IN  [ job |-> j, message |-> format_musig_msg(TextOf[j]),
          members |-> members, unsent |-> Sends,
          party_i |-> CHOOSE k \in DOMAIN members :
                        members[k] = n /\ \A l \in (k + 1)..Len(members) : members[l] # n ]

HandleSign(n, j) == sessions' = [sessions EXCEPT ![n] = Append(@, NewSession(n, j))]

\* A session of n sends one of its two messages (module Signing has the rest).
SessionSends(n, k) ==
    /\ n \in Up
    /\ sessions[n][k].unsent > 0
    /\ sessions' = [sessions EXCEPT ![n][k].unsent = @ - 1]
    /\ rx_party' = [rx_party EXCEPT ![n] = Send(@, sessions[n][k].job)]
    /\ UNCHANGED <<stdin, network, membership, published, heard, rx_inter, down>>
-----------------------------------------------------------------------------
(* One turn of the loop.                                                   *)
\* Mutant: both ends of a connection list each other.
ListsPeerAnyEnd(n, conn) == TRUE

\* `if let ConnectedPoint::Dialer`.
ListsPeer(n, conn) == n = conn[1]

PeerOf(n, conn) == IF n = conn[1] THEN conn[2] ELSE conn[1]

ConnectionEstablished(n) ==
    /\ n \in Up
    /\ events[n] # << >>
    /\ Head(events[n]).kind = "Established"
    /\ LET conn == Head(events[n]).conn
           Added(v) == IF ListsPeer(n, conn) THEN Append(v, PeerOf(n, conn)) ELSE v
       IN  /\ peer_ids' = [peer_ids EXCEPT ![n] = Added(@)]
           /\ parties' = [parties EXCEPT ![n] = Added(@)]
           /\ open' = [open EXCEPT ![n] = @ \cup {conn}]
    /\ events' = [events EXCEPT ![n] = Tail(@)]
    /\ UNCHANGED <<stdin, conns, dials, losses, published, heard, channels,
                   sessions, down>>

\* Mutant: a closed connection leaves the list as it is.
ConnectionForgotten(n) ==
    /\ n \in Up
    /\ events[n] # << >>
    /\ Head(events[n]).kind = "Closed"
    /\ open' = [open EXCEPT ![n] = @ \ {Head(events[n]).conn}]
    /\ events' = [events EXCEPT ![n] = Tail(@)]
    /\ UNCHANGED <<stdin, conns, dials, losses, membership, published, heard,
                   channels, sessions, down>>

\* remove_party, remove_peer_id: position().unwrap().
ConnectionClosed(n) ==
    /\ n \in Up
    /\ events[n] # << >>
    /\ Head(events[n]).kind = "Closed"
    /\ LET conn == Head(events[n]).conn
           peer == PeerOf(n, conn)
       IN  IF ListsPeer(n, conn) /\ (~Contains(peer_ids[n], peer) \/ ~Contains(parties[n], peer))
           THEN Panic(n, "position")
           ELSE /\ IF ListsPeer(n, conn)
                   THEN /\ peer_ids' = [peer_ids EXCEPT ![n] = RemoveFirst(@, peer)]
                        /\ parties' = [parties EXCEPT ![n] = RemoveFirst(@, peer)]
                   ELSE UNCHANGED membership
                /\ open' = [open EXCEPT ![n] = @ \ {conn}]
                /\ events' = [events EXCEPT ![n] = Tail(@)]
                /\ UNCHANGED <<stdin, conns, dials, losses, published, heard,
                               channels, sessions, down>>

\* strip_prefix("sign "), strip_prefix("list ").
LacksBlank(line) == line.verb \in {"sign", "list"} /\ ~line.blank

\* EventType::Input.  `sign` calls the peers and starts the own session before
\* the swarm gets to send the call; `list` and the rest change nothing.
Input(n) ==
    /\ n \in Up
    /\ stdin[n] # << >>
    /\ LET line == Head(stdin[n])
       IN  IF LacksBlank(line) THEN Panic(n, "strip_prefix")
           ELSE /\ stdin' = [stdin EXCEPT ![n] = Tail(@)]
                /\ IF line.verb = "sign"
                   THEN /\ published' = published \cup {[job |-> line.job, from |-> n]}
                        /\ HandleSign(n, line.job)
                   ELSE UNCHANGED <<published, sessions>>
                /\ UNCHANGED <<network, membership, heard, channels, down>>

\* The end of stdin: expect("can read line from stdin").
EndOfInput(n) == /\ n \in Up \cap Ended
                 /\ stdin[n] = << >>
                 /\ Panic(n, "stdin")

\* Mutant: a call is dropped while the node has a session.
CallPeersBusy(n) ==
    /\ n \in Up
    /\ rx_inter[n].unread # << >>
    /\ IF rx_inter[n].lagged THEN Panic(n, "rx_inter")
       ELSE /\ rx_inter' = [rx_inter EXCEPT ![n] = Recv(@)]
            /\ IF sessions[n] = << >> THEN HandleSign(n, Head(rx_inter[n].unread))
               ELSE UNCHANGED sessions
            /\ UNCHANGED <<stdin, network, membership, published, heard, rx_party, down>>

\* EventType::CallPeers.
CallPeers(n) ==
    /\ n \in Up
    /\ rx_inter[n].unread # << >>
    /\ IF rx_inter[n].lagged THEN Panic(n, "rx_inter")
       ELSE /\ rx_inter' = [rx_inter EXCEPT ![n] = Recv(@)]
            /\ HandleSign(n, Head(rx_inter[n].unread))
            /\ UNCHANGED <<stdin, network, membership, published, heard, rx_party, down>>

\* EventType::AsyncResponse: publish_msg.
AsyncResponse(n) ==
    /\ n \in Up
    /\ rx_party[n].unread # << >>
    /\ IF rx_party[n].lagged THEN Panic(n, "rx_party")
       ELSE /\ rx_party' = [rx_party EXCEPT ![n] = Recv(@)]
            /\ UNCHANGED <<stdin, network, membership, published, heard, rx_inter,
                           sessions, down>>

SwarmEvent(n) == ConnectionEstablished(n) \/ ConnectionClosed(n)

Next == \/ \E n \in Party : \/ SwarmEvent(n) \/ Input(n) \/ EndOfInput(n)
                            \/ CallPeers(n) \/ AsyncResponse(n)
                            \/ \E k \in DOMAIN sessions[n] : SessionSends(n, k)
                            \/ \E call \in published : Flood(n, call)
                            \/ \E q \in Party : Dial(n, q)
        \/ \E c \in conns : Lose(c)

\* select! starts with a random branch: one that stays ready is taken.  Nobody
\* has to type anything, and the network owes nothing.
Fairness == \A n \in Party : /\ WF_vars(SwarmEvent(n))
                             /\ WF_vars(CallPeers(n)) /\ WF_vars(AsyncResponse(n))

Spec == Init /\ [][Next]_vars /\ Fairness
=============================================================================
