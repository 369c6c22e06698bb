---------------------------- MODULE SigningProps ----------------------------
(* What the sessions of all nodes must satisfy together. *)
EXTENDS Signing, Functions

\* What sessions can sign under: some keys in some order, and a message.
Contexts == [ pks : UNION {[1..n -> Party] : n \in 1..N},
              message : {MessageOf[j] : j \in Job} ]

\* With one member list for all: the keys of everybody, and the own message.
CtxOf(j) == [pks |-> [i \in Party |-> i], message |-> MessageOf[j]]

Bodies ==
    {Round1Body(p, MessageOf[j]) : p \in Party, j \in Job} \cup
    {Share(p, c) : p \in Party, c \in Contexts}
Messages == {Broadcast(i, b) : i \in Party, b \in Bodies}
Outcomes ==
    [tag : {"HandleIncoming", "Panicked", "Recv"}]
    \cup [tag : {"HandleIncomingTimeout"}, blamed : SUBSET Party]
    \cup {[tag |-> "Ok", result |-> [ctx |-> c,
             shares |-> {Share(c.pks[i], c) : i \in DOMAIN c.pks}]] : c \in Contexts}

StoreOf(s) == [ party_i : {PartyI(s)}, msgs_left : 0..(PartyN(s) - 1),
                msgs : [1..(PartyN(s) - 1) -> Bodies \cup {None}] ]

\* None stands for Rust's None: it is no body and no store.
ASSUME NoneAssumption ==
    /\ None \notin Bodies
    /\ \A s \in Session : None \notin StoreOf(s)

\* Type invariant.
TypeOK ==
    /\ status \in [Session -> Live \cup {"absent", "done", "crashed"}]
    /\ \A s \in Session :
         /\ inst[s].round \in {"Prepare", "Round1", "Round2", "Finished", "Gone"}
         /\ {inst[s].msgs1, inst[s].msgs2} \ {None} \subseteq StoreOf(s)
         /\ inst[s].ctx \in Contexts \cup {None}
         /\ \A i \in DOMAIN inst[s].msgs_queue :
              inst[s].msgs_queue[i] \in Messages
         /\ \A i \in DOMAIN incoming[s] : incoming[s][i] \in Messages
         /\ Len(incoming[s]) <= Capacity
    /\ lagged \in [Session -> BOOLEAN]
    /\ outcome \in [Session -> Outcomes \cup {None}]
    /\ sent \subseteq [from : Session, msg : Messages]
    /\ received \in [Party -> SUBSET sent]
    /\ down \subseteq Party /\ Cardinality(down) <= MaxCrash

Succeeded(s) == status[s] = "done" /\ outcome[s].tag = "Ok"
Failed(s)    == status[s] = "done" /\ outcome[s].tag # "Ok"

\* A signature returned by a session is of the message of its own command,
\* under as many distinct keys as it has signers, its own at its own index, and
\* every node whose key is used has really published its share for exactly
\* that.  Shares of other signings, or made with another member list, carry
\* nothing to tell them apart and still never end up in it (Round2::proceed
\* verifies before it returns).
Unanimity ==
    \A s \in Session : Succeeded(s) =>
        LET c == outcome[s].result.ctx IN
        /\ c.message = MessageOf[s[2]]
        /\ DOMAIN c.pks = 1..PartyN(s)
        /\ c.pks[PartyI(s)] = s[1]
        /\ IsInjective(c.pks)
        /\ \A i \in DOMAIN c.pks : \E e \in sent :
             e.from[1] = c.pks[i] /\ e.msg.body = Share(c.pks[i], c)

\* One member list for all: whoever starts Round2 signs under the keys of
\* everybody, in the same order as all others, whichever of them is its own.
SameKeyList == \A s \in Session : inst[s].ctx \in {None, CtxOf(s[2])}

\* Once one party has a signature, no other is left in the untimed Round1: it
\* has a signature, an error or a deadline.  (One command at a time.)
NobodyLeftWaiting ==
    \A s, t \in Session : Succeeded(s) /\ s[2] = t[2] =>
        inst[t].round \notin {"Prepare", "Round1"}

\* One command at a time, and room in the channel: the only way to fail is the
\* Round2 deadline.  No message is ever out of order, no sum fails to verify,
\* in whatever order the network delivers.
OnlyTimeoutsFail ==
    \A s \in Session : Failed(s) => outcome[s].tag = "HandleIncomingTimeout"

\* Action property, one command at a time: at the moment a session times out,
\* the parties it blames are exactly those whose share has not reached its
\* node, neither in the store nor unread in its channel.
BlamesUndelivered ==
    [][ \A s \in Session :
          outcome[s] # outcome'[s] /\ outcome'[s].tag = "HandleIncomingTimeout" =>
            outcome'[s].blamed =
              {q \in Party \ {s[1]} : \A e \in received[s[1]] :
                 e.msg.sender # q \/ e.msg.body.kind # "Round2"} ]_vars
-----------------------------------------------------------------------------
(* Liveness. *)

\* Once a session holds all nonces its end is bounded, whatever crashes or gets
\* lost: signature, error or deadline.  Only the sessions' own steps are fair
\* here: a message need never arrive, and neither need a call.
Round2Ends ==
    \A s \in Session :
        inst[s].round = "Round2" ~> status[s] \in {"done", "crashed"}

Missed(q) == received[q] # {} /\ \E j \in Job : status[<<q, j>>] = "absent"
Quiet == /\ down = {}
         /\ \A q \in Party : ~Missed(q)
         /\ \A s \in Session : ~Failed(s)

\* If all calls and messages arrive, no node crashes, every node has its session
\* before the first message reaches it, and no deadline passes, then every party
\* gets the signature.
QuietRunSigns ==
    Reliable /\ []Quiet => <>(\A s \in Session : Succeeded(s))
-----------------------------------------------------------------------------
(* Refinement of MultiSig.                                                  *)
MS == INSTANCE MultiSig WITH
        Message   <- {MessageOf[j] : j \in Job},
        committed <- {e.from[1] : e \in {x \in sent : x.msg.body.kind = "Round1"}},
        shared    <- [ m \in {MessageOf[j] : j \in Job} |->
                         {e.from[1] : e \in {x \in sent :
                            /\ x.msg.body.kind = "Round2"
                            /\ x.msg.body.ctx.message = m}} ],
        signed    <- {MessageOf[s[2]] : s \in {t \in Session : Succeeded(t)}}

\* Refinement: nonces of all, then shares of all, then a signature.
ImplementsMultiSig == MS!Spec
-----------------------------------------------------------------------------
\* What node.rs says of call_peers: "each peer that has established a connection
\* with the current node will participate in the musig2".
PeersSign ==
    \A s \in Session : Succeeded(s) =>
        \A q \in Peers[s] : \E i \in 1..PartyN(s) :
            outcome[s].result.ctx.pks[i] = q
=============================================================================
