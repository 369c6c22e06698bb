---------------------------- MODULE SigningProofs ----------------------------
(***************************************************************************)
(* Proofs about the sessions of all nodes together: any number of nodes    *)
(* and sign commands, any member list for every session, any capacity of   *)
(* the channels, with crashes.  What holds only when all nodes list each   *)
(* other, or for one command at a time, has that as a hypothesis.          *)
(***************************************************************************)
EXTENDS SigningProps, InstanceLemmas

\* The messages session s has sent, and those that have come to its node.
Own(s)  == {e.msg : e \in {x \in sent : x.from = s}}
Come(s) == {e.msg : e \in received[s[1]]}

MsgOf(s) == MessageOf[s[2]]

SessionOK(s) ==
    InstOK(inst[s], PartyI(s), PartyN(s), s[1], MsgOf(s), Bodies, Come(s), Own(s))

\* The context of a session, as far as what came to its node determines it.
KeysOf(s, c) == KeysFrom(c, PartyI(s), PartyN(s), s[1], MsgOf(s), Come(s))

\* The variables that only hold what was put there.
Plain ==
    /\ status \in [Session -> Live \cup {"absent", "done", "crashed"}]
    /\ inst = [s \in Session |-> inst[s]]
    /\ incoming \in [Session -> Seq(Messages)]
    /\ lagged \in [Session -> BOOLEAN]
    /\ outcome \in [Session -> Outcomes \cup {None}]
    /\ down \subseteq Party /\ Cardinality(down) <= MaxCrash

\* A message reaches only other nodes, and is on a channel only when it has.
Network ==
    /\ sent \subseteq [from : Session, msg : Messages]
    /\ received \in [Party -> SUBSET sent]
    /\ \A q \in Party : \A e \in received[q] : e.from[1] # q
    /\ \A s \in Session : /\ Len(incoming[s]) <= Capacity
                          /\ \A k \in DOMAIN incoming[s] : incoming[s][k] \in Come(s)

\* What the executor has made of the instance where it is.
Phase(s) ==
    /\ status[s] \in {"absent", "spawned"} => inst[s] = NewSession(s)
    /\ status[s] \in {"flush", "finish", "receive"} => Settled(inst[s])
    /\ status[s] = "finish" => inst[s].round = "Finished"
    /\ status[s] = "receive" => inst[s].round # "Finished"
    /\ status[s] \in {"finish", "receive"} => inst[s].msgs_queue = << >>

\* A signature: its keys came in, its shares too, and the own share went out.
SignedOK(s) ==
    LET c == outcome[s].result.ctx
    IN  /\ KeysOf(s, c)
        /\ SharesFrom(c, PartyN(s), s[1], Come(s))
        /\ OwnShare(PartyI(s), s[1], c) \in Own(s)

Ended(s) ==
    /\ status[s] = "done" => outcome[s] \in Outcomes
    /\ Succeeded(s) => SignedOK(s)

SessionInv(s) == SessionOK(s) /\ Phase(s) /\ Ended(s)

IInv == /\ Plain /\ Network
        /\ \A s \in Session : SessionInv(s)
-----------------------------------------------------------------------------
(* Hypotheses. *)
OneList == \A s \in Session : Peers[s] = Party \ {s[1]}
OneCommand == \E j \in Job : Job = {j}
Room == Capacity >= 2 * (N - 1)
OneEach == \A j, k \in Job : MessageOf[j] = MessageOf[k] => j = k

Unread(s, m) == \E k \in DOMAIN incoming[s] : incoming[s][k] = m

\* One command: a live session is about to hear whatever is on its channel
\* for the first time, and has heard every share that is not.
Attentive(s) ==
    /\ status[s] = "absent" => incoming[s] = << >> /\ ~lagged[s]
    /\ status[s] \in Live =>
        /\ ~lagged[s]
        /\ \A k, l \in DOMAIN incoming[s] : incoming[s][k] = incoming[s][l] => k = l
        /\ \A k \in DOMAIN incoming[s] :
             ~Heard(inst[s], incoming[s][k].body.kind, incoming[s][k].sender)
        /\ \A m \in Come(s) : m.body.kind = "Round2" =>
             Unread(s, m) \/ Heard(inst[s], "Round2", m.sender)

\* No other way to fail than a deadline.
OnlyLate(s) == Failed(s) => outcome[s].tag = "HandleIncomingTimeout"

OneInv == \A s \in Session : Attentive(s) /\ OnlyLate(s)
-----------------------------------------------------------------------------
(* Indices and names.                                                      *)
LEMMA Numbers ==
    ASSUME NEW s \in Session
    PROVE  /\ N \in Nat \ {0} /\ PartyN(s) \in 1..N /\ PartyI(s) \in 1..PartyN(s)
           /\ s[1] \in Party /\ s[2] \in Job /\ s = <<s[1], s[2]>>
  <1> DEFINE low == {q \in Signers(s) : q <= s[1]}
  <1>1. /\ N \in Nat \ {0} /\ s[1] \in Party /\ s[2] \in Job /\ s = <<s[1], s[2]>>
    BY NAssumption DEF Session
  <1>2. Signers(s) \in SUBSET Party /\ low \in SUBSET Signers(s) /\ s[1] \in low
    BY <1>1, PeersAssumption DEF Signers, Party
  <1>3. IsFiniteSet(Party) /\ Cardinality(Party) = N
    <2>1. /\ 1 \in Int /\ N \in Int
      BY <1>1
    <2>2. /\ IsFiniteSet(1..N)
          /\ Cardinality(1..N) = IF 1 > N THEN 0 ELSE N - 1 + 1
      BY <2>1, FS_Interval
    <2>. QED
      BY <1>1, <2>2 DEF Party
  <1>4. /\ IsFiniteSet(Signers(s)) /\ Cardinality(Signers(s)) <= N
    BY <1>2, <1>3, FS_Subset
  <1>5. /\ IsFiniteSet(low) /\ Cardinality(low) <= Cardinality(Signers(s))
    BY <1>2, <1>4, FS_Subset
  <1>6. Cardinality(low) \in Nat /\ Cardinality(Signers(s)) \in Nat /\ Cardinality(low) # 0
    BY <1>2, <1>4, <1>5, FS_CardinalityType, FS_EmptySet
  <1>. QED
    BY <1>1, <1>4, <1>5, <1>6 DEF PartyN, PartyI

LEMMA NoneHere ==
    ASSUME NEW s \in Session
    PROVE  /\ None \notin Bodies
           /\ StoreOf(s) = StoresOf(PartyI(s), PartyN(s), Bodies)
           /\ NoneIsNone(PartyI(s), PartyN(s), Bodies)
  BY NoneAssumption DEF NoneIsNone, StoreOf, StoresOf

\* With one list an index is the node itself.
LEMMA IndexIsNode ==
    ASSUME OneList, NEW s \in Session
    PROVE  PartyN(s) = N /\ PartyI(s) = s[1]
  <1>1. /\ N \in Nat \ {0} /\ s[1] \in 1..N
    BY Numbers DEF Party
  <1>2. Signers(s) = 1..N
    BY <1>1 DEF Signers, OneList, Party
  <1>3. {q \in Signers(s) : q <= s[1]} = 1..s[1]
    BY <1>1, <1>2
  <1>4. ASSUME NEW k \in Nat \ {0} PROVE Cardinality(1..k) = k
    <2>1. 1 \in Int /\ k \in Int
      OBVIOUS
    <2>2. Cardinality(1..k) = IF 1 > k THEN 0 ELSE k - 1 + 1
      BY <2>1, FS_Interval
    <2>. QED
      BY <2>2
  <1>5. PartyN(s) = Cardinality(1..N)
    BY <1>2 DEF PartyN
  <1>6. PartyI(s) = Cardinality(1..s[1])
    BY <1>3 DEF PartyI
  <1>. QED
    BY <1>1, <1>4, <1>5, <1>6

\* What a message looks like.
LEMMA MessageShape ==
    ASSUME NEW m \in Messages
    PROVE  /\ m.sender \in Party /\ m.sender \in Nat /\ m.receiver = None
           /\ m.body \in Bodies /\ m = Broadcast(m.sender, m.body)
           /\ m.body.kind \in {"Round1", "Round2"}
           /\ m.body.key \in Party
  <1>1. PICK i \in Party, b \in Bodies : m = Broadcast(i, b)
    BY DEF Messages
  <1>2. b.kind \in {"Round1", "Round2"} /\ b.key \in Party
    BY DEF Bodies, Round1Body, Share
  <1>3. i \in Nat
    BY NAssumption DEF Party
  <1>. QED
    BY <1>1, <1>2, <1>3 DEF Broadcast

\* What has come to the node of s was sent by another node.
LEMMA ComesIn ==
    ASSUME Network, NEW s \in Session, NEW m \in Come(s)
    PROVE  /\ Incoming(m, Bodies, Come(s))
           /\ m \in Messages
           /\ \E e \in received[s[1]] :
                /\ e \in sent /\ e.msg = m /\ e.from \in Session /\ e.from[1] # s[1]
                /\ m \in Own(e.from)
  <1>1. PICK e \in received[s[1]] : e.msg = m
    BY DEF Come
  <1>2. e \in sent /\ e.from \in Session /\ e.from[1] # s[1] /\ m \in Messages
    BY <1>1, Numbers DEF Network
  <1>3. m \in Own(e.from)
    BY <1>1, <1>2 DEF Own
  <1>. QED
    BY <1>1, <1>2, <1>3, MessageShape DEF Incoming

\* The keys of a context are nodes, as many as the session has signers.
LEMMA KeysAreNodes ==
    ASSUME Network, NEW s \in Session, NEW c, KeysOf(s, c)
    PROVE  /\ c \in Contexts
           /\ DOMAIN c.pks = 1..PartyN(s)
           /\ c.message = MsgOf(s)
           /\ c.pks[PartyI(s)] = s[1]
  <1> USE Numbers
  <1>1. /\ c = [pks |-> c.pks, message |-> MsgOf(s)]
        /\ c.pks = [k \in 1..PartyN(s) |-> c.pks[k]]
        /\ c.pks[PartyI(s)] = s[1]
    BY DEF KeysOf, KeysFrom
  <1>2. ASSUME NEW k \in 1..PartyN(s) PROVE c.pks[k] \in Party
    <2>1. CASE k = PartyI(s)
      BY <1>1, <2>1
    <2>2. CASE k # PartyI(s)
      <3>1. PICK x \in Come(s) : x.body.key = c.pks[k]
        BY <2>2 DEF KeysOf, KeysFrom
      <3>. QED
        BY <3>1, ComesIn, MessageShape
    <2>. QED
      BY <2>1, <2>2
  <1>3. c.pks \in [1..PartyN(s) -> Party]
    BY <1>1, <1>2
  <1>4. [1..PartyN(s) -> Party] \in {[1..n -> Party] : n \in 1..N}
    OBVIOUS
  <1>5. c.pks \in UNION {[1..n -> Party] : n \in 1..N}
    BY <1>3, <1>4
  <1>. QED
    BY <1>1, <1>5 DEF Contexts, MsgOf

\* What a session sends are messages, under its key and its index.
LEMMA OwnMessages ==
    ASSUME Network, NEW s \in Session, SessionOK(s)
    PROVE  /\ \A x \in Own(s) :
                /\ x.body.key = s[1] /\ x.sender = PartyI(s)
                /\ x.body.kind = "Round1" => x = Nonces(PartyI(s), s[1], MsgOf(s))
                /\ x.body.kind = "Round2" =>
                     /\ KeysOf(s, x.body.ctx)
                     /\ x = OwnShare(PartyI(s), s[1], x.body.ctx)
                     /\ Nonces(PartyI(s), s[1], MsgOf(s)) \in Own(s)
                     /\ inst[s].round \notin {"Prepare", "Round1"}
           /\ \A k \in DOMAIN inst[s].msgs_queue : inst[s].msgs_queue[k] \in Messages
  <1> DEFINE u == inst[s]
             i == PartyI(s)
             n == PartyN(s)
             x1 == Nonces(i, s[1], MsgOf(s))
             Good(x) ==
                /\ x.body.key = s[1] /\ x.sender = i
                /\ x.body.kind = "Round1" => x = x1
                /\ x.body.kind = "Round2" =>
                     /\ KeysOf(s, x.body.ctx)
                     /\ x = OwnShare(i, s[1], x.body.ctx)
                     /\ x1 \in Own(s)
                     /\ u.round \notin {"Prepare", "Round1"}
  <1> USE Numbers
  <1>0. i \in Party
    <2>1. n \in 1..N /\ i \in 1..n /\ N \in Nat
      OBVIOUS
    <2> HIDE DEF n, i
    <2>. QED
      BY <2>1 DEF Party
  <1>1. /\ x1.body.key = s[1] /\ x1.sender = i /\ x1.body.kind = "Round1"
        /\ x1 \in Messages
    <2>1. Round1Body(s[1], MsgOf(s)) \in Bodies /\ i \in Party
      BY <1>0 DEF Bodies, MsgOf
    <2>2. x1 \in Messages
      BY <2>1 DEF Nonces, Messages
    <2>. QED
      BY <2>2 DEF Nonces, Broadcast, Round1Body
  <1>2. ASSUME NEW c, KeysOf(s, c)
        PROVE  LET y == OwnShare(i, s[1], c)
               IN  /\ y.body.key = s[1] /\ y.sender = i /\ y.body.kind = "Round2"
                   /\ y.body.ctx = c /\ y \in Messages
    <2>1. Share(s[1], c) \in Bodies /\ i \in Party
      BY <1>0, <1>2, KeysAreNodes DEF Bodies
    <2>2. OwnShare(i, s[1], c) \in Messages
      BY <2>1 DEF OwnShare, Messages
    <2>. QED
      BY <2>2 DEF OwnShare, Broadcast, Share
  <1>3. /\ Progress(u, i, n, s[1], MsgOf(s), Come(s), Own(s))
        /\ u.round \in Rounds
    BY DEF SessionOK, InstOK, Shaped
  <1>4. CASE u.round \in {"Prepare", "Round1"}
    <2>1. Own(s) \subseteq {x1} /\ u.msgs_queue \in {<< >>, << x1 >>}
      BY <1>3, <1>4 DEF Progress, OneOut
    <2>2. \A k \in DOMAIN u.msgs_queue : u.msgs_queue[k] = x1
      BY <2>1
    <2>3. \A x \in Own(s) : Good(x)
      BY <1>1, <2>1
    <2>. QED
      BY <1>1, <2>2, <2>3
  <1>5. CASE u.round \notin {"Prepare", "Round1"}
    <2>1. PICK c : Done(u, c, i, n, s[1], MsgOf(s), Come(s), Own(s))
      BY <1>3, <1>5 DEF Progress, Rounds
    <2> DEFINE x2 == OwnShare(i, s[1], c)
    <2>2. KeysOf(s, c) /\ BothOut(Own(s), u.msgs_queue, x1, x2)
      BY <2>1 DEF Done, KeysOf
    <2>3. /\ x2.body.key = s[1] /\ x2.sender = i /\ x2.body.kind = "Round2"
          /\ x2.body.ctx = c /\ x2 \in Messages
      BY <1>2, <2>2
    <2>4. /\ Own(s) \subseteq {x1, x2} /\ (x2 \in Own(s) => x1 \in Own(s) \/ x1 = x2)
          /\ u.msgs_queue \in {<< >>, << x2 >>, << x1, x2 >>}
      BY <2>2 DEF BothOut
    <2>5. \A k \in DOMAIN u.msgs_queue : u.msgs_queue[k] \in {x1, x2}
      BY <2>4
    <2>6. Good(x1)
      BY <1>1
    <2>7. x2 \in Own(s) => Good(x2)
      <3>1. x1 # x2
        BY <1>1, <2>3
      <3>. QED
        BY <1>5, <2>2, <2>3, <2>4, <3>1
    <2>. QED
      BY <1>1, <2>3, <2>4, <2>5, <2>6, <2>7
  <1>. QED
    BY <1>4, <1>5
-----------------------------------------------------------------------------
(* The inductive invariant.                                                *)
LEMMA InitIInv == Init => IInv
  <1> SUFFICES ASSUME Init PROVE IInv
    OBVIOUS
  <1>1. Plain
    <2>1. Cardinality(down) = 0
      BY FS_EmptySet DEF Init
    <2>2. inst = [s \in Session |-> inst[s]]
      BY DEF Init
    <2>. QED
      BY <2>1, <2>2, MaxCrashAssumption DEF Init, Plain
  <1>2. Network
    BY CapacityAssumption DEF Init, Network
  <1>3. ASSUME NEW s \in Session PROVE SessionInv(s)
    <2>1. Own(s) = {} /\ inst[s] = NewSession(s) /\ status[s] = "absent"
      BY DEF Init, Own
    <2>2. SessionOK(s)
      BY <2>1, Numbers, NoneHere, NewInstanceOK DEF SessionOK, NewSession, MsgOf
    <2>. QED
      BY <2>1, <2>2 DEF SessionInv, Phase, Ended, Succeeded
  <1>. QED
    BY <1>1, <1>2, <1>3 DEF IInv

\* A new instance goes from Prepare to where it has to wait, or to the end.
LEMMA BeginSettles ==
    ASSUME NEW s \in Session
    PROVE  ~Panicked(Proceed(NewSession(s))) /\ Settled(Proceed(NewSession(s)))
  <1> DEFINE u == NewSession(s)
             i == PartyI(s)
             n == PartyN(s)
  <1>1. /\ n \in Nat \ {0} /\ i \in 1..n
        /\ None \notin Bodies /\ NoneIsNone(i, n, Bodies)
    <2>1. N \in Nat /\ PartyN(s) \in 1..N /\ PartyI(s) \in 1..PartyN(s)
      BY Numbers
    <2>2. n \in Nat \ {0}
      BY <2>1
    <2>. QED
      BY <2>1, <2>2, NoneHere
  <1>2. InstOK(u, i, n, s[1], MsgOf(s), Bodies, {}, {})
    BY <1>1, NewInstanceOK DEF NewSession, MsgOf
  <1>3. SharesAgree(i, n, s[1], MsgOf(s), {})
    BY DEF SharesAgree, Came
  <1>4. ~Panicked(u)
    BY DEF NewSession, NewInstance, Panicked
  <1>5. ~Panicked(ProceedRound(u, TRUE))
    BY <1>1, <1>2, <1>3, <1>4, AgreementNoPanic
  <1>6. Settled(ProceedRound(u, TRUE))
    BY <1>1, <1>2, <1>5, ProceedSettles
  <1>. QED
    BY <1>5, <1>6 DEF Proceed

\* proceed and a turn of the executor keep a session in order.
LEMMA StepsKeepOK ==
    ASSUME Network, NEW s \in Session, SessionOK(s)
    PROVE  /\ InstOK(Proceed(inst[s]), PartyI(s), PartyN(s), s[1], MsgOf(s), Bodies,
                     Come(s), Own(s))
           /\ \A m \in Come(s) :
                InstOK(Turn(inst[s], m), PartyI(s), PartyN(s), s[1], MsgOf(s), Bodies,
                       Come(s), Own(s))
  <1> DEFINE i == PartyI(s)
             n == PartyN(s)
  <1>1. /\ n \in Nat \ {0} /\ i \in 1..n
        /\ None \notin Bodies /\ NoneIsNone(i, n, Bodies)
    <2>1. N \in Nat /\ PartyN(s) \in 1..N /\ PartyI(s) \in 1..PartyN(s)
      BY Numbers
    <2>2. n \in Nat \ {0}
      BY <2>1
    <2>. QED
      BY <2>1, <2>2, NoneHere
  <1>2. \A m \in Come(s) : Incoming(m, Bodies, Come(s))
    BY ComesIn
  <1> HIDE DEF i, n
  <1>3. InstOK(inst[s], i, n, s[1], MsgOf(s), Bodies, Come(s), Own(s))
    BY DEF SessionOK, i, n
  <1>4. InstOK(Proceed(inst[s]), i, n, s[1], MsgOf(s), Bodies, Come(s), Own(s))
    BY <1>1, <1>3, ProceedRoundOK DEF Proceed
  <1>5. \A m \in Come(s) :
           InstOK(Turn(inst[s], m), i, n, s[1], MsgOf(s), Bodies, Come(s), Own(s))
    BY <1>1, <1>2, <1>3, TurnOK
  <1>. QED
    BY <1>4, <1>5 DEF i, n

\* A turn without a panic ends where the executor has to wait or is done.
LEMMA TurnSettles ==
    ASSUME Network, NEW s \in Session, SessionOK(s), Settled(inst[s]),
           NEW m \in Come(s), ~Panicked(Turn(inst[s], m))
    PROVE  Settled(Turn(inst[s], m))
  <1>1. /\ PartyN(s) \in Nat \ {0} /\ PartyI(s) \in 1..PartyN(s)
        /\ NoneIsNone(PartyI(s), PartyN(s), Bodies) /\ Incoming(m, Bodies, Come(s))
    BY Numbers, NoneHere, ComesIn
  <1>2. InstOK(inst[s], PartyI(s), PartyN(s), s[1], MsgOf(s), Bodies, Come(s), Own(s))
    BY DEF SessionOK
  <1>3. Turn(inst[s], m) = HandleIncoming(inst[s], m)
    BY <1>1, <1>2, TurnIsHandleIncoming
  <1>. QED
    BY <1>1, <1>2, <1>3, HandleIncomingSettles

\* What a session has of its keys, its shares and its own messages stays.
LEMMA SignedGrows ==
    ASSUME NEW s \in Session, Succeeded(s), SignedOK(s), outcome'[s] = outcome[s],
           Come(s) \subseteq Come(s)', Own(s) \subseteq Own(s)'
    PROVE  SignedOK(s)'
  <1> DEFINE c == outcome[s].result.ctx
  <1>1. /\ KeysFrom(c, PartyI(s), PartyN(s), s[1], MsgOf(s), Come(s))
        /\ SharesFrom(c, PartyN(s), s[1], Come(s))
        /\ OwnShare(PartyI(s), s[1], c) \in Own(s)
    BY DEF SignedOK, KeysOf
  <1>2. KeysFrom(c, PartyI(s), PartyN(s), s[1], MsgOf(s), Come(s)')
    BY <1>1, KeysGrow
  <1>3. SharesFrom(c, PartyN(s), s[1], Come(s)')
    BY <1>1 DEF SharesFrom
  <1>. QED
    BY <1>1, <1>2, <1>3 DEF SignedOK, KeysOf

\* The sessions a step leaves alone, or only starts or crashes.
LEMMA Untouched ==
    ASSUME NEW s \in Session, SessionInv(s),
           inst'[s] = inst[s], outcome'[s] = outcome[s],
           \/ status'[s] = status[s]
           \/ status'[s] = "crashed"
           \/ status[s] = "absent" /\ status'[s] = "spawned",
           Own(s)' = Own(s), Come(s) \subseteq Come(s)'
    PROVE  SessionInv(s)'
  <1>1. SessionOK(s)'
    BY InstOKGrows DEF SessionInv, SessionOK
  <1>2. Phase(s)'
    BY DEF SessionInv, Phase
  <1>3. Ended(s)'
    BY SignedGrows DEF SessionInv, Ended, Succeeded
  <1>. QED
    BY <1>1, <1>2, <1>3 DEF SessionInv

\* Who has sent what after a Flush.
LEMMA FlushSends ==
    ASSUME NEW s \in Session, sent' = sent \cup Published(s)
    PROVE  /\ \A t \in Session \ {s} : Own(t)' = Own(t)
           /\ Own(s)' =
                Own(s) \cup {inst[s].msgs_queue[k] : k \in DOMAIN inst[s].msgs_queue}
  <1>1. Published(s) = {[from |-> s, msg |-> inst[s].msgs_queue[k]] :
                           k \in DOMAIN inst[s].msgs_queue}
    BY DEF Published
  <1>2. ASSUME NEW t \in Session \ {s} PROVE Own(t)' = Own(t)
    <2>1. \A x \in Published(s) : x.from = s
      BY <1>1
    <2>2. {x \in sent' : x.from = t} = {x \in sent : x.from = t}
      BY <2>1
    <2>. QED
      BY <2>2 DEF Own
  <1>3. Own(s)' = Own(s) \cup {inst[s].msgs_queue[k] : k \in DOMAIN inst[s].msgs_queue}
    <2> DEFINE Q == {inst[s].msgs_queue[k] : k \in DOMAIN inst[s].msgs_queue}
    <2>1. \A x \in Published(s) : x.from = s /\ x.msg \in Q
      BY <1>1
    <2>2. \A y \in Q : [from |-> s, msg |-> y] \in Published(s)
      BY <1>1
    <2> HIDE DEF Q
    <2>3. ASSUME NEW y \in Own(s)' PROVE y \in Own(s) \cup Q
      <3>1. PICK x \in sent \cup Published(s) : x.from = s /\ y = x.msg
        BY DEF Own
      <3>. QED
        BY <2>1, <3>1 DEF Own
    <2>4. ASSUME NEW y \in Own(s) PROVE y \in Own(s)'
      BY DEF Own
    <2>5. ASSUME NEW y \in Q PROVE y \in Own(s)'
      <3> DEFINE x == [from |-> s, msg |-> y]
      <3>1. x \in sent' /\ x.from = s /\ x.msg = y
        BY <2>2
      <3>. QED
        BY <3>1 DEF Own
    <2>. QED
      BY <2>3, <2>4, <2>5 DEF Q
  <1>. QED
    BY <1>2, <1>3

\* Reading a message leaves the rest of the channel.
LEMMA TailIsFine ==
    ASSUME Plain, Network, NEW s \in Session, incoming[s] # << >>,
           incoming' = [incoming EXCEPT ![s] = Tail(incoming[s])],
           UNCHANGED <<sent, received>>
    PROVE  Network' /\ incoming' \in [Session -> Seq(Messages)]
  <1>1. incoming[s] \in Seq(Messages) /\ incoming \in [Session -> Seq(Messages)]
    BY DEF Plain
  <1>2. /\ Tail(incoming[s]) \in Seq(Messages)
        /\ Len(Tail(incoming[s])) = Len(incoming[s]) - 1
        /\ \A k \in DOMAIN Tail(incoming[s]) :
             k + 1 \in DOMAIN incoming[s] /\ Tail(incoming[s])[k] = incoming[s][k + 1]
    BY <1>1
  <1>3. Len(incoming[s]) <= Capacity /\ Len(incoming[s]) \in Nat
    BY <1>1 DEF Network
  <1>4. ASSUME NEW t \in Session
        PROVE  /\ Len(incoming'[t]) <= Capacity
               /\ \A k \in DOMAIN incoming'[t] : incoming'[t][k] \in Come(t)'
    <2>1. CASE t = s
      BY <1>1, <1>2, <1>3, <2>1, CapacityAssumption DEF Network, Come
    <2>2. CASE t # s
      BY <1>1, <2>2 DEF Network, Come
    <2>. QED
      BY <2>1, <2>2
  <1>. QED
    BY <1>1, <1>2, <1>4 DEF Network

\* The steps of one session s, each on its own.
LEMMA StepIInv ==
    ASSUME IInv, NEW s \in Session, StartMusig2(s) \/ Step(s)
    PROVE  IInv'
  <1> DEFINE u == inst[s]
  <1>0. /\ Plain /\ Network /\ SessionInv(s)
        /\ SessionOK(s) /\ Phase(s) /\ Ended(s)
        /\ \A t \in Session : SessionInv(t)
        /\ N \in Nat /\ PartyN(s) \in 1..N /\ PartyI(s) \in 1..PartyN(s)
    BY Numbers DEF IInv, SessionInv
  <1>1. UNCHANGED <<received, down>> /\ \A t \in Session : Come(t)' = Come(t)
    BY DEF StartMusig2, Step, Begin, Flush, FinishIfPossible, Skip, Receive,
           ReceiveLagged, Timeout, Come
  <1>2. \A t \in Session \ {s} :
           /\ status'[t] = status[t] /\ inst'[t] = inst[t] /\ outcome'[t] = outcome[t]
           /\ incoming'[t] = incoming[t]
    BY <1>0 DEF Plain, StartMusig2, Step, Begin, Flush, FinishIfPossible, Skip, Receive,
           ReceiveLagged, Timeout
  <1>3. ASSUME sent' = sent PROVE \A t \in Session : Own(t)' = Own(t)
    BY <1>3 DEF Own
  <1>4. CASE StartMusig2(s)
    <2>1. /\ UNCHANGED <<inst, incoming, lagged, outcome, sent>>
          /\ status[s] = "absent" /\ status' = [status EXCEPT ![s] = "spawned"]
      BY <1>4 DEF StartMusig2
    <2>2. Plain' /\ Network'
      BY <1>0, <1>1, <2>1 DEF Plain, Network, Live
    <2>3. ASSUME NEW t \in Session PROVE SessionInv(t)'
      BY <1>0, <1>1, <1>2, <1>3, <2>1, Untouched DEF Plain
    <2>. QED
      BY <2>2, <2>3 DEF IInv
  <1>5. CASE Begin(s)
    <2>1. /\ UNCHANGED <<incoming, lagged, outcome, sent>>
          /\ status[s] = "spawned" /\ status' = [status EXCEPT ![s] = "flush"]
          /\ inst' = [inst EXCEPT ![s] = Proceed(u)]
      BY <1>5 DEF Begin
    <2>2. Plain' /\ Network'
      BY <1>0, <1>1, <2>1 DEF Plain, Network, Live
    <2>3. ASSUME NEW t \in Session \ {s} PROVE SessionInv(t)'
      BY <1>0, <1>1, <1>2, <1>3, <2>1, Untouched
    <2>4. status'[s] = "flush" /\ inst'[s] = Proceed(u) /\ outcome'[s] = outcome[s]
      BY <1>0, <2>1 DEF Plain
    <2>5. SessionOK(s)'
      BY <1>0, <1>1, <1>3, <2>1, <2>4, StepsKeepOK DEF SessionOK
    <2>6. Phase(s)'
      BY <1>0, <2>1, <2>4, BeginSettles DEF Phase
    <2>7. Ended(s)'
      BY <2>4 DEF Ended, Succeeded
    <2>. QED
      BY <2>2, <2>3, <2>5, <2>6, <2>7 DEF IInv, SessionInv
  <1>6. CASE Flush(s)
    <2> DEFINE d == [u EXCEPT !.msgs_queue = << >>]
               Q == {u.msgs_queue[k] : k \in DOMAIN u.msgs_queue}
    <2>1. /\ UNCHANGED <<incoming, lagged, outcome>>
          /\ status[s] = "flush" /\ sent' = sent \cup Published(s)
          /\ status' = [status EXCEPT ![s] = IF IsFinished(u) THEN "finish" ELSE "receive"]
          /\ inst' = [inst EXCEPT ![s] = d]
      BY <1>0, <1>6 DEF Flush, Plain
    <2>2. \A x \in Published(s) : x \in [from : Session, msg : Messages]
      BY <1>0, OwnMessages DEF Published
    <2>3. Plain' /\ Network'
      <3>1. Plain'
        BY <1>0, <1>1, <2>1 DEF Plain, Live
      <3>2. sent' \subseteq [from : Session, msg : Messages]
        BY <1>0, <2>1, <2>2 DEF Network
      <3>3. received' \in [Party -> SUBSET sent']
        BY <1>0, <1>1, <2>1 DEF Network
      <3>. QED
        BY <1>0, <1>1, <2>1, <3>1, <3>2, <3>3 DEF Network
    <2>4. ASSUME NEW t \in Session \ {s} PROVE SessionInv(t)'
      BY <1>0, <1>1, <1>2, <2>1, <2>4, FlushSends, Untouched
    <2>5. Own(s)' = Own(s) \cup Q
      BY <2>1, FlushSends
    <2>6. inst'[s] = d /\ outcome'[s] = outcome[s]
          /\ status'[s] = IF IsFinished(u) THEN "finish" ELSE "receive"
      BY <1>0, <2>1 DEF Plain
    <2>7. SessionOK(s)'
      <3>1. InstOK(d, PartyI(s), PartyN(s), s[1], MsgOf(s), Bodies, Come(s), Own(s) \cup Q)
        BY <1>0, DrainOK DEF SessionOK
      <3>. QED
        BY <1>1, <2>5, <2>6, <3>1 DEF SessionOK
    <2>8. Phase(s)'
      <3>1. Settled(u)
        BY <1>0, <2>1 DEF Phase
      <3>2. u = [f \in Fields |-> u[f]]
        BY <1>0 DEF SessionOK, InstOK, Shaped
      <3>3. /\ d.round = u.round /\ d.msgs1 = u.msgs1 /\ d.msgs2 = u.msgs2
            /\ d.msgs_queue = << >>
        BY <3>2 DEF Fields
      <3>4. Settled(d)
        BY <3>1, <3>3 DEF Settled, WantsToProceed
      <3>. QED
        BY <2>6, <3>3, <3>4 DEF Phase, IsFinished
    <2>9. Ended(s)'
      BY <2>6 DEF Ended, Succeeded
    <2>. QED
      BY <2>3, <2>4, <2>7, <2>8, <2>9 DEF IInv, SessionInv
  <1>7. CASE FinishIfPossible(s)
    <2>1. /\ UNCHANGED <<incoming, lagged, sent>>
          /\ status[s] = "finish" /\ status' = [status EXCEPT ![s] = "done"]
          /\ inst' = [inst EXCEPT ![s] = PickOutput(u)]
          /\ outcome' = [outcome EXCEPT ![s] = [tag |-> "Ok", result |-> u.result]]
      BY <1>0, <1>7 DEF FinishIfPossible, Plain
    <2>2. /\ u.round = "Finished" /\ u.msgs_queue = << >>
          /\ Done(u, u.result.ctx, PartyI(s), PartyN(s), s[1], MsgOf(s), Come(s), Own(s))
          /\ u.result = [ ctx |-> u.result.ctx,
                          shares |-> {Share(u.result.ctx.pks[k], u.result.ctx) :
                                        k \in 1..PartyN(s)} ]
          /\ SharesFrom(u.result.ctx, PartyN(s), s[1], Come(s))
      BY <1>0, <2>1 DEF Phase, SessionOK, InstOK, Progress
    <2>3. /\ KeysOf(s, u.result.ctx)
          /\ OwnShare(PartyI(s), s[1], u.result.ctx) \in Own(s)
      BY <2>2, ShortQueues DEF Done, BothOut, KeysOf
    <2>4. [tag |-> "Ok", result |-> u.result] \in Outcomes
      <3>1. u.result.ctx \in Contexts /\ DOMAIN u.result.ctx.pks = 1..PartyN(s)
        BY <1>0, <2>3, KeysAreNodes
      <3>. QED
        BY <2>2, <3>1 DEF Outcomes
    <2>5. Plain' /\ Network'
      BY <1>0, <1>1, <2>1, <2>4 DEF Plain, Network
    <2>6. ASSUME NEW t \in Session \ {s} PROVE SessionInv(t)'
      BY <1>0, <1>1, <1>2, <1>3, <2>1, Untouched
    <2>7. /\ inst'[s] = PickOutput(u) /\ status'[s] = "done"
          /\ outcome'[s] = [tag |-> "Ok", result |-> u.result]
      BY <1>0, <2>1 DEF Plain
    <2>8. SessionOK(s)'
      <3>1. InstOK(PickOutput(u), PartyI(s), PartyN(s), s[1], MsgOf(s), Bodies, Come(s), Own(s))
        BY <1>0, <2>2, PickOutputOK DEF SessionOK
      <3>. QED
        BY <1>1, <1>3, <2>1, <2>7, <3>1 DEF SessionOK
    <2>9. Ended(s)'
      <3>1. SignedOK(s)'
        BY <1>1, <1>3, <2>1, <2>2, <2>3, <2>7 DEF SignedOK, KeysOf
      <3>. QED
        BY <2>4, <2>7, <3>1 DEF Ended
    <2>. QED
      BY <2>5, <2>6, <2>7, <2>8, <2>9 DEF IInv, SessionInv, Phase
  <1>8. CASE Skip(s)
    <2>1. /\ UNCHANGED <<status, inst, lagged, outcome, sent>>
          /\ incoming[s] # << >> /\ incoming' = [incoming EXCEPT ![s] = Tail(incoming[s])]
      BY <1>0, <1>8 DEF Skip, Plain
    <2>2. Plain' /\ Network'
      BY <1>0, <1>1, <2>1, TailIsFine DEF Plain
    <2>3. ASSUME NEW t \in Session PROVE SessionInv(t)'
      BY <1>0, <1>1, <1>3, <2>1, Untouched
    <2>. QED
      BY <2>2, <2>3 DEF IInv
  <1>9. CASE Receive(s)
    <2> DEFINE m == Head(incoming[s])
               t0 == Turn(u, m)
               fails == IsCritical(HandleResult(u, m)) \/ Panicked(t0)
    <2>1. /\ UNCHANGED <<lagged, sent>> /\ status[s] = "receive"
          /\ incoming[s] # << >> /\ incoming' = [incoming EXCEPT ![s] = Tail(incoming[s])]
          /\ inst' = [inst EXCEPT ![s] = t0]
          /\ status' = [status EXCEPT ![s] = IF fails THEN "done" ELSE "flush"]
          /\ IF fails
             THEN \E tag \in {"HandleIncoming", "Panicked"} :
                    outcome' = [outcome EXCEPT ![s] = [tag |-> tag]]
             ELSE outcome' = outcome
      BY <1>0, <1>9 DEF Receive, Plain
    <2>2. m \in Come(s)
      BY <1>0, <2>1 DEF Network, Plain
    <2>3. Plain' /\ Network'
      <3>1. status' \in [Session -> Live \cup {"absent", "done", "crashed"}]
            /\ inst' = [t \in Session |-> inst'[t]]
        BY <1>0, <2>1 DEF Plain, Live
      <3>2. outcome' \in [Session -> Outcomes \cup {None}]
        <4>1. \A tag \in {"HandleIncoming", "Panicked"} : [tag |-> tag] \in Outcomes
          BY DEF Outcomes
        <4>. QED
          BY <1>0, <2>1, <4>1 DEF Plain
      <3>. QED
        BY <1>0, <1>1, <2>1, <3>1, <3>2, TailIsFine DEF Plain
    <2>4. ASSUME NEW t \in Session \ {s} PROVE SessionInv(t)'
      BY <1>0, <1>1, <1>2, <1>3, <2>1, Untouched
    <2>5. /\ inst'[s] = t0 /\ status'[s] = IF fails THEN "done" ELSE "flush"
          /\ fails => outcome'[s] \in Outcomes /\ outcome'[s].tag # "Ok"
      BY <1>0, <2>1 DEF Plain, Outcomes
    <2>6. SessionOK(s)'
      BY <1>0, <1>1, <1>3, <2>1, <2>2, <2>5, StepsKeepOK DEF SessionOK
    <2>7. Phase(s)'
      <3>1. Settled(u)
        BY <1>0, <2>1 DEF Phase
      <3>2. ~fails => Settled(t0)
        BY <1>0, <2>2, <3>1, TurnSettles
      <3>. QED
        BY <2>5, <3>2 DEF Phase
    <2>8. Ended(s)'
      BY <2>5 DEF Ended, Succeeded
    <2>. QED
      BY <2>3, <2>4, <2>6, <2>7, <2>8 DEF IInv, SessionInv
  <1>10. CASE ReceiveLagged(s) \/ Timeout(s)
    <2>1. /\ UNCHANGED <<inst, incoming, lagged, sent>> /\ status[s] = "receive"
          /\ status' = [status EXCEPT ![s] = "done"]
      BY <1>10 DEF ReceiveLagged, Timeout
    <2>2. \E r \in Outcomes : r.tag # "Ok" /\ outcome' = [outcome EXCEPT ![s] = r]
      <3>1. CASE ReceiveLagged(s)
        BY <3>1 DEF ReceiveLagged, Outcomes
      <3>2. CASE Timeout(s)
        <4>1. u.round = "Round2"
          BY <3>2 DEF Timeout, HasTimeout
        <4>2. ExactStore(u.msgs2, PartyI(s), PartyN(s), Bodies)
          BY <1>0, <4>1 DEF SessionOK, InstOK, StoreOK
        <4>3. TimeoutBlame(u) \subseteq (1..PartyN(s)) \ {PartyI(s)}
          BY <1>0, <4>2, BlameCounts DEF TimeoutBlame
        <4>4. TimeoutBlame(u) \in SUBSET Party
          BY <1>0, <4>3 DEF Party
        <4>5. [tag |-> "HandleIncomingTimeout", blamed |-> TimeoutBlame(u)] \in Outcomes
          BY <4>4 DEF Outcomes
        <4>. QED
          BY <3>2, <4>5 DEF Timeout
      <3>. QED
        BY <1>10, <3>1, <3>2
    <2>3. Plain' /\ Network'
      BY <1>0, <1>1, <2>1, <2>2 DEF Plain, Network
    <2>4. ASSUME NEW t \in Session \ {s} PROVE SessionInv(t)'
      BY <1>0, <1>1, <1>2, <1>3, <2>1, Untouched
    <2>5. /\ inst'[s] = inst[s] /\ status'[s] = "done"
          /\ outcome'[s] \in Outcomes /\ outcome'[s].tag # "Ok"
      BY <1>0, <2>1, <2>2 DEF Plain
    <2>6. SessionOK(s)'
      BY <1>0, <1>1, <1>3, <2>1 DEF SessionOK
    <2>. QED
      BY <2>3, <2>4, <2>5, <2>6 DEF IInv, SessionInv, Phase, Ended, Succeeded
  <1>. QED
    BY <1>4, <1>5, <1>6, <1>7, <1>8, <1>9, <1>10 DEF Step

\* What is on the channels after a delivery to node q.
LEMMA DeliverIsFine ==
    ASSUME Plain, Network, NEW q \in Party, NEW e \in sent, Deliver(q, e),
           NEW s \in Session
    PROVE  /\ incoming'[s] \in Seq(Messages) /\ Len(incoming'[s]) <= Capacity
           /\ \A k \in DOMAIN incoming'[s] : incoming'[s][k] \in Come(s)'
           /\ Come(s) \subseteq Come(s)'
  <1>1. /\ e.msg \in Messages /\ received' = [received EXCEPT ![q] = received[q] \cup {e}]
        /\ received \in [Party -> SUBSET sent] /\ s[1] \in Party
    BY Numbers DEF Network, Deliver
  <1>2. /\ received[s[1]] \subseteq received'[s[1]]
        /\ s[1] = q => e \in received'[s[1]]
    BY <1>1
  <1>3. /\ Come(s) \subseteq Come(s)'
        /\ s[1] = q => e.msg \in Come(s)'
    BY <1>2 DEF Come
  <1>4. /\ incoming[s] \in Seq(Messages) /\ Len(incoming[s]) <= Capacity
        /\ \A k \in DOMAIN incoming[s] : incoming[s][k] \in Come(s)'
    BY <1>3 DEF Plain, Network
  <1>5. CASE s \notin Subscribed(q)
    BY <1>3, <1>4, <1>5 DEF Deliver
  <1>6. CASE s \in Subscribed(q) /\ Len(incoming[s]) < Capacity
    <2>1. incoming'[s] = Append(incoming[s], e.msg) /\ e.msg \in Come(s)'
      BY <1>3, <1>6 DEF Deliver, Subscribed
    <2>. QED
      BY <1>1, <1>3, <1>4, <1>6, <2>1, CapacityAssumption
  <1>7. CASE s \in Subscribed(q) /\ ~(Len(incoming[s]) < Capacity)
    <2>1. incoming'[s] = Append(Tail(incoming[s]), e.msg) /\ e.msg \in Come(s)'
      BY <1>3, <1>7 DEF Deliver, Subscribed
    <2>2. incoming[s] # << >> /\ Len(incoming[s]) = Capacity
      BY <1>4, <1>7, CapacityAssumption
    <2>3. /\ Tail(incoming[s]) \in Seq(Messages) /\ Len(Tail(incoming[s])) = Capacity - 1
          /\ \A k \in DOMAIN Tail(incoming[s]) : Tail(incoming[s])[k] \in Come(s)'
      BY <1>4, <2>2
    <2>. QED
      BY <1>1, <1>3, <2>1, <2>3, CapacityAssumption
  <1>. QED
    BY <1>5, <1>6, <1>7

LEMMA NextIInv == IInv /\ [Next]_vars => IInv'
  <1> SUFFICES ASSUME IInv, [Next]_vars PROVE IInv'
    OBVIOUS
  <1>0. Plain /\ Network /\ \A s \in Session : SessionInv(s)
    BY DEF IInv
  <1>1. ASSUME NEW s \in Session, StartMusig2(s) \/ Step(s) PROVE IInv'
    BY <1>1, StepIInv
  <1>2. ASSUME NEW q \in Party, Crash(q) PROVE IInv'
    <2>1. /\ UNCHANGED <<inst, incoming, lagged, outcome, sent, received>>
          /\ down' = down \cup {q} /\ q \notin down /\ Cardinality(down) < MaxCrash
          /\ status' = [s \in Session |-> IF s \in Subscribed(q) THEN "crashed" ELSE status[s]]
      BY <1>2 DEF Crash
    <2>2. Cardinality(down') <= MaxCrash
      <3>1. IsFiniteSet(down)
        <4>1. N \in Nat /\ 1 \in Int /\ N \in Int
          BY NAssumption
        <4>2. IsFiniteSet(Party)
          BY <4>1, FS_Interval DEF Party
        <4>. QED
          BY <1>0, <4>2, FS_Subset DEF Plain
      <3>2. Cardinality(down') = Cardinality(down) + 1 /\ Cardinality(down) \in Nat
        BY <2>1, <3>1, FS_AddElement, FS_CardinalityType
      <3>. QED
        BY <2>1, <3>2, MaxCrashAssumption
    <2>3. Plain' /\ Network'
      BY <1>0, <2>1, <2>2 DEF Plain, Network, Come
    <2>4. ASSUME NEW s \in Session PROVE SessionInv(s)'
      <3>1. Own(s)' = Own(s) /\ Come(s)' = Come(s)
        BY <2>1 DEF Own, Come
      <3>2. status'[s] = status[s] \/ status'[s] = "crashed"
        BY <2>1
      <3>. QED
        BY <1>0, <2>1, <3>1, <3>2, Untouched
    <2>. QED
      BY <2>3, <2>4 DEF IInv
  <1>3. ASSUME NEW q \in Party, NEW e \in sent, Deliver(q, e) PROVE IInv'
    <2>1. /\ UNCHANGED <<status, inst, outcome, sent, down>>
          /\ e.from[1] # q
          /\ received' = [received EXCEPT ![q] = received[q] \cup {e}]
      BY <1>0, <1>3 DEF Deliver, Network
    <2>2. Plain'
      <3>1. incoming' \in [Session -> Seq(Messages)]
        <4>1. DOMAIN incoming' = Session /\ incoming' = [s \in Session |-> incoming'[s]]
          BY <1>3 DEF Deliver
        <4>. QED
          BY <1>0, <1>3, <4>1, DeliverIsFine
      <3>2. lagged' \in [Session -> BOOLEAN]
        BY <1>3 DEF Deliver
      <3>. QED
        BY <1>0, <2>1, <3>1, <3>2 DEF Plain
    <2>3. Network'
      <3>1. /\ received' \in [Party -> SUBSET sent]
            /\ \A p \in Party : \A x \in received'[p] : x.from[1] # p
        BY <1>0, <2>1 DEF Network
      <3>. QED
        BY <1>0, <1>3, <2>1, <3>1, DeliverIsFine DEF Network
    <2>4. ASSUME NEW s \in Session PROVE SessionInv(s)'
      <3>1. Own(s)' = Own(s)
        BY <2>1 DEF Own
      <3>. QED
        BY <1>0, <1>3, <2>1, <3>1, DeliverIsFine, Untouched
    <2>. QED
      BY <2>2, <2>3, <2>4 DEF IInv
  <1>4. CASE UNCHANGED vars
    <2>1. Plain' /\ Network'
      BY <1>0, <1>4 DEF vars, Plain, Network, Come
    <2>2. ASSUME NEW s \in Session PROVE SessionInv(s)'
      <3>1. Own(s)' = Own(s) /\ Come(s)' = Come(s)
        BY <1>4 DEF vars, Own, Come
      <3>. QED
        BY <1>0, <1>4, <3>1, Untouched DEF vars
    <2>. QED
      BY <2>1, <2>2 DEF IInv
  <1>. QED
    BY <1>1, <1>2, <1>3, <1>4 DEF Next

LEMMA Inductive == Spec => []IInv
  BY InitIInv, NextIInv, PTL DEF Spec
-----------------------------------------------------------------------------
(* For all member lists, jobs, capacities and crashes.                     *)

\* Sessions, channels, messages and outcomes keep their types.
THEOREM TypeCorrect == Spec => []TypeOK
  <1>1. IInv => TypeOK
    <2> SUFFICES ASSUME IInv PROVE TypeOK
      OBVIOUS
    <2>0. Plain /\ Network
      BY DEF IInv
    <2>1. ASSUME NEW s \in Session
          PROVE  /\ inst[s].round \in {"Prepare", "Round1", "Round2", "Finished", "Gone"}
                 /\ {inst[s].msgs1, inst[s].msgs2} \ {None} \subseteq StoreOf(s)
                 /\ inst[s].ctx \in Contexts \cup {None}
                 /\ \A k \in DOMAIN inst[s].msgs_queue :
                      inst[s].msgs_queue[k] \in Messages
                 /\ \A k \in DOMAIN incoming[s] : incoming[s][k] \in Messages
                 /\ Len(incoming[s]) <= Capacity
      <3>1. SessionOK(s)
        BY DEF IInv, SessionInv
      <3>2. inst[s].round \in {"Prepare", "Round1", "Round2", "Finished", "Gone"}
        BY <3>1 DEF SessionOK, InstOK, Shaped, Rounds
      <3>3. {inst[s].msgs1, inst[s].msgs2} \ {None} \subseteq StoreOf(s)
        <4>1. /\ PartyN(s) \in Nat \ {0}
              /\ NoneIsNone(PartyI(s), PartyN(s), Bodies)
              /\ StoreOf(s) = StoresOf(PartyI(s), PartyN(s), Bodies)
          BY Numbers, NoneHere
        <4>2. ASSUME NEW store, ExactStore(store, PartyI(s), PartyN(s), Bodies)
              PROVE  store \in StoreOf(s)
          BY <4>1, <4>2, StoreNotNone
        <4>. QED
          BY <3>1, <4>2 DEF SessionOK, InstOK, StoreOK
      <3>4. inst[s].ctx \in Contexts \cup {None}
        <4>1. inst[s].ctx = None \/ KeysOf(s, inst[s].ctx)
          BY <3>1 DEF SessionOK, InstOK, Progress, Done, KeysOf
        <4>. QED
          BY <2>0, <4>1, KeysAreNodes
      <3>5. \A k \in DOMAIN inst[s].msgs_queue : inst[s].msgs_queue[k] \in Messages
        BY <2>0, <3>1, OwnMessages
      <3>6. /\ \A k \in DOMAIN incoming[s] : incoming[s][k] \in Messages
            /\ Len(incoming[s]) <= Capacity
        BY <2>0 DEF Plain, Network
      <3>. QED
        BY <3>2, <3>3, <3>4, <3>5, <3>6
    <2>. QED
      BY <2>0, <2>1 DEF TypeOK, Plain, Network
  <1>. QED
    BY <1>1, Inductive, PTL

\* A node never gets its own messages, so in a context of one of its sessions
\* its key is at its own index only.
LEMMA OwnKeyOnce ==
    ASSUME IInv, NEW s \in Session, NEW c, KeysOf(s, c),
           NEW k \in DOMAIN c.pks, c.pks[k] = s[1]
    PROVE  k = PartyI(s)
  <1> SUFFICES ASSUME k # PartyI(s) PROVE FALSE
    OBVIOUS
  <1>1. k \in (1..PartyN(s)) \ {PartyI(s)}
    BY KeysAreNodes DEF IInv
  <1>2. PICK x \in Come(s) : x.body.key = s[1]
    BY <1>1 DEF KeysOf, KeysFrom
  <1>3. PICK t \in Session : t[1] # s[1] /\ x \in Own(t)
    BY <1>2, ComesIn DEF IInv
  <1>. QED
    BY <1>2, <1>3, OwnMessages DEF IInv, SessionInv

\* Behind every share of a signature is a node that published it.
LEMMA ShareBehind ==
    ASSUME IInv, NEW s \in Session, Succeeded(s), NEW k \in 1..PartyN(s)
    PROVE  LET c == outcome[s].result.ctx
           IN  \E t \in Session :
                 /\ t[1] = c.pks[k] /\ KeysOf(t, c)
                 /\ OwnShare(PartyI(t), t[1], c) \in Own(t)
  <1> DEFINE c == outcome[s].result.ctx
  <1>1. status[s] = "done" /\ SignedOK(s)
    BY DEF IInv, SessionInv, Ended, Succeeded
  <1>2. CASE c.pks[k] = s[1]
    BY <1>1, <1>2 DEF SignedOK
  <1>3. CASE c.pks[k] # s[1]
    <2>1. PICK x \in Come(s) : x.body = Share(c.pks[k], c)
      BY <1>1, <1>3 DEF SignedOK, SharesFrom
    <2>2. PICK t \in Session : x \in Own(t)
      BY <2>1, ComesIn DEF IInv
    <2>3. x.body.kind = "Round2" /\ x.body.ctx = c /\ x.body.key = c.pks[k]
      BY <2>1 DEF Share
    <2>. QED
      BY <2>2, <2>3, OwnMessages DEF IInv, SessionInv
  <1>. QED
    BY <1>2, <1>3

\* A signature carries the own message and as many distinct keys as signers,
\* each of a node that published its share for exactly that.
THEOREM OnlyUnanimous == Spec => []Unanimity
  <1>1. IInv => Unanimity
    <2> SUFFICES ASSUME IInv, NEW s \in Session, Succeeded(s)
                 PROVE  LET c == outcome[s].result.ctx IN
                        /\ c.message = MessageOf[s[2]]
                        /\ DOMAIN c.pks = 1..PartyN(s)
                        /\ c.pks[PartyI(s)] = s[1]
                        /\ IsInjective(c.pks)
                        /\ \A k \in DOMAIN c.pks : \E e \in sent :
                             e.from[1] = c.pks[k] /\ e.msg.body = Share(c.pks[k], c)
      BY DEF Unanimity
    <2> DEFINE c == outcome[s].result.ctx
    <2>1. KeysOf(s, c) /\ Network
      BY DEF IInv, SessionInv, Ended, SignedOK
    <2>2. /\ c.message = MessageOf[s[2]]
          /\ DOMAIN c.pks = 1..PartyN(s)
          /\ c.pks[PartyI(s)] = s[1]
      BY <2>1, KeysAreNodes DEF MsgOf
    <2>3. ASSUME NEW k \in DOMAIN c.pks
          PROVE  \E e \in sent : e.from[1] = c.pks[k] /\ e.msg.body = Share(c.pks[k], c)
      <3>1. PICK t \in Session : /\ t[1] = c.pks[k]
                                 /\ OwnShare(PartyI(t), t[1], c) \in Own(t)
        BY <2>2, ShareBehind
      <3>2. PICK e \in sent : e.from = t /\ e.msg = OwnShare(PartyI(t), t[1], c)
        BY <3>1 DEF Own
      <3>. QED
        BY <3>1, <3>2 DEF OwnShare, Broadcast
    <2>4. ASSUME NEW k \in DOMAIN c.pks, NEW l \in DOMAIN c.pks, c.pks[k] = c.pks[l]
          PROVE  k = l
      <3>1. PICK t \in Session : t[1] = c.pks[k] /\ KeysOf(t, c)
        BY <2>2, ShareBehind
      <3>. QED
        BY <2>4, <3>1, OwnKeyOnce
    <2>. QED
      BY <2>2, <2>3, <2>4 DEF IsInjective
  <1>. QED
    BY <1>1, Inductive, PTL
-----------------------------------------------------------------------------
(* With one member list for all.                                           *)

\* The messages of a session then carry the node as sender and as key, so the
\* keys are everybody's.
LEMMA OneContext ==
    ASSUME OneList, IInv, NEW s \in Session, NEW c, KeysOf(s, c)
    PROVE  /\ c = CtxOf(s[2])
           /\ \A p \in Party \ {s[1]} : \E x \in Come(s) :
                x.sender = p /\ x.body.kind = "Round1"
  <1>1. /\ PartyN(s) = N /\ PartyI(s) = s[1]
        /\ c = [pks |-> c.pks, message |-> MsgOf(s)]
        /\ c.pks = [k \in 1..N |-> c.pks[k]]
        /\ c.pks[s[1]] = s[1]
    BY IndexIsNode DEF KeysOf, KeysFrom
  <1>2. ASSUME NEW k \in Party \ {s[1]}
        PROVE  c.pks[k] = k /\ \E x \in Come(s) : x.sender = k /\ x.body.kind = "Round1"
    <2>1. PICK x \in Come(s) :
            x.sender = k /\ x.body.kind = "Round1" /\ x.body.key = c.pks[k]
      BY <1>1 DEF KeysOf, KeysFrom, Party
    <2>2. PICK t \in Session : x \in Own(t)
      BY <2>1, ComesIn DEF IInv
    <2>3. x.body.key = t[1] /\ x.sender = t[1]
      BY <2>2, OwnMessages, IndexIsNode DEF IInv, SessionInv
    <2>. QED
      BY <2>1, <2>3
  <1>3. c.pks = [k \in Party |-> k]
    BY <1>1, <1>2 DEF Party
  <1>. QED
    BY <1>1, <1>2, <1>3 DEF CtxOf, MsgOf

\* Whoever starts Round2 signs under everybody's keys in the same order.
THEOREM OneKeyList == ASSUME OneList PROVE Spec => []SameKeyList
  <1>1. IInv => SameKeyList
    <2> SUFFICES ASSUME IInv, NEW s \in Session, inst[s].ctx # None
                 PROVE  inst[s].ctx = CtxOf(s[2])
      BY DEF SameKeyList
    <2>1. KeysOf(s, inst[s].ctx)
      BY DEF IInv, SessionInv, SessionOK, InstOK, Progress, Done, KeysOf
    <2>. QED
      BY <2>1, OneContext
  <1>. QED
    BY <1>1, Inductive, PTL

\* Once a party has a signature, no other session of that command is still in
\* the untimed rounds: each has sent a share, so it had started Round2.
THEOREM NobodyWaits ==
    ASSUME OneList, OneEach PROVE Spec => []NobodyLeftWaiting
  <1>1. IInv => NobodyLeftWaiting
    <2> SUFFICES ASSUME IInv, NEW s \in Session, NEW t \in Session,
                        Succeeded(s), s[2] = t[2]
                 PROVE  inst[t].round \notin {"Prepare", "Round1"}
      BY DEF NobodyLeftWaiting
    <2> DEFINE c == outcome[s].result.ctx
    <2>1. c = CtxOf(s[2])
      <3>1. KeysOf(s, c)
        BY DEF IInv, SessionInv, Ended, SignedOK
      <3>. QED
        BY <3>1, OneContext
    <2>2. PICK r \in Session :
            /\ r[1] = c.pks[t[1]] /\ KeysOf(r, c)
            /\ OwnShare(PartyI(r), r[1], c) \in Own(r)
      <3>1. t[1] \in 1..PartyN(s)
        BY Numbers, IndexIsNode DEF Party
      <3>. QED
        BY <3>1, ShareBehind
    <2>3. r[1] = t[1]
      BY <2>1, <2>2, Numbers DEF CtxOf
    <2>4. MsgOf(r) = MsgOf(t)
      <3>1. c.message = MsgOf(r)
        BY <2>2, KeysAreNodes DEF IInv
      <3>. QED
        BY <2>1, <3>1 DEF CtxOf, MsgOf
    <2>5. r = t
      BY <2>3, <2>4, Numbers DEF OneEach, MsgOf
    <2>. QED
      BY <2>2, <2>5, OwnMessages DEF IInv, SessionInv, OwnShare, Broadcast, Share
  <1>. QED
    BY <1>1, Inductive, PTL
-----------------------------------------------------------------------------
(* Signing implements MultiSig: with one member list of at least two.      *)

\* The variables of MultiSig.
Committed == {e.from[1] : e \in {x \in sent : x.msg.body.kind = "Round1"}}
SharedOf(m) == {e.from[1] : e \in {x \in sent : x.msg.body.kind = "Round2"
                                                  /\ x.msg.body.ctx.message = m}}
SignedMsgs == {MessageOf[s[2]] : s \in {t \in Session : Succeeded(t)}}

\* A session puts out one message at a time: Begin stops after the nonces.
Single == \A s \in Session :
    status[s] = "flush" => Own(s) # {} \/ inst[s].round = "Round1"

\* With another party the nonces of a new instance are all it has to say.
LEMMA BeginStopsInRound1 ==
    ASSUME NEW s \in Session, PartyN(s) >= 2
    PROVE  Proceed(NewSession(s)).round = "Round1"
  <1> DEFINE u == NewSession(s)
             v == FromPrepare(u)
             store == NewStore(PartyI(s), PartyN(s))
  <1>1. /\ v.round = "Round1" /\ v.msgs1 = store /\ u.round = "Prepare"
    BY DEF NewSession, NewInstance, FromPrepare
  <1>2. PartyN(s) \in Nat /\ store.msgs_left = PartyN(s) - 1
    BY Numbers DEF NewStore
  <1>3. store # None
    <2>1. /\ PartyN(s) \in Nat \ {0} /\ PartyI(s) \in 1..PartyN(s)
          /\ NoneIsNone(PartyI(s), PartyN(s), Bodies)
      BY Numbers, NoneHere
    <2>2. ExactStore(store, PartyI(s), PartyN(s), Bodies)
      BY <2>1, NewStoreExact
    <2>. QED
      BY <2>1, <2>2, StoreNotNone
  <1>4. ~Ready("Round1", store, TRUE)
    BY <1>2, <1>3 DEF Ready, StoreWantsMore, WantsMore
  <1>. QED
    BY <1>1, <1>4 DEF Proceed, ProceedRound, InPrepare, InRound1, IsExpensive

LEMMA SingleInductive ==
    ASSUME OneList, N >= 2
    PROVE  /\ Init => Single
           /\ IInv /\ Single /\ [Next]_vars => Single'
  <1>1. Init => Single
    BY DEF Init, Single
  <1>2. ASSUME IInv, Single, [Next]_vars PROVE Single'
    <2> SUFFICES ASSUME NEW s \in Session, status'[s] = "flush"
                 PROVE  Own(s)' # {} \/ inst'[s].round = "Round1"
      BY DEF Single
    <2>0. Plain /\ SessionOK(s) /\ Phase(s)
      BY <1>2 DEF IInv, SessionInv
    <2>1. Own(s) \subseteq Own(s)'
      <3>1. sent \subseteq sent'
        BY <1>2 DEF Next, StartMusig2, Step, Begin, Flush, FinishIfPossible, Skip,
             Receive, ReceiveLagged, Timeout, Crash, Deliver, vars
      <3>. QED
        BY <3>1 DEF Own
    <2>2. \/ status[s] = "flush" /\ inst'[s] = inst[s]
          \/ Begin(s) \/ Receive(s)
      <3>0. /\ status \in [Session -> Live \cup {"absent", "done", "crashed"}]
            /\ inst = [t \in Session |-> inst[t]]
        BY <2>0 DEF Plain
      <3>1. ASSUME NEW t \in Session, StartMusig2(t) \/ Step(t), t # s
            PROVE  status[s] = "flush" /\ inst'[s] = inst[s]
        <4>1. status'[s] = status[s] /\ inst'[s] = inst[s]
          BY <3>0, <3>1 DEF StartMusig2, Step, Begin, Flush, FinishIfPossible, Skip,
               Receive, ReceiveLagged, Timeout
        <4>. QED
          BY <4>1
      <3>2. CASE StartMusig2(s) \/ Flush(s) \/ FinishIfPossible(s)
        BY <3>0, <3>2 DEF StartMusig2, Flush, FinishIfPossible
      <3>3. CASE Skip(s) \/ ReceiveLagged(s) \/ Timeout(s)
        BY <3>0, <3>3 DEF Skip, ReceiveLagged, Timeout
      <3>4. ASSUME NEW q \in Party, Crash(q) PROVE status[s] = "flush" /\ inst'[s] = inst[s]
        BY <3>0, <3>4 DEF Crash
      <3>5. ASSUME NEW q \in Party, NEW e \in sent, Deliver(q, e)
            PROVE  status[s] = "flush" /\ inst'[s] = inst[s]
        BY <3>5 DEF Deliver
      <3>6. CASE UNCHANGED vars
        BY <3>6 DEF vars
      <3>. QED
        BY <1>2, <3>1, <3>2, <3>3, <3>4, <3>5, <3>6 DEF Next, Step
    <2>3. CASE status[s] = "flush" /\ inst'[s] = inst[s]
      BY <1>2, <2>1, <2>3 DEF Single
    <2>4. CASE Begin(s)
      <3>1. PartyN(s) >= 2
        BY IndexIsNode
      <3>2. inst'[s] = Proceed(NewSession(s))
        BY <2>0, <2>4 DEF Begin, Plain, Phase
      <3>. QED
        BY <3>1, <3>2, BeginStopsInRound1
    <2>5. CASE Receive(s)
      <3>1. /\ inst[s].msgs_queue = << >> /\ inst[s].round \in {"Round1", "Round2", "Finished"}
            /\ Progress(inst[s], PartyI(s), PartyN(s), s[1], MsgOf(s), Come(s), Own(s))
        BY <2>0, <2>5 DEF Receive, Phase, Settled, SessionOK, InstOK
      <3>2. \A x : OneOut({}, << >>, x) => FALSE
        BY ShortQueues DEF OneOut
      <3>3. \A x, y : BothOut({}, << >>, x, y) => FALSE
        BY ShortQueues DEF BothOut
      <3>4. Own(s) # {}
        BY <3>1, <3>2, <3>3 DEF Progress, Done
      <3>. QED
        BY <2>1, <3>4
    <2>. QED
      BY <2>2, <2>3, <2>4, <2>5
  <1>. QED
    BY <1>1, <1>2

\* What a session hands to the network at a Flush.
LEMMA FlushesOne ==
    ASSUME OneList, IInv, Single, NEW s \in Session, Flush(s)
    PROVE  \/ Published(s) = {}
           \/ Published(s) = {[from |-> s, msg |-> Nonces(s[1], s[1], MsgOf(s))]}
           \/ /\ Published(s) = {[from |-> s, msg |-> OwnShare(s[1], s[1], CtxOf(s[2]))]}
              /\ Nonces(s[1], s[1], MsgOf(s)) \in Own(s)
              /\ KeysOf(s, CtxOf(s[2]))
  <1> DEFINE u == inst[s]
             x1 == Nonces(s[1], s[1], MsgOf(s))
             x2 == OwnShare(s[1], s[1], CtxOf(s[2]))
             pub(q) == {[from |-> s, msg |-> q[k]] : k \in DOMAIN q}
  <1>1. /\ Settled(u) /\ SessionOK(s) /\ PartyI(s) = s[1] /\ PartyN(s) = N
        /\ Own(s) # {} \/ u.round = "Round1"
    BY IndexIsNode DEF IInv, SessionInv, Phase, Flush, Single
  <1>2. /\ pub(<< >>) = {}
        /\ \A x : pub(<< x >>) = {[from |-> s, msg |-> x]}
    OBVIOUS
  <1>3. Published(s) = pub(u.msgs_queue)
    BY DEF Published
  <1>4. Progress(u, s[1], N, s[1], MsgOf(s), Come(s), Own(s))
    BY <1>1 DEF SessionOK, InstOK
  <1> HIDE DEF pub
  <1>5. CASE u.round = "Round1"
    <2>1. u.msgs_queue \in {<< >>, << x1 >>}
      BY <1>4, <1>5 DEF Progress, OneOut
    <2>. QED
      BY <1>2, <1>3, <2>1
  <1>6. CASE u.round # "Round1"
    <2>1. PICK c : Done(u, c, s[1], N, s[1], MsgOf(s), Come(s), Own(s))
      BY <1>1, <1>4, <1>6 DEF Progress, Settled
    <2>2. c = CtxOf(s[2]) /\ KeysOf(s, c)
      <3>1. KeysOf(s, c)
        BY <1>1, <2>1 DEF Done, KeysOf
      <3>. QED
        BY <3>1, OneContext
    <2>3. BothOut(Own(s), u.msgs_queue, x1, x2)
      BY <2>1, <2>2 DEF Done
    <2>4. u.msgs_queue = << >> \/ (u.msgs_queue = << x2 >> /\ x1 \in Own(s))
      BY <1>1, <1>6, <2>3 DEF BothOut
    <2>. QED
      BY <1>2, <1>3, <2>2, <2>4
  <1>. QED
    BY <1>5, <1>6

\* A share is behind the nonces of everybody.
LEMMA NoncesBeforeShare ==
    ASSUME OneList, IInv, NEW s \in Session, KeysOf(s, CtxOf(s[2])),
           Nonces(s[1], s[1], MsgOf(s)) \in Own(s)
    PROVE  Committed = Party
  <1>1. ASSUME NEW t \in Session, NEW x \in Own(t), x.body.kind = "Round1"
        PROVE  t[1] \in Committed
    <2>1. PICK e \in sent : e.from = t /\ e.msg = x
      BY DEF Own
    <2>. QED
      BY <1>1, <2>1 DEF Committed
  <1>2. s[1] \in Committed
    BY <1>1 DEF Nonces, Broadcast, Round1Body
  <1>3. ASSUME NEW p \in Party \ {s[1]} PROVE p \in Committed
    <2>1. PICK x \in Come(s) : x.sender = p /\ x.body.kind = "Round1"
      BY OneContext
    <2>2. PICK t \in Session : x \in Own(t)
      BY <2>1, ComesIn DEF IInv
    <2>3. t[1] = p
      BY <2>1, <2>2, OwnMessages, IndexIsNode DEF IInv, SessionInv
    <2>. QED
      BY <1>1, <2>1, <2>2, <2>3
  <1>4. Committed \subseteq Party
    BY Numbers DEF Committed, IInv, Network
  <1>. QED
    BY <1>2, <1>3, <1>4

\* A signature is behind the shares of everybody.
LEMMA SharesBeforeSignature ==
    ASSUME OneList
    PROVE  IInv => \A s \in Session : Succeeded(s) => SharedOf(MsgOf(s)) = Party
  <1> SUFFICES ASSUME IInv, NEW s \in Session, Succeeded(s)
               PROVE  SharedOf(MsgOf(s)) = Party
    OBVIOUS
  <1> DEFINE c == outcome[s].result.ctx
  <1>1. c = CtxOf(s[2])
    <2>1. KeysOf(s, c)
      BY DEF IInv, SessionInv, Ended, SignedOK
    <2>. QED
      BY <2>1, OneContext
  <1>2. ASSUME NEW p \in Party PROVE p \in SharedOf(MsgOf(s))
    <2>1. PICK t \in Session : t[1] = p /\ OwnShare(PartyI(t), t[1], c) \in Own(t)
      <3>1. p \in 1..PartyN(s) /\ c.pks[p] = p
        BY <1>1, IndexIsNode DEF Party, CtxOf
      <3>. QED
        BY <3>1, ShareBehind
    <2>2. PICK e \in sent : e.from = t /\ e.msg = OwnShare(PartyI(t), t[1], c)
      BY <2>1 DEF Own
    <2>3. e.msg.body.kind = "Round2" /\ e.msg.body.ctx.message = MsgOf(s)
      BY <1>1, <2>2 DEF OwnShare, Broadcast, Share, CtxOf, MsgOf
    <2>. QED
      BY <2>1, <2>2, <2>3 DEF SharedOf
  <1>3. SharedOf(MsgOf(s)) \subseteq Party
    BY Numbers DEF SharedOf, IInv, Network
  <1>. QED
    BY <1>2, <1>3

\* Only finish_if_possible makes a signature.
LEMMA WhoSucceeds ==
    ASSUME IInv, [Next]_vars, NEW s \in Session
    PROVE  \/ FinishIfPossible(s)
           \/ Succeeded(s)' <=> Succeeded(s)
  <1>0. /\ status \in [Session -> Live \cup {"absent", "done", "crashed"}]
        /\ outcome \in [Session -> Outcomes \cup {None}]
    BY DEF IInv, Plain
  <1>1. ASSUME NEW t \in Session, StartMusig2(t) \/ Step(t), t # s
        PROVE  Succeeded(s)' <=> Succeeded(s)
    <2>1. status'[s] = status[s] /\ outcome'[s] = outcome[s]
      BY <1>0, <1>1 DEF StartMusig2, Step, Begin, Flush, FinishIfPossible, Skip,
           Receive, ReceiveLagged, Timeout
    <2>. QED
      BY <2>1 DEF Succeeded
  <1>2. CASE StartMusig2(s) \/ Begin(s) \/ Flush(s) \/ Skip(s)
    BY <1>0, <1>2 DEF StartMusig2, Begin, Flush, Skip, Succeeded
  <1>3. CASE Receive(s) \/ ReceiveLagged(s) \/ Timeout(s)
    <2>1. status[s] = "receive"
      BY <1>3 DEF Receive, ReceiveLagged, Timeout
    <2>2. status'[s] = "flush" \/ outcome'[s].tag # "Ok"
      <3>1. CASE Receive(s)
        <4> DEFINE r == HandleResult(inst[s], Head(incoming[s]))
                   i == Turn(inst[s], Head(incoming[s]))
        <4>1. CASE IsCritical(r) \/ Panicked(i)
          BY <1>0, <3>1, <4>1 DEF Receive
        <4>2. CASE ~(IsCritical(r) \/ Panicked(i))
          BY <1>0, <3>1, <4>2 DEF Receive
        <4>. QED
          BY <4>1, <4>2
      <3>2. CASE ReceiveLagged(s) \/ Timeout(s)
        BY <1>0, <3>2 DEF ReceiveLagged, Timeout
      <3>. QED
        BY <1>3, <3>1, <3>2
    <2>. QED
      BY <2>1, <2>2 DEF Succeeded
  <1>4. ASSUME NEW q \in Party, Crash(q) PROVE Succeeded(s)' <=> Succeeded(s)
    <2>1. outcome'[s] = outcome[s]
          /\ status'[s] = IF s \in Subscribed(q) THEN "crashed" ELSE status[s]
      BY <1>4 DEF Crash
    <2>. QED
      BY <2>1 DEF Succeeded, Subscribed, Live
  <1>5. ASSUME NEW q \in Party, NEW e \in sent, Deliver(q, e)
        PROVE  Succeeded(s)' <=> Succeeded(s)
    BY <1>5 DEF Deliver, Succeeded
  <1>6. CASE UNCHANGED vars
    BY <1>6 DEF vars, Succeeded
  <1>. QED
    BY <1>1, <1>2, <1>3, <1>4, <1>5, <1>6 DEF Next, Step

\* Only a Flush sends.
LEMMA WhoSends ==
    ASSUME [Next]_vars
    PROVE  sent' = sent \/ \E s \in Session : Flush(s)
  BY DEF Next, StartMusig2, Step, Begin, FinishIfPossible, Skip, Receive,
       ReceiveLagged, Timeout, Crash, Deliver, vars

Behind == \A s \in Session : Succeeded(s) => SharedOf(MsgOf(s)) = Party

\* A step of a session is one of MultiSig or a stutter.
LEMMA StepMaps ==
    ASSUME OneList, N >= 2, IInv, Single, Behind', [Next]_vars
    PROVE  [MS!Next]_(MS!msvars)
  <1> DEFINE Msg == {MessageOf[j] : j \in Job}
             Shared == [m \in Msg |-> SharedOf(m)]
  <1>0. /\ MS!msvars = <<Committed, Shared, SignedMsgs>>
        /\ MS!msvars' = <<Committed', Shared', SignedMsgs'>>
    BY DEF MS!msvars, Committed, SharedOf, SignedMsgs
  <1>1. ASSUME NEW p \in Party, p \notin Committed, Committed' = Committed \cup {p},
               Shared' = Shared, SignedMsgs' = SignedMsgs
        PROVE  MS!Next
    <2>1. MS!Commit(p)
      BY <1>1 DEF MS!Commit, Committed, SharedOf, SignedMsgs
    <2>. QED
      BY <2>1 DEF MS!Next
  <1>2. ASSUME NEW p \in Party, NEW m \in Msg, Committed = Party, p \notin Shared[m],
               Shared' = [Shared EXCEPT ![m] = Shared[m] \cup {p}],
               Committed' = Committed, SignedMsgs' = SignedMsgs
        PROVE  MS!Next
    <2>1. MS!Give(p, m)
      BY <1>2 DEF MS!Give, Committed, SharedOf, SignedMsgs
    <2>. QED
      BY <2>1 DEF MS!Next
  <1>3. ASSUME NEW m \in Msg, Shared[m] = Party, m \notin SignedMsgs,
               SignedMsgs' = SignedMsgs \cup {m}, Committed' = Committed, Shared' = Shared
        PROVE  MS!Next
    <2>1. MS!Sign(m)
      BY <1>3 DEF MS!Sign, Committed, SharedOf, SignedMsgs
    <2>2. 1 \in Party
      BY NAssumption DEF Party
    <2>. QED
      BY <2>1, <2>2 DEF MS!Next
  <1>4. ASSUME sent' = sent PROVE Committed' = Committed /\ Shared' = Shared
    BY <1>4 DEF Committed, SharedOf
  <1> HIDE DEF Shared
  <1>5. ASSUME NEW s \in Session, Flush(s)
        PROVE  [MS!Next]_(MS!msvars)
    <2> DEFINE x1 == Nonces(s[1], s[1], MsgOf(s))
               x2 == OwnShare(s[1], s[1], CtxOf(s[2]))
    <2>0. s[1] \in Party /\ MsgOf(s) \in Msg
      BY Numbers DEF MsgOf
    <2>1. SignedMsgs' = SignedMsgs
      <3>1. status \in [Session -> Live \cup {"absent", "done", "crashed"}]
        BY DEF IInv, Plain
      <3>2. ASSUME NEW t \in Session PROVE ~FinishIfPossible(t)
        <4>1. status'[t] # "done" \/ status[t] = "done"
          BY <1>5, <3>1 DEF Flush
        <4>. QED
          BY <3>1, <4>1 DEF FinishIfPossible
      <3>3. {t \in Session : Succeeded(t)}' = {t \in Session : Succeeded(t)}
        BY <3>2, WhoSucceeds
      <3>. QED
        BY <3>3 DEF SignedMsgs
    <2>2. sent' = sent \cup Published(s)
      BY <1>5 DEF Flush
    <2>3. CASE Published(s) = {}
      BY <1>0, <1>4, <2>1, <2>2, <2>3
    <2>4. CASE Published(s) = {[from |-> s, msg |-> x1]}
      <3> DEFINE e == [from |-> s, msg |-> x1]
      <3>1. /\ e.from[1] = s[1] /\ e.msg.body.kind = "Round1"
            /\ sent' = sent \cup {e}
        BY <2>2, <2>4 DEF Nonces, Broadcast, Round1Body
      <3> HIDE DEF e
      <3>2. Committed' = Committed \cup {s[1]}
        BY <3>1 DEF Committed
      <3>3. \A m \in Msg : SharedOf(m)' = SharedOf(m)
        BY <3>1 DEF SharedOf
      <3>4. Shared' = Shared
        BY <3>3 DEF Shared
      <3>5. CASE s[1] \in Committed
        <4>1. Committed' = Committed
          BY <3>2, <3>5
        <4>. QED
          BY <1>0, <2>1, <3>4, <4>1
      <3>6. CASE s[1] \notin Committed
        BY <1>1, <2>0, <2>1, <3>2, <3>4, <3>6
      <3>. QED
        BY <3>5, <3>6
    <2>5. CASE /\ Published(s) = {[from |-> s, msg |-> x2]}
               /\ x1 \in Own(s) /\ KeysOf(s, CtxOf(s[2]))
      <3> DEFINE e == [from |-> s, msg |-> x2]
      <3>1. /\ e.from[1] = s[1] /\ e.msg.body.kind = "Round2"
            /\ e.msg.body.ctx.message = MsgOf(s) /\ sent' = sent \cup {e}
        BY <2>2, <2>5 DEF OwnShare, Broadcast, Share, CtxOf, MsgOf
      <3> HIDE DEF e
      <3>2. Committed = Party
        BY <2>5, NoncesBeforeShare
      <3>3. Committed' = Committed
        BY <3>1 DEF Committed
      <3>4. ASSUME NEW m \in Msg
            PROVE  SharedOf(m)' = IF m = MsgOf(s) THEN SharedOf(m) \cup {s[1]} ELSE SharedOf(m)
        BY <3>1 DEF SharedOf
      <3>5. Shared' = [Shared EXCEPT ![MsgOf(s)] = Shared[MsgOf(s)] \cup {s[1]}]
        BY <2>0, <3>4 DEF Shared
      <3>6. CASE s[1] \in Shared[MsgOf(s)]
        <4>1. Shared[MsgOf(s)] \cup {s[1]} = Shared[MsgOf(s)]
          BY <3>6
        <4>2. Shared' = Shared
          BY <3>5, <4>1 DEF Shared
        <4>. QED
          BY <1>0, <2>1, <3>3, <4>2
      <3>7. CASE s[1] \notin Shared[MsgOf(s)]
        BY <1>2, <2>0, <2>1, <3>2, <3>3, <3>5, <3>7
      <3>. QED
        BY <3>6, <3>7
    <2>. QED
      BY <1>5, <2>3, <2>4, <2>5, FlushesOne
  <1>6. ASSUME NEW s \in Session, FinishIfPossible(s)
        PROVE  [MS!Next]_(MS!msvars)
    <2>1. /\ sent' = sent /\ status[s] = "finish"
          /\ \A t \in Session \ {s} : status'[t] = status[t]
      BY <1>6 DEF FinishIfPossible, IInv, Plain
    <2>2. Succeeded(s)' /\ ~Succeeded(s)
      BY <1>6, <2>1 DEF FinishIfPossible, Succeeded, IInv, Plain
    <2>3. ASSUME NEW t \in Session \ {s} PROVE Succeeded(t)' <=> Succeeded(t)
      BY <1>6, <2>1, WhoSucceeds DEF FinishIfPossible, Succeeded, IInv, Plain
    <2>4. SignedMsgs' = SignedMsgs \cup {MsgOf(s)}
      <3>1. {t \in Session : Succeeded(t)}' = {t \in Session : Succeeded(t)} \cup {s}
        BY <2>2, <2>3
      <3>. QED
        BY <3>1 DEF SignedMsgs, MsgOf
    <2>5. MsgOf(s) \in Msg /\ Shared[MsgOf(s)] = Party
      <3>1. MsgOf(s) \in Msg
        BY Numbers DEF MsgOf
      <3>2. SharedOf(MsgOf(s))' = Party
        BY <2>2 DEF Behind, MsgOf
      <3>3. SharedOf(MsgOf(s)) = Party
        BY <2>1, <3>2 DEF SharedOf, MsgOf
      <3>. QED
        BY <3>1, <3>3 DEF Shared
    <2>6. Committed' = Committed /\ Shared' = Shared
      BY <1>4, <2>1
    <2>7. CASE MsgOf(s) \in SignedMsgs
      <3>1. SignedMsgs' = SignedMsgs
        BY <2>4, <2>7
      <3>. QED
        BY <1>0, <2>6, <3>1
    <2>8. CASE MsgOf(s) \notin SignedMsgs
      BY <1>3, <2>4, <2>5, <2>6, <2>8
    <2>. QED
      BY <2>7, <2>8
  <1>7. CASE \A s \in Session : ~Flush(s) /\ ~FinishIfPossible(s)
    <2>1. sent' = sent
      BY <1>7, WhoSends
    <2>2. {t \in Session : Succeeded(t)}' = {t \in Session : Succeeded(t)}
      BY <1>7, WhoSucceeds
    <2>3. SignedMsgs' = SignedMsgs
      BY <2>2 DEF SignedMsgs
    <2>. QED
      BY <1>0, <1>4, <2>1, <2>3
  <1>. QED
    BY <1>5, <1>6, <1>7

\* Refinement: nonces of all, then shares of all, then a signature.
THEOREM Refines == ASSUME OneList, N >= 2 PROVE Spec => ImplementsMultiSig
  <1>1. Init => MS!Init
    BY DEF Init, MS!Init, Succeeded
  <1>2. /\ Init => Single
        /\ IInv /\ Single /\ [Next]_vars => Single'
    BY SingleInductive
  <1>3. IInv => Behind
    BY SharesBeforeSignature DEF Behind
  <1>4. IInv /\ Single /\ Behind' /\ [Next]_vars => [MS!Next]_(MS!msvars)
    BY StepMaps
  <1>. QED
    BY <1>1, <1>2, <1>3, <1>4, Inductive, PTL DEF Spec, ImplementsMultiSig, MS!Spec
-----------------------------------------------------------------------------
(* One command at a time, one member list, and room in the channels.       *)

\* A node then sends one message of each kind, under its own number.
LEMMA OneTraffic ==
    ASSUME OneList, OneCommand, IInv
    PROVE  /\ \A e \in sent : /\ e.msg \in Messages /\ e.from \in Session
                              /\ e.msg.sender = e.from[1]
                              /\ e.msg.body.kind = "Round2" =>
                                   e.msg.body = Share(e.from[1], CtxOf(e.from[2]))
           /\ \A e, d \in sent :
                e.msg.sender = d.msg.sender /\ e.msg.body.kind = d.msg.body.kind => e = d
  <1>0. sent \subseteq [from : Session, msg : Messages] /\ Network
    BY DEF IInv, Network
  <1>1. ASSUME NEW e \in sent
        PROVE  LET t == e.from
               IN  /\ e.msg \in Messages /\ t \in Session
                   /\ e = [from |-> t, msg |-> e.msg]
                   /\ e.msg.sender = t[1]
                   /\ e.msg.body.kind \in {"Round1", "Round2"}
                   /\ e.msg.body.kind = "Round1" => e.msg = Nonces(t[1], t[1], MsgOf(t))
                   /\ e.msg.body.kind = "Round2" => e.msg = OwnShare(t[1], t[1], CtxOf(t[2]))
    <2> DEFINE t == e.from
    <2>1. e.msg \in Messages /\ t \in Session /\ e = [from |-> t, msg |-> e.msg]
      BY <1>0
    <2>2. e.msg \in Own(t) /\ PartyI(t) = t[1] /\ SessionOK(t)
      BY <2>1, IndexIsNode DEF Own, IInv, SessionInv
    <2>3. /\ e.msg.sender = t[1]
          /\ e.msg.body.kind = "Round1" => e.msg = Nonces(t[1], t[1], MsgOf(t))
          /\ e.msg.body.kind = "Round2" =>
               KeysOf(t, e.msg.body.ctx) /\ e.msg = OwnShare(t[1], t[1], e.msg.body.ctx)
      BY <1>0, <2>1, <2>2, OwnMessages
    <2>4. e.msg.body.kind = "Round2" => e.msg.body.ctx = CtxOf(t[2])
      BY <2>1, <2>3, OneContext
    <2>. QED
      BY <2>1, <2>3, <2>4, MessageShape
  <1>2. ASSUME NEW e \in sent, NEW d \in sent,
               e.msg.sender = d.msg.sender, e.msg.body.kind = d.msg.body.kind
        PROVE  e = d
    <2>1. e.from = d.from
      BY <1>1, <1>2, Numbers DEF OneCommand
    <2>. QED
      BY <1>1, <1>2, <2>1
  <1>3. ASSUME NEW e \in sent, e.msg.body.kind = "Round2"
        PROVE  e.msg.body = Share(e.from[1], CtxOf(e.from[2]))
    <2>1. \A i, key, c : OwnShare(i, key, c).body = Share(key, c)
      BY DEF OwnShare, Broadcast
    <2>2. e.msg = OwnShare(e.from[1], e.from[1], CtxOf(e.from[2]))
      BY <1>1, <1>3
    <2>. QED
      BY <2>1, <2>2
  <1>. QED
    BY <1>1, <1>2, <1>3

\* So a message is known by its sender and its kind, and all shares agree.
LEMMA ComeOne ==
    ASSUME OneList, OneCommand, IInv, NEW s \in Session
    PROVE  /\ \A x \in Come(s) :
                /\ x.sender \in Party \ {s[1]} /\ x.receiver = None
                /\ x.body.kind \in {"Round1", "Round2"}
                /\ Incoming(x, Bodies, Come(s))
           /\ \A x, y \in Come(s) :
                x.sender = y.sender /\ x.body.kind = y.body.kind => x = y
           /\ SharesAgree(PartyI(s), PartyN(s), s[1], MsgOf(s), Come(s))
  <1>1. ASSUME NEW x \in Come(s)
        PROVE  \E e \in sent :
                 /\ e.msg = x /\ e.from \in Session /\ e.from[1] # s[1]
                 /\ x.sender = e.from[1]
    BY ComesIn, OneTraffic DEF IInv
  <1>2. ASSUME NEW x \in Come(s)
        PROVE  /\ x.sender \in Party \ {s[1]} /\ x.receiver = None
               /\ x.body.kind \in {"Round1", "Round2"}
               /\ Incoming(x, Bodies, Come(s))
    <2>1. x \in Messages /\ Incoming(x, Bodies, Come(s))
      BY ComesIn DEF IInv
    <2>. QED
      BY <1>1, <2>1, MessageShape
  <1>3. ASSUME NEW x \in Come(s), NEW y \in Come(s),
               x.sender = y.sender, x.body.kind = y.body.kind
        PROVE  x = y
    BY <1>1, <1>3, OneTraffic
  <1>4. SharesAgree(PartyI(s), PartyN(s), s[1], MsgOf(s), Come(s))
    <2> SUFFICES ASSUME NEW c, KeysOf(s, c), NEW body, NEW p,
                        Came(body, "Round2", p, Come(s))
                 PROVE  body = Share(c.pks[p], c)
      BY DEF SharesAgree, KeysOf
    <2>1. c = CtxOf(s[2])
      BY OneContext
    <2>2. PICK x \in Come(s) : x.sender = p /\ x.body = body /\ x.body.kind = "Round2"
      BY DEF Came
    <2>3. PICK e \in sent : e.msg = x /\ e.from \in Session /\ p = e.from[1]
      BY <1>1, <2>2
    <2>4. body = Share(p, CtxOf(e.from[2]))
      BY <2>2, <2>3, OneTraffic
    <2>5. e.from[2] = s[2] /\ p \in Party
      BY <2>3, Numbers DEF OneCommand
    <2>6. CtxOf(s[2]).pks[p] = p
      BY <2>5 DEF CtxOf
    <2>. QED
      BY <2>1, <2>4, <2>5, <2>6
  <1>. QED
    BY <1>2, <1>3, <1>4

\* Whom a live session has heard, that message has come.
LEMMA HeardCame ==
    ASSUME OneList, IInv, NEW s \in Session, status[s] \in Live,
           NEW kind \in {"Round1", "Round2"}, NEW p \in Party \ {s[1]},
           Heard(inst[s], kind, p)
    PROVE  \E x \in Come(s) : x.sender = p /\ x.body.kind = kind
  <1> DEFINE u == inst[s]
             store == StoreOfKind(u, kind)
  <1>1. /\ PartyI(s) = s[1] /\ PartyN(s) = N /\ N \in Nat \ {0} /\ s[1] \in 1..N
        /\ p \in (1..N) \ {s[1]} /\ SessionOK(s) /\ Phase(s)
    BY IndexIsNode, Numbers DEF Party, IInv, SessionInv
  <1>2. InstOK(u, s[1], N, s[1], MsgOf(s), Bodies, Come(s), Own(s))
    BY <1>1 DEF SessionOK
  <1>3. u.round \in {"Prepare", "Round1", "Round2", "Finished"}
    <2>1. status[s] = "spawned" => u.round = "Prepare"
      BY <1>1 DEF Phase, NewSession, NewInstance
    <2>. QED
      BY <1>1, <2>1 DEF Phase, Live, Settled
  <1>4. CASE store # None
    <2>1. StoreOK(store, s[1], N, kind, Bodies, Come(s)) /\ u.party_i = s[1]
      BY <1>2, <1>4 DEF InstOK, StoreOfKind, Shaped
    <2>2. /\ PartyJ(s[1], p) \in 1..(N - 1)
          /\ SlotParty(s[1], PartyJ(s[1], p)) = p
      BY <1>1, SlotOfParty
    <2>3. store.msgs[PartyJ(s[1], p)] # None
      BY <1>4, <2>1 DEF Heard
    <2>. QED
      BY <2>1, <2>2, <2>3 DEF StoreOK, Came
  <1>5. CASE store = None /\ kind = "Round1"
    <2>1. u.round \in {"Round2", "Finished"}
      BY <1>2, <1>3, <1>5 DEF InstOK, StoreOfKind
    <2>2. \E c : KeysOf(s, c)
      BY <1>1, <1>2, <2>1 DEF InstOK, Progress, Done, KeysOf
    <2>. QED
      BY <1>5, <2>2, OneContext
  <1>6. CASE store = None /\ kind = "Round2"
    <2> DEFINE c == u.result.ctx
    <2>1. u.round = "Finished"
      BY <1>2, <1>3, <1>6 DEF InstOK, StoreOfKind
    <2>2. KeysOf(s, c) /\ SharesFrom(c, N, s[1], Come(s))
      BY <1>1, <1>2, <2>1 DEF InstOK, Progress, Done, KeysOf
    <2>3. c.pks[p] = p /\ p \in 1..N /\ p # s[1]
      BY <1>1, <2>2, OneContext DEF CtxOf
    <2>4. PICK x \in Come(s) : x.body = Share(p, c)
      BY <2>2, <2>3 DEF SharesFrom
    <2>5. PICK t \in Session : x \in Own(t)
      BY ComesIn DEF IInv
    <2>6. x.body.key = t[1] /\ x.sender = t[1]
      BY <2>5, OwnMessages, IndexIsNode DEF IInv, SessionInv
    <2>. QED
      BY <1>6, <2>4, <2>6 DEF Share
  <1>. QED
    BY <1>4, <1>5, <1>6

\* What has not come yet is new to a live session.
LEMMA Fresh ==
    ASSUME OneList, OneCommand, IInv, NEW s \in Session,
           NEW e \in sent, e \notin received[s[1]], e.from[1] # s[1]
    PROVE  /\ e.msg.sender \in Party \ {s[1]}
           /\ e.msg.body.kind \in {"Round1", "Round2"}
           /\ \A x \in Come(s) : ~(x.sender = e.msg.sender /\ x.body.kind = e.msg.body.kind)
           /\ status[s] \in Live => ~Heard(inst[s], e.msg.body.kind, e.msg.sender)
  <1>1. /\ e.msg.sender \in Party \ {s[1]}
        /\ e.msg.body.kind \in {"Round1", "Round2"}
    <2>1. e.msg \in Messages /\ e.msg.sender = e.from[1]
      BY OneTraffic
    <2>. QED
      BY <2>1, MessageShape
  <1>2. ASSUME NEW x \in Come(s), x.sender = e.msg.sender, x.body.kind = e.msg.body.kind
        PROVE  FALSE
    <2>1. PICK d \in received[s[1]] : d \in sent /\ d.msg = x
      BY ComesIn DEF IInv
    <2>. QED
      BY <1>2, <2>1, OneTraffic
  <1>3. ASSUME status[s] \in Live, Heard(inst[s], e.msg.body.kind, e.msg.sender)
        PROVE  FALSE
    BY <1>1, <1>2, <1>3, HeardCame
  <1>. QED
    BY <1>1, <1>2, <1>3

\* No share comes to a node before it has sent its nonces.
LEMMA NoShareYet ==
    ASSUME OneList, OneCommand, IInv, NEW s \in Session, status[s] \in {"absent", "spawned"},
           NEW x \in Come(s)
    PROVE  x.body.kind # "Round2"
  <1> SUFFICES ASSUME x.body.kind = "Round2" PROVE FALSE
    OBVIOUS
  <1>1. Own(s) = {}
    <2>1. SessionOK(s) /\ inst[s] = NewSession(s)
      BY DEF IInv, SessionInv, Phase
    <2>2. inst[s].round = "Prepare"
      BY <2>1 DEF NewSession, NewInstance
    <2>. QED
      BY <2>1, <2>2 DEF SessionOK, InstOK, Progress
  <1>2. PICK t \in Session : t[1] # s[1] /\ x \in Own(t)
    BY ComesIn DEF IInv
  <1>3. KeysOf(t, x.body.ctx)
    BY <1>2, OwnMessages DEF IInv, SessionInv
  <1>4. PICK y \in Come(t) : y.sender = s[1]
    <2>1. s[1] \in Party \ {t[1]}
      BY <1>2, Numbers
    <2>. QED
      BY <1>3, <2>1, OneContext
  <1>5. PICK r \in Session : y \in Own(r) /\ r[1] = s[1]
    <2>1. PICK r \in Session : y \in Own(r)
      BY ComesIn DEF IInv
    <2>2. y.sender = r[1]
      BY <2>1, OwnMessages, IndexIsNode DEF IInv, SessionInv
    <2>. QED
      BY <1>4, <2>1, <2>2
  <1>6. r = s
    BY <1>5, Numbers DEF OneCommand
  <1>. QED
    BY <1>1, <1>5, <1>6

\* There is room on the channel for a message that is new.
LEMMA RoomLeft ==
    ASSUME OneList, OneCommand, Room, IInv, NEW s \in Session, status[s] \in Live,
           Attentive(s), NEW e \in sent, e \notin received[s[1]], e.from[1] # s[1]
    PROVE  Len(incoming[s]) < Capacity
  <1> DEFINE q == incoming[s]
             D == 1..(Len(q) + 1)
             Senders == Party \ {s[1]}
             Kinds == {"Round1", "Round2"}
             msg(k) == IF k \in DOMAIN q THEN q[k] ELSE e.msg
             f == [k \in D |-> <<msg(k).sender, msg(k).body.kind>>]
  <1>1. /\ q \in Seq(Messages) /\ Len(q) \in Nat /\ DOMAIN q = 1..Len(q)
        /\ \A k \in DOMAIN q : q[k] \in Come(s)
    BY DEF IInv, Plain, Network
  <1>2. \A k \in DOMAIN q : q[k].sender \in Senders /\ q[k].body.kind \in Kinds
    BY <1>1, ComeOne
  <1>3. /\ e.msg.sender \in Senders /\ e.msg.body.kind \in Kinds
        /\ \A k \in DOMAIN q :
             ~(q[k].sender = e.msg.sender /\ q[k].body.kind = e.msg.body.kind)
    BY <1>1, Fresh
  <1>4. \A k, l \in DOMAIN q :
          q[k].sender = q[l].sender /\ q[k].body.kind = q[l].body.kind => k = l
    BY <1>1, ComeOne DEF Attentive
  <1> HIDE DEF q
  <1>5. f \in [D -> Senders \X Kinds]
    BY <1>2, <1>3
  <1>6. ASSUME NEW k \in D, NEW l \in D, f[k] = f[l] PROVE k = l
    <2>1. msg(k).sender = msg(l).sender /\ msg(k).body.kind = msg(l).body.kind
      BY <1>6
    <2>2. D = DOMAIN q \cup {Len(q) + 1} /\ Len(q) + 1 \notin DOMAIN q
      BY <1>1
    <2>. QED
      BY <1>3, <1>4, <2>1, <2>2
  <1>7. f \in Injection(D, Senders \X Kinds)
    BY <1>5, <1>6 DEF Injection, IsInjective
  <1>8. IsFiniteSet(Senders) /\ Cardinality(Senders) = N - 1
    <2>1. N \in Nat \ {0} /\ s[1] \in Party
      BY Numbers
    <2>2. 1 \in Int /\ N \in Int
      BY <2>1
    <2>3. /\ IsFiniteSet(1..N)
          /\ Cardinality(1..N) = IF 1 > N THEN 0 ELSE N - 1 + 1
      BY <2>2, FS_Interval
    <2>4. IsFiniteSet(Party) /\ Cardinality(Party) = N
      BY <2>1, <2>3 DEF Party
    <2>. QED
      BY <2>1, <2>4, FS_RemoveElement
  <1>9. IsFiniteSet(Kinds) /\ Cardinality(Kinds) = 2
    <2>1. IsFiniteSet({"Round1"}) /\ Cardinality({"Round1"}) = 1
      BY FS_Singleton
    <2> DEFINE K == {"Round1"}
    <2>2. Kinds = K \cup {"Round2"} /\ "Round2" \notin K
      OBVIOUS
    <2> HIDE DEF K, Kinds
    <2>3. /\ IsFiniteSet(K \cup {"Round2"})
          /\ Cardinality(K \cup {"Round2"}) = Cardinality(K) + 1
      BY <2>1, <2>2, FS_AddElement DEF K
    <2>. QED
      BY <2>1, <2>2, <2>3 DEF K
  <1>10. /\ IsFiniteSet(Senders \X Kinds)
         /\ Cardinality(Senders \X Kinds) = (N - 1) * 2
    BY <1>8, <1>9, FS_Product
  <1>11. Cardinality(D) <= Cardinality(Senders \X Kinds)
    BY <1>7, <1>10, FS_Injection
  <1>12. Cardinality(D) = Len(q) + 1
    <2>1. 1 \in Int /\ Len(q) + 1 \in Int
      BY <1>1
    <2>2. Cardinality(D) = IF 1 > Len(q) + 1 THEN 0 ELSE Len(q) + 1 - 1 + 1
      BY <2>1, FS_Interval
    <2>. QED
      BY <1>1, <2>2
  <1>13. N \in Nat /\ Capacity \in Nat
    BY NAssumption, CapacityAssumption
  <1>14. Len(q) + 1 <= (N - 1) * 2
    BY <1>10, <1>11, <1>12
  <1>. QED
    BY <1>1, <1>13, <1>14 DEF Room, q

\* A session that a step leaves alone, ends or crashes stays as it is.
LEMMA StaysAttentive ==
    ASSUME NEW s \in Session, Attentive(s),
           inst'[s] = inst[s], incoming'[s] = incoming[s], lagged'[s] = lagged[s],
           status'[s] = status[s] \/ status'[s] \in {"crashed", "done"},
           Come(s)' = Come(s)
    PROVE  Attentive(s)'
  BY DEF Attentive, Unread, Live

\* What an instance makes of its next message: nothing goes wrong, and it has
\* then heard that message and no other.
LEMMA ReceiveHears ==
    ASSUME OneList, OneCommand, IInv, NEW s \in Session, status[s] = "receive",
           NEW m \in Come(s), ~Heard(inst[s], m.body.kind, m.sender)
    PROVE  /\ ~IsCritical(HandleResult(inst[s], m))
           /\ ~Panicked(Turn(inst[s], m))
           /\ \A x \in Come(s) :
                Heard(Turn(inst[s], m), x.body.kind, x.sender) <=>
                  Heard(inst[s], x.body.kind, x.sender) \/ x = m
  <1> DEFINE u == inst[s]
  <1>1. /\ N \in Nat \ {0} /\ s[1] \in 1..N
        /\ NoneIsNone(s[1], N, Bodies)
        /\ InstOK(u, s[1], N, s[1], MsgOf(s), Bodies, Come(s), Own(s))
        /\ Settled(u)
    BY Numbers, NoneHere, IndexIsNode DEF Party, IInv, SessionInv, SessionOK, Phase
  <1>2. /\ Incoming(m, Bodies, Come(s)) /\ m.receiver = None
        /\ m.body.kind \in {"Round1", "Round2"} /\ m.sender \in (1..N) \ {s[1]}
        /\ SharesAgree(s[1], N, s[1], MsgOf(s), Come(s))
    BY ComeOne, IndexIsNode DEF Party
  <1>3. ~IsCritical(HandleResult(u, m))
    <2>1. StoreFor(u, m) # None
      BY DEF Heard, StoreOfKind, StoreFor
    <2>. QED
      BY <2>1 DEF HandleResult, IsCritical
  <1>4. ~Panicked(Turn(u, m))
    BY <1>1, <1>2, NoPanicTurn DEF Settled, Panicked
  <1>5. ASSUME NEW x \in Come(s)
        PROVE  Heard(Turn(u, m), x.body.kind, x.sender) <=>
                 Heard(u, x.body.kind, x.sender) \/ x = m
    <2>1. x.body.kind \in {"Round1", "Round2"} /\ x.sender \in (1..N) \ {s[1]}
      BY ComeOne DEF Party
    <2>2. Heard(Turn(u, m), x.body.kind, x.sender) <=>
            Heard(u, x.body.kind, x.sender) \/ (x.body.kind = m.body.kind /\ x.sender = m.sender)
      BY <1>1, <1>2, <2>1, TurnHears
    <2>. QED
      BY <2>2, ComeOne
  <1>. QED
    BY <1>3, <1>4, <1>5

\* Reading the next message.
LEMMA ReceiveAttentive ==
    ASSUME OneList, OneCommand, IInv, NEW s \in Session, Attentive(s), Receive(s)
    PROVE  Attentive(s)' /\ status'[s] = "flush"
  <1> DEFINE q == incoming[s]
             m == Head(q)
             u == inst[s]
             t == Turn(u, m)
  <1>1. /\ status[s] = "receive" /\ q # << >> /\ q \in Seq(Messages)
        /\ \A k \in DOMAIN q : q[k] \in Come(s)
    BY DEF Receive, IInv, Plain, Network
  <1>2. /\ m = q[1] /\ 1 \in DOMAIN q /\ m \in Come(s)
        /\ DOMAIN Tail(q) = {k \in Nat : k + 1 \in DOMAIN q /\ k # 0}
        /\ \A k \in DOMAIN Tail(q) : k + 1 \in DOMAIN q /\ Tail(q)[k] = q[k + 1] /\ k \in Nat \ {0}
    BY <1>1
  <1>3. ~Heard(u, m.body.kind, m.sender)
    BY <1>1, <1>2 DEF Attentive, Live
  <1>4. /\ ~IsCritical(HandleResult(u, m)) /\ ~Panicked(t)
        /\ \A x \in Come(s) : Heard(t, x.body.kind, x.sender) <=>
                                Heard(u, x.body.kind, x.sender) \/ x = m
    BY <1>1, <1>2, <1>3, ReceiveHears
  <1>5. /\ inst'[s] = t /\ status'[s] = "flush" /\ incoming'[s] = Tail(q)
        /\ lagged' = lagged /\ Come(s)' = Come(s)
    BY <1>4 DEF Receive, IInv, Plain, Come
  <1> HIDE DEF m, t, q
  <1>6. /\ ~lagged[s]
        /\ \A k, l \in DOMAIN q : q[k] = q[l] => k = l
        /\ \A k \in DOMAIN q : ~Heard(u, q[k].body.kind, q[k].sender)
        /\ \A x \in Come(s) : x.body.kind = "Round2" =>
             (\E k \in DOMAIN q : q[k] = x) \/ Heard(u, "Round2", x.sender)
    BY <1>1 DEF Attentive, Live, Unread, q
  <1>7. \A k, l \in DOMAIN Tail(q) : Tail(q)[k] = Tail(q)[l] => k = l
    BY <1>2, <1>6
  <1>8. ASSUME NEW k \in DOMAIN Tail(q)
        PROVE  ~Heard(t, Tail(q)[k].body.kind, Tail(q)[k].sender)
    <2>1. Tail(q)[k] = q[k + 1] /\ k + 1 \in DOMAIN q /\ k + 1 # 1
      BY <1>2
    <2>2. q[k + 1] # m /\ q[k + 1] \in Come(s)
      BY <1>1, <1>2, <1>6, <2>1
    <2>. QED
      BY <1>4, <1>6, <2>1, <2>2
  <1>9. ASSUME NEW x \in Come(s), x.body.kind = "Round2"
        PROVE  (\E k \in DOMAIN Tail(q) : Tail(q)[k] = x) \/ Heard(t, "Round2", x.sender)
    <2>1. CASE x = m \/ Heard(u, "Round2", x.sender)
      BY <1>4, <1>9, <2>1
    <2>2. CASE x # m /\ ~Heard(u, "Round2", x.sender)
      <3>1. PICK k \in DOMAIN q : q[k] = x /\ k # 1
        BY <1>2, <1>6, <1>9, <2>2
      <3>2. k - 1 \in DOMAIN Tail(q) /\ k - 1 + 1 = k
        <4>1. DOMAIN q = 1..Len(q) /\ Len(q) \in Nat
          BY <1>1
        <4>. QED
          BY <1>2, <3>1, <4>1
      <3>. QED
        BY <1>2, <3>1, <3>2
    <2>. QED
      BY <2>1, <2>2
  <1>. QED
    BY <1>5, <1>6, <1>7, <1>8, <1>9 DEF Attentive, Unread

\* The network delivers a message that has not come yet.
LEMMA DeliverAttentive ==
    ASSUME OneList, OneCommand, Room, IInv, NEW s \in Session, Attentive(s),
           NEW p \in Party, NEW e \in sent, Deliver(p, e)
    PROVE  Attentive(s)'
  <1> DEFINE q == incoming[s]
  <1>1. /\ inst' = inst /\ status' = status
        /\ lagged'[s] <=> lagged[s] \/ (s \in Subscribed(p) /\ Len(q) = Capacity)
        /\ received' = [received EXCEPT ![p] = received[p] \cup {e}]
        /\ received \in [Party -> SUBSET sent] /\ s[1] \in Party
        /\ e.from[1] # p /\ e \notin received[p]
    BY Numbers DEF Deliver, IInv, Network
  <1>2. CASE s[1] # p
    <2>1. Come(s)' = Come(s) /\ s \notin Subscribed(p)
      BY <1>1, <1>2 DEF Come, Subscribed
    <2>2. incoming'[s] = incoming[s] /\ (lagged'[s] <=> lagged[s])
      BY <1>1, <2>1 DEF Deliver
    <2>. QED
      BY <1>1, <2>1, <2>2 DEF Attentive, Unread
  <1>3. CASE s[1] = p /\ status[s] \notin Live
    <2>1. s \notin Subscribed(p)
      BY <1>3 DEF Subscribed
    <2>2. incoming'[s] = incoming[s] /\ (lagged'[s] <=> lagged[s])
      BY <1>1, <2>1 DEF Deliver
    <2>. QED
      BY <1>1, <1>3, <2>2 DEF Attentive, Live
  <1>4. CASE s[1] = p /\ status[s] \in Live
    <2>1. s \in Subscribed(p) /\ Len(q) < Capacity
      BY <1>1, <1>4, RoomLeft DEF Subscribed
    <2>2. /\ q \in Seq(Messages) /\ e.msg \in Messages
          /\ \A k \in DOMAIN q : q[k] \in Come(s)
      BY OneTraffic DEF IInv, Plain, Network
    <2>3. /\ incoming'[s] = Append(q, e.msg)
          /\ DOMAIN Append(q, e.msg) = DOMAIN q \cup {Len(q) + 1} /\ Len(q) + 1 \notin DOMAIN q
          /\ \A k \in DOMAIN q : Append(q, e.msg)[k] = q[k]
          /\ Append(q, e.msg)[Len(q) + 1] = e.msg
      BY <2>1, <2>2 DEF Deliver
    <2>4. Come(s)' = Come(s) \cup {e.msg}
      BY <1>1, <1>4 DEF Come
    <2>5. e.msg \notin Come(s) /\ ~Heard(inst[s], e.msg.body.kind, e.msg.sender)
      BY <1>1, <1>4, Fresh
    <2>6. ~lagged'[s] /\ status[s] # "absent"
      BY <1>1, <1>4, <2>1 DEF Attentive, Live
    <2> DEFINE r == Append(q, e.msg)
    <2> HIDE DEF q, r
    <2>7. /\ \A k, l \in DOMAIN q : q[k] = q[l] => k = l
          /\ \A k \in DOMAIN q : ~Heard(inst[s], q[k].body.kind, q[k].sender)
          /\ \A x \in Come(s) : x.body.kind = "Round2" =>
               (\E k \in DOMAIN q : q[k] = x) \/ Heard(inst[s], "Round2", x.sender)
      BY <1>4 DEF Attentive, Unread, q
    <2>8. \A k, l \in DOMAIN r : r[k] = r[l] => k = l
      BY <2>2, <2>3, <2>5, <2>7 DEF r
    <2>9. \A k \in DOMAIN r : ~Heard(inst[s], r[k].body.kind, r[k].sender)
      BY <2>3, <2>5, <2>7 DEF r
    <2>10. \A x \in Come(s)' : x.body.kind = "Round2" =>
             (\E k \in DOMAIN r : r[k] = x) \/ Heard(inst[s], "Round2", x.sender)
      BY <2>3, <2>4, <2>7 DEF r
    <2>11. incoming'[s] = r
      BY <2>3 DEF r
    <2>. QED
      BY <1>1, <2>6, <2>8, <2>9, <2>10, <2>11 DEF Attentive, Unread
  <1>. QED
    BY <1>2, <1>3, <1>4

\* The steps of one session s, each on its own.
LEMMA StepOne ==
    ASSUME OneList, OneCommand, IInv, OneInv, NEW s \in Session,
           StartMusig2(s) \/ Step(s), NEW t \in Session
    PROVE  Attentive(t)' /\ OnlyLate(t)'
  <1> DEFINE u == inst[s]
  <1>0. /\ Plain /\ Network /\ Attentive(s) /\ OnlyLate(s) /\ Attentive(t) /\ OnlyLate(t)
        /\ SessionOK(s) /\ Phase(s)
    BY DEF IInv, OneInv, SessionInv
  <1>1. received' = received /\ Come(t)' = Come(t)
    BY DEF StartMusig2, Step, Begin, Flush, FinishIfPossible, Skip, Receive,
           ReceiveLagged, Timeout, Come
  <1>2. CASE t # s
    <2>1. /\ status'[t] = status[t] /\ inst'[t] = inst[t] /\ outcome'[t] = outcome[t]
          /\ incoming'[t] = incoming[t] /\ lagged'[t] = lagged[t]
      BY <1>0, <1>2 DEF Plain, StartMusig2, Step, Begin, Flush, FinishIfPossible, Skip,
           Receive, ReceiveLagged, Timeout
    <2>. QED
      BY <1>0, <1>1, <2>1, StaysAttentive DEF OnlyLate, Failed
  <1> SUFFICES ASSUME t = s PROVE Attentive(s)' /\ OnlyLate(s)'
    BY <1>2
  <1>3. CASE StartMusig2(s)
    <2>1. /\ status[s] = "absent" /\ status'[s] = "spawned"
          /\ UNCHANGED <<inst, incoming, lagged>>
      BY <1>0, <1>3 DEF StartMusig2, Plain
    <2>2. incoming[s] = << >> /\ ~lagged[s]
      BY <1>0, <2>1 DEF Attentive
    <2>3. \A x \in Come(s)' : x.body.kind # "Round2"
      BY <1>1, <2>1, NoShareYet
    <2>4. Attentive(s)'
      BY <2>1, <2>2, <2>3 DEF Attentive
    <2>. QED
      BY <2>1, <2>4 DEF OnlyLate, Failed
  <1>4. CASE Begin(s) \/ Flush(s)
    <2>1. /\ status[s] \in Live /\ UNCHANGED <<incoming, lagged>>
          /\ status'[s] \in {"flush", "finish", "receive"}
      BY <1>0, <1>4 DEF Begin, Flush, Plain, Live
    <2>2. ASSUME NEW kind, NEW p \in Party \ {s[1]}
          PROVE  Heard(inst'[s], kind, p) <=> Heard(u, kind, p)
      <3>1. CASE Begin(s)
        <4>1. inst'[s] = ProceedRound(u, TRUE)
          BY <1>0, <3>1 DEF Begin, Plain, Proceed
        <4>2. /\ N \in Nat \ {0} /\ s[1] \in 1..N /\ None \notin Bodies
              /\ p \in (1..N) \ {s[1]}
              /\ InstOK(u, s[1], N, s[1], MsgOf(s), Bodies, Come(s), Own(s))
          BY <1>0, Numbers, NoneHere, IndexIsNode DEF Party, SessionOK
        <4> HIDE DEF u
        <4>3. Heard(ProceedRound(u, TRUE), kind, p) <=> Heard(u, kind, p)
          BY <4>2, ProceedHears
        <4>. QED
          BY <4>1, <4>3
      <3>2. CASE Flush(s)
        <4>1. inst'[s] = [u EXCEPT !.msgs_queue = << >>]
          BY <1>0, <3>2 DEF Flush, Plain
        <4>2. u = [f \in Fields |-> u[f]]
          BY <1>0 DEF SessionOK, InstOK, Shaped
        <4>3. /\ inst'[s].msgs1 = u.msgs1 /\ inst'[s].msgs2 = u.msgs2
              /\ inst'[s].party_i = u.party_i
          BY <4>1, <4>2 DEF Fields
        <4>. QED
          BY <4>3 DEF Heard, StoreOfKind
      <3>. QED
        BY <1>4, <3>1, <3>2
    <2>3. \A x \in Come(s) : Heard(inst'[s], x.body.kind, x.sender) <=>
                               Heard(u, x.body.kind, x.sender)
      BY <2>2, ComeOne
    <2>4. \A k \in DOMAIN incoming[s] : incoming[s][k] \in Come(s)
      BY <1>0 DEF Network
    <2>5. Attentive(s)'
      BY <1>0, <1>1, <2>1, <2>3, <2>4 DEF Attentive, Unread, Live
    <2>. QED
      BY <2>1, <2>5 DEF OnlyLate, Failed
  <1>5. CASE FinishIfPossible(s)
    <2>1. status'[s] = "done" /\ outcome'[s].tag = "Ok"
      BY <1>0, <1>5 DEF FinishIfPossible, Plain
    <2>. QED
      BY <2>1 DEF Attentive, Live, OnlyLate, Failed
  <1>6. CASE Skip(s)
    <2>1. /\ incoming[s] # << >> /\ incoming[s] \in Seq(Messages)
          /\ Head(incoming[s]).sender = s[1]
      BY <1>0, <1>6, IndexIsNode DEF Skip, IsOwn, Plain
    <2>2. Head(incoming[s]) \in Come(s)
      BY <1>0, <2>1 DEF Network
    <2>. QED
      BY <2>1, <2>2, ComeOne
  <1>7. CASE Receive(s)
    BY <1>0, <1>7, ReceiveAttentive DEF OnlyLate, Failed
  <1>8. CASE ReceiveLagged(s)
    BY <1>0, <1>8 DEF ReceiveLagged, Attentive, Live
  <1>9. CASE Timeout(s)
    <2>1. status'[s] = "done" /\ outcome'[s].tag = "HandleIncomingTimeout"
      BY <1>0, <1>9 DEF Timeout, Plain
    <2>. QED
      BY <2>1 DEF Attentive, Live, OnlyLate, Failed
  <1>. QED
    BY <1>3, <1>4, <1>5, <1>6, <1>7, <1>8, <1>9 DEF Step

LEMMA NextOne ==
    ASSUME OneList, OneCommand, Room
    PROVE  /\ Init => OneInv
           /\ IInv /\ OneInv /\ [Next]_vars => OneInv'
  <1>1. Init => OneInv
    BY DEF Init, OneInv, Attentive, OnlyLate, Failed, Live
  <1>2. ASSUME IInv, OneInv, [Next]_vars, NEW t \in Session
        PROVE  Attentive(t)' /\ OnlyLate(t)'
    <2>0. Attentive(t) /\ OnlyLate(t)
      BY <1>2 DEF OneInv
    <2>1. ASSUME NEW s \in Session, StartMusig2(s) \/ Step(s)
          PROVE  Attentive(t)' /\ OnlyLate(t)'
      BY <1>2, <2>1, StepOne
    <2>2. ASSUME NEW q \in Party, Crash(q) PROVE Attentive(t)' /\ OnlyLate(t)'
      <3>1. /\ UNCHANGED <<inst, incoming, lagged, outcome, received>>
            /\ status'[t] = status[t] \/ status'[t] = "crashed"
        BY <2>2 DEF Crash
      <3>2. Come(t)' = Come(t)
        BY <3>1 DEF Come
      <3>. QED
        BY <2>0, <3>1, <3>2, StaysAttentive DEF OnlyLate, Failed
    <2>3. ASSUME NEW q \in Party, NEW e \in sent, Deliver(q, e)
          PROVE  Attentive(t)' /\ OnlyLate(t)'
      <3>1. Attentive(t)'
        BY <1>2, <2>0, <2>3, DeliverAttentive
      <3>2. UNCHANGED <<status, outcome>>
        BY <2>3 DEF Deliver
      <3>. QED
        BY <2>0, <3>1, <3>2 DEF OnlyLate, Failed
    <2>4. CASE UNCHANGED vars
      <3>1. Come(t)' = Come(t)
        BY <2>4 DEF vars, Come
      <3>. QED
        BY <2>0, <2>4, <3>1, StaysAttentive DEF vars, OnlyLate, Failed
    <2>. QED
      BY <1>2, <2>1, <2>2, <2>3, <2>4 DEF Next
  <1>. QED
    BY <1>1, <1>2 DEF OneInv

LEMMA OneInductive ==
    ASSUME OneList, OneCommand, Room PROVE Spec => [](IInv /\ OneInv)
  <1>1. /\ Init => OneInv
        /\ IInv /\ OneInv /\ [Next]_vars => OneInv'
    BY NextOne
  <1>. QED
    BY <1>1, Inductive, PTL DEF Spec

\* The only way to fail is the Round2 deadline: no message is out of order or
\* lost for want of room, and no sum fails to verify.
THEOREM FailsOnlyLate ==
    ASSUME OneList, OneCommand, Room PROVE Spec => []OnlyTimeoutsFail
  <1>1. OneInv => OnlyTimeoutsFail
    BY DEF OneInv, OnlyLate, OnlyTimeoutsFail
  <1>. QED
    BY <1>1, OneInductive, PTL

\* A timeout blames exactly those whose share has not reached the node.
LEMMA TimeoutBlamesUndelivered ==
    ASSUME OneList, OneCommand, IInv, NEW s \in Session, Attentive(s), Timeout(s)
    PROVE  TimeoutBlame(inst[s]) =
             {q \in Party \ {s[1]} : \A e \in received[s[1]] :
                e.msg.sender # q \/ e.msg.body.kind # "Round2"}
  <1> DEFINE u == inst[s]
  <1>1. status[s] = "receive" /\ u.round = "Round2" /\ incoming[s] = << >>
    BY DEF Timeout, HasTimeout
  <1>2. TimeoutBlame(u) = {p \in (1..N) \ {s[1]} : ~Heard(u, "Round2", p)}
    <2>1. /\ N \in Nat \ {0} /\ s[1] \in 1..N
          /\ InstOK(u, s[1], N, s[1], MsgOf(s), Bodies, Come(s), Own(s))
      BY Numbers, IndexIsNode DEF Party, IInv, SessionInv, SessionOK
    <2>. QED
      BY <1>1, <2>1, BlamesUnheard
  <1>3. ASSUME NEW p \in Party \ {s[1]}
        PROVE  Heard(u, "Round2", p) <=>
                 \E x \in Come(s) : x.sender = p /\ x.body.kind = "Round2"
    <2>1. ASSUME NEW x \in Come(s), x.sender = p, x.body.kind = "Round2"
          PROVE  Heard(u, "Round2", p)
      BY <1>1, <2>1 DEF Attentive, Unread, Live
    <2>2. ASSUME Heard(u, "Round2", p)
          PROVE  \E x \in Come(s) : x.sender = p /\ x.body.kind = "Round2"
      BY <1>1, <2>2, HeardCame DEF Live
    <2>. QED
      BY <2>1, <2>2
  <1>4. ASSUME NEW p
        PROVE  (\E x \in Come(s) : x.sender = p /\ x.body.kind = "Round2") <=>
                 \E e \in received[s[1]] : e.msg.sender = p /\ e.msg.body.kind = "Round2"
    BY DEF Come
  <1>. QED
    BY <1>2, <1>3, <1>4 DEF Party

\* At a timeout the blamed are exactly those whose share is undelivered.
THEOREM BlameIsFair ==
    ASSUME OneList, OneCommand, Room PROVE Spec => BlamesUndelivered
  <1> DEFINE Fair == \A s \in Session :
               outcome[s] # outcome'[s] /\ outcome'[s].tag = "HandleIncomingTimeout" =>
                 outcome'[s].blamed =
                   {q \in Party \ {s[1]} : \A e \in received[s[1]] :
                      e.msg.sender # q \/ e.msg.body.kind # "Round2"}
  <1>1. ASSUME IInv, OneInv, [Next]_vars PROVE Fair
    <2> SUFFICES ASSUME NEW s \in Session, outcome[s] # outcome'[s],
                        outcome'[s].tag = "HandleIncomingTimeout"
                 PROVE  outcome'[s].blamed =
                          {q \in Party \ {s[1]} : \A e \in received[s[1]] :
                             e.msg.sender # q \/ e.msg.body.kind # "Round2"}
      OBVIOUS
    <2>0. outcome \in [Session -> Outcomes \cup {None}]
      BY <1>1 DEF IInv, Plain
    <2>1. PICK t \in Session : Step(t)
      BY <1>1 DEF Next, StartMusig2, Crash, Deliver, vars
    <2>2. t = s
      BY <2>0, <2>1 DEF Step, Begin, Flush, FinishIfPossible, Skip, Receive,
           ReceiveLagged, Timeout
    <2>3. Timeout(s)
      <3>1. ~Begin(s) /\ ~Flush(s) /\ ~Skip(s)
        BY DEF Begin, Flush, Skip
      <3>2. ~FinishIfPossible(s) /\ ~ReceiveLagged(s)
        BY <2>0 DEF FinishIfPossible, ReceiveLagged
      <3>3. ~Receive(s)
        BY <1>1, ReceiveAttentive, <2>0 DEF OneInv, Receive
      <3>. QED
        BY <2>1, <2>2, <3>1, <3>2, <3>3 DEF Step
    <2>4. outcome'[s].blamed = TimeoutBlame(inst[s])
      BY <2>0, <2>3 DEF Timeout
    <2>. QED
      BY <1>1, <2>3, <2>4, TimeoutBlamesUndelivered DEF OneInv
  <1>2. IInv /\ OneInv /\ [Next]_vars => [Fair]_vars
    BY <1>1
  <1>. QED
    BY <1>2, OneInductive, PTL DEF Spec, BlamesUndelivered
=============================================================================
