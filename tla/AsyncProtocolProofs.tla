------------------------ MODULE AsyncProtocolProofs ------------------------
(***************************************************************************)
(* Proofs about the executor and its instance, for any number of parties,  *)
(* any of them as Self, any set of peers' streams and any capacity of the  *)
(* channel.                                                                *)
(***************************************************************************)
EXTENDS AsyncProtocolProps, InstanceLemmas

Bodies == {m.body : m \in Messages}

\* The messages that have left the node.
Out == {outgoing[q] : q \in DOMAIN outgoing}

OK(st) == InstOK(st, Self, N, Self, Message, Bodies, arrived, Out)

\* The two own messages, in order.
MyNonces == R1(Self, "this")
MyShare  == R2(Self, "this")

\* Where the instance is.
Places ==
    /\ pc \in {"start", "proceed", "blocking", "flush", "receive", "reply", "done"}
    /\ pc \notin {"blocking", "done"} => state # None /\ state.round # "Gone"
    /\ pc = "blocking" => task # None /\ state = None
    /\ pc # "blocking" => task = None
    /\ state # None => OK(state)
    /\ task # None => OK(task)

\* The deadline is that of the round last seen, which run() has just looked
\* up when it waits.
Timer ==
    /\ pc = "start" => state.round = "Prepare" /\ deadline = FALSE /\ current_round = None
    /\ pc # "start" => current_round \in 0..3 /\ deadline = (current_round = 2)
    /\ pc = "receive" => current_round = CurrentRound(state)

Network ==
    /\ incoming \in Seq(arrived) /\ Len(incoming) <= Capacity
    /\ lagged \in BOOLEAN
    /\ \A m \in arrived : m \in Messages /\ m.sender \in Peers

\* Before it waits run() goes as far as it can and sends what that gave.
Waiting ==
    /\ pc \in {"flush", "receive"} => Settled(state)
    /\ pc = "receive" => state.round # "Finished" /\ state.msgs_queue = << >>

NoncesIn == \A p \in Peers : \E s \in {"this", "other"} : R1(p, s) \in arrived

InOrder ==
    /\ outgoing \in {<< >>, << MyNonces >>, << MyNonces, MyShare >>}
    /\ MyShare \in Out => NoncesIn

\* The instance, wherever it is.
Instance == IF pc = "blocking" THEN task ELSE state

Unread(m) == \E q \in DOMAIN incoming : incoming[q] = m

\* As long as the channel loses nothing, what has arrived is unread or heard.
NothingLost ==
    pc # "done" /\ ~lagged =>
        \A m \in arrived : Unread(m) \/ Heard(Instance, m.body.kind, m.sender)

SharesIn == \A p \in Peers : R2(p, "this") \in arrived

Ended ==
    /\ outcome \in Results \cup {None}
    /\ pc # "done" => outcome = None
    /\ pc = "done" => outcome \in Results
    /\ pc = "done" /\ outcome.tag = "Ok" => outcome.result = Result /\ SharesIn
    /\ BlamesTheSilent

IInv == Places /\ Timer /\ Network /\ Waiting /\ InOrder /\ NothingLost /\ Ended
-----------------------------------------------------------------------------
LEMMA NoneHere ==
    /\ NoneIsNone(Self, N, Bodies) /\ None \notin Bodies
    /\ None \notin Instances
    /\ N \in Nat \ {0} /\ Self \in 1..N
  BY NoneAssumption, PartyAssumption DEF NoneIsNone, Bodies, Store, StoresOf

\* What a message of a peer looks like.
LEMMA PeerMessages ==
    ASSUME NEW m \in Messages, m.sender \in Peers
    PROVE  /\ m.body \in Bodies
           /\ m.sender \in (1..N) \ {Self} /\ m.sender \in Nat /\ m.receiver = None
           /\ m.body.kind \in {"Round1", "Round2"}
           /\ \E s \in {"this", "other"} :
                IF m.body.kind = "Round1" THEN m = R1(m.sender, s)
                ELSE m = R2(m.sender, s)
  <1>1. PICK p \in 1..N, s \in {"this", "other"} : m = R1(p, s) \/ m = R2(p, s)
    BY DEF Messages
  <1>2. /\ m.sender = p /\ m.receiver = None
        /\ IF m = R1(p, s) THEN m.body.kind = "Round1" ELSE m.body.kind = "Round2"
    BY <1>1 DEF R1, R2, Broadcast, Round1Body, Share
  <1>3. m = R2(p, s) => m.body.kind = "Round2"
    BY DEF R2, Broadcast, Share
  <1>. QED
    BY <1>1, <1>2, <1>3, PartyAssumption DEF Bodies, Peers

LEMMA ArrivedComesIn ==
    ASSUME Network, NEW m \in arrived
    PROVE  /\ Incoming(m, Bodies, arrived)
           /\ m.sender \in (1..N) \ {Self} /\ m.receiver = None
           /\ m.body.kind \in {"Round1", "Round2"}
  BY PeerMessages DEF Network, Incoming

\* Every peer has one key, so there is one context to sign under.
LEMMA OneContext ==
    ASSUME Network, NEW c, KeysFrom(c, Self, N, Self, Message, arrived)
    PROVE  /\ c = Ctx(Message)
           /\ NoncesIn
  <1>1. ASSUME NEW k \in Peers
        PROVE  c.pks[k] = k /\ \E s \in {"this", "other"} : R1(k, s) \in arrived
    <2>1. PICK x \in arrived :
            x.sender = k /\ x.body.kind = "Round1" /\ x.body.key = c.pks[k]
      BY DEF KeysFrom, Peers
    <2>2. PICK s \in {"this", "other"} : x = R1(k, s)
      BY <2>1, PeerMessages DEF Network
    <2>. QED
      BY <2>1, <2>2 DEF R1, Broadcast, Round1Body
  <1>2. c.pks = [k \in 1..N |-> k]
    BY <1>1 DEF KeysFrom, Peers
  <1>3. c = [pks |-> c.pks, message |-> Message]
    BY DEF KeysFrom
  <1>. QED
    BY <1>1, <1>2, <1>3 DEF Ctx, NoncesIn

\* A share of a peer under this context came with that peer's message.
LEMMA ShareCameIn ==
    ASSUME Network, SharesFrom(Ctx(Message), N, Self, arrived)
    PROVE  SharesIn
  <1> SUFFICES ASSUME NEW p \in Peers PROVE R2(p, "this") \in arrived
    BY DEF SharesIn
  <1>1. PICK x \in arrived : x.body = Share(p, Ctx(Message))
    BY DEF SharesFrom, Ctx, Peers
  <1>2. PICK s \in {"this", "other"} : x = R2(x.sender, s)
    BY <1>1, PeerMessages DEF Network, Share
  <1>3. x.sender = p /\ Ctx(SignedIn(s)) = Ctx(Message)
    BY <1>1, <1>2 DEF R2, Broadcast, Share
  <1>4. s = "this"
    BY <1>3, MessageAssumption DEF Ctx, SignedIn
  <1>. QED
    BY <1>1, <1>2, <1>3, <1>4

LEMMA OwnMessagesDiffer == MyNonces # MyShare
  BY DEF MyNonces, MyShare, R1, R2, Broadcast, Round1Body, Share

\* What the instance is when it is in order.
LEMMA InstancesOK ==
    ASSUME Network, NEW S, NEW st,
           InstOK(st, Self, N, Self, Message, Bodies, arrived, S)
    PROVE  st \in Instances /\ st # None
  <1> USE NoneHere
  <1>1. /\ st = [f \in Fields |-> st[f]]
        /\ st.party_i = Self /\ st.party_n = N /\ st.key = Self /\ st.message = Message
        /\ st.round \in Rounds
    BY DEF InstOK, Shaped
  <1>2. /\ Store = StoresOf(Self, N, Bodies)
        /\ \A kind, store : StoreOK(store, Self, N, kind, Bodies, arrived) =>
             store \in Store
    BY StoreNotNone DEF Store, StoresOf, Bodies, StoreOK
  <1>3. st.msgs1 \in Store \cup {None} /\ st.msgs2 \in Store \cup {None}
    BY <1>2 DEF InstOK
  <1>4. ASSUME NEW c, Done(st, c, Self, N, Self, Message, arrived, S)
        PROVE  /\ c = Ctx(Message)
               /\ st.msgs_queue \in Seq({MyNonces, MyShare})
    <2>1. c = Ctx(Message)
      BY <1>4, OneContext DEF Done
    <2>2. /\ Nonces(Self, Self, Message) = MyNonces
          /\ OwnShare(Self, Self, c) = MyShare
      BY <2>1 DEF Nonces, OwnShare, MyNonces, MyShare, R1, R2, SignedIn
    <2>3. /\ << MyNonces, MyShare >> \in Seq({MyNonces, MyShare})
          /\ << MyShare >> \in Seq({MyNonces, MyShare})
          /\ << >> \in Seq({MyNonces, MyShare})
      OBVIOUS
    <2>. QED
      BY <1>4, <2>1, <2>2, <2>3 DEF Done, BothOut
  <1>5. st.msgs_queue \in Seq({MyNonces, MyShare})
    <2>1. /\ Nonces(Self, Self, Message) = MyNonces
          /\ << MyNonces >> \in Seq({MyNonces, MyShare})
          /\ << >> \in Seq({MyNonces, MyShare})
      BY DEF Nonces, MyNonces, R1, SignedIn
    <2>2. Progress(st, Self, N, Self, Message, arrived, S)
      BY DEF InstOK
    <2>3. CASE st.round \in {"Prepare", "Round1"}
      BY <2>1, <2>2, <2>3 DEF Progress, OneOut
    <2>4. CASE st.round \notin {"Prepare", "Round1"}
      BY <1>1, <1>4, <2>2, <2>4 DEF Progress, Rounds
    <2>. QED
      BY <2>3, <2>4
  <1>6. st.ctx \in {None, Ctx(Message)}
    BY <1>4 DEF InstOK, Progress
  <1>7. st.result \in {None, Result}
    <2>1. CASE st.round # "Finished"
      BY <2>1 DEF InstOK
    <2>2. CASE st.round = "Finished"
      <3>1. /\ st.result.ctx = Ctx(Message)
            /\ st.result =
                 [ ctx |-> st.result.ctx,
                   shares |-> {Share(st.result.ctx.pks[k], st.result.ctx) : k \in 1..N} ]
        BY <1>4, <2>2 DEF InstOK, Progress
      <3>2. {Share(Ctx(Message).pks[k], Ctx(Message)) : k \in 1..N}
              = {Share(k, Ctx(Message)) : k \in 1..N}
        BY DEF Ctx
      <3>. QED
        BY <3>1, <3>2 DEF Result
    <2>. QED
      BY <2>1, <2>2
  <1>8. st \in Instances
    BY <1>1, <1>3, <1>5, <1>6, <1>7 DEF Instances, Fields, Rounds, MyNonces, MyShare
  <1>. QED
    BY <1>8

\* The queue of an instance in order continues what was sent.
LEMMA SendsInOrder ==
    ASSUME Network, InOrder, NEW st, OK(st)
    PROVE  LET out == outgoing \o st.msgs_queue
           IN  /\ out \in {<< >>, << MyNonces >>, << MyNonces, MyShare >>}
               /\ {out[q] : q \in DOMAIN out} =
                    Out \cup {st.msgs_queue[q] : q \in DOMAIN st.msgs_queue}
               /\ MyShare \in {out[q] : q \in DOMAIN out} => NoncesIn
  <1> DEFINE queue == st.msgs_queue
             out == outgoing \o queue
             None0 == << >>
             One == << MyNonces >>
             Two == << MyNonces, MyShare >>
             Last == << MyShare >>
  <1>1. /\ Nonces(Self, Self, Message) = MyNonces
        /\ OwnShare(Self, Self, Ctx(Message)) = MyShare
    BY DEF Nonces, OwnShare, MyNonces, MyShare, R1, R2, SignedIn
  <1>2. /\ {None0[q] : q \in DOMAIN None0} = {}
        /\ {One[q] : q \in DOMAIN One} = {MyNonces}
        /\ {Two[q] : q \in DOMAIN Two} = {MyNonces, MyShare}
        /\ {Last[q] : q \in DOMAIN Last} = {MyShare}
    <2>1. \A x : {<< x >>[q] : q \in DOMAIN << x >>} = {x}
      OBVIOUS
    <2>2. \A x, y : {<< x, y >>[q] : q \in DOMAIN << x, y >>} = {x, y}
      OBVIOUS
    <2>3. {None0[q] : q \in DOMAIN None0} = {}
      OBVIOUS
    <2>. QED
      BY <2>1, <2>2, <2>3
  <1>3. /\ None0 \o None0 = None0 /\ None0 \o One = One /\ None0 \o Two = Two
        /\ One \o None0 = One /\ Two \o None0 = Two
    OBVIOUS
  <1>4. One \o Last = Two
    <2>1. /\ One \in Seq({MyNonces, MyShare}) /\ Last \in Seq({MyNonces, MyShare})
          /\ Two \in Seq({MyNonces, MyShare}) /\ Len(Two) = 2 /\ Len(One) = 1 /\ Len(Last) = 1
      OBVIOUS
    <2>2. /\ One \o Last \in Seq({MyNonces, MyShare}) /\ Len(One \o Last) = 2
          /\ (One \o Last)[1] = MyNonces /\ (One \o Last)[2] = MyShare
      BY <2>1
    <2>3. Two[1] = MyNonces /\ Two[2] = MyShare
      OBVIOUS
    <2>4. \A j \in 1..Len(Two) : (One \o Last)[j] = Two[j]
      BY <2>1, <2>2, <2>3
    <2>. QED
      BY <2>1, <2>2, <2>4, SeqEqual
  <1>5. \/ queue = None0
        \/ outgoing = None0 /\ queue = One
        \/ NoncesIn /\ \/ outgoing = None0 /\ queue = Two
                       \/ outgoing = One /\ queue = Last
    <2>1. /\ outgoing \in {None0, One, Two}
          /\ Out = {} => outgoing = None0
          /\ Out = {MyNonces} => outgoing = One
      BY <1>2, OwnMessagesDiffer DEF InOrder, Out
    <2>2. ASSUME NEW c, Done(st, c, Self, N, Self, Message, arrived, Out)
          PROVE  NoncesIn /\ BothOut(Out, queue, MyNonces, MyShare)
      <3>1. c = Ctx(Message) /\ NoncesIn
        BY <2>2, OneContext DEF Done
      <3>. QED
        BY <1>1, <2>2, <3>1 DEF Done
    <2>3. /\ Progress(st, Self, N, Self, Message, arrived, Out)
          /\ st.round \in Rounds
      BY DEF OK, InstOK, Shaped
    <2>4. CASE st.round = "Prepare"
      BY <2>3, <2>4 DEF Progress
    <2>5. CASE st.round = "Round1"
      BY <1>1, <2>1, <2>3, <2>5 DEF Progress, OneOut
    <2>6. CASE st.round \notin {"Prepare", "Round1"}
      <3>1. NoncesIn /\ BothOut(Out, queue, MyNonces, MyShare)
        BY <2>2, <2>3, <2>6 DEF Progress, Rounds
      <3>. QED
        BY <2>1, <3>1 DEF BothOut
    <2>. QED
      BY <2>4, <2>5, <2>6
  <1>6. outgoing \in {None0, One, Two} /\ (MyShare \in Out => NoncesIn)
    BY DEF InOrder
  <1> DEFINE Of(q) == {q[j] : j \in DOMAIN q}
  <1>7. Of(None0) = {} /\ Of(One) = {MyNonces} /\ Of(Two) = {MyNonces, MyShare}
        /\ Of(Last) = {MyShare} /\ Out = Of(outgoing)
    BY <1>2 DEF Out
  <1>8. /\ out \in {None0, One, Two} /\ Of(out) = Out \cup Of(queue)
        /\ MyShare \in Of(out) => NoncesIn
    <2> HIDE DEF queue, None0, One, Two, Last, Of
    <2>1. CASE queue = None0
      BY <1>3, <1>6, <1>7, <2>1
    <2>2. CASE outgoing = None0 /\ queue = One
      BY <1>3, <1>7, <2>2, OwnMessagesDiffer
    <2>3. CASE NoncesIn /\ outgoing = None0 /\ queue = Two
      BY <1>3, <1>7, <2>3
    <2>4. CASE NoncesIn /\ outgoing = One /\ queue = Last
      BY <1>4, <1>7, <2>4
    <2>. QED
      BY <1>5, <2>1, <2>2, <2>3, <2>4
  <1>. QED
    BY <1>8

\* handle_incoming here: what has arrived is heard when it is read.
LEMMA ReceiveHears ==
    ASSUME Network, NEW st, OK(st), NEW m \in arrived,
           NEW kind \in {"Round1", "Round2"}, NEW p \in (1..N) \ {Self}
    PROVE  Heard(HandleIncoming(st, m), kind, p) <=>
             Heard(st, kind, p) \/ (kind = m.body.kind /\ p = m.sender)
  <1>1. InstOK(st, Self, N, Self, Message, Bodies, arrived, Out)
    BY DEF OK
  <1>2. /\ Incoming(m, Bodies, arrived)
        /\ m.sender \in (1..N) \ {Self} /\ m.receiver = None
    BY ArrivedComesIn
  <1>. QED
    BY <1>1, <1>2, NoneHere, HandleIncomingHears
-----------------------------------------------------------------------------
LEMMA InitIInv == Init => IInv
  <1> SUFFICES ASSUME Init PROVE IInv
    OBVIOUS
  <1>1. Out = {} /\ Network
    <2>1. << >> \in Seq(arrived) /\ Len(<< >>) <= Capacity /\ DOMAIN << >> = {}
      BY CapacityAssumption
    <2>2. incoming = << >> /\ outgoing = << >> /\ lagged = FALSE /\ arrived = {}
      BY DEF Init
    <2>3. Network
      BY <2>1, <2>2 DEF Network
    <2>4. Out = {}
      BY <2>1, <2>2 DEF Out
    <2>. QED
      BY <2>3, <2>4
  <1>2. OK(state) /\ state # None
    BY <1>1, NewInstanceOK, NoneHere, InstancesOK DEF Init, OK
  <1>3. Places
    BY <1>2 DEF Init, Places, NewInstance
  <1>4. Timer
    BY DEF Init, Timer, NewInstance
  <1>5. Waiting /\ InOrder /\ NothingLost /\ Ended
    BY <1>1 DEF Init, Waiting, InOrder, NothingLost, Ended, BlamesTheSilent
  <1>. QED
    BY <1>1, <1>3, <1>4, <1>5 DEF IInv

\* What refresh_timer leaves behind.
LEMMA RefreshTimerOK ==
    ASSUME IInv, NEW st, RefreshTimer(st), st.round \in Rounds,
           pc = "start" => st.round = "Prepare"
    PROVE  /\ current_round' = CurrentRound(st)
           /\ current_round' \in 0..3
           /\ deadline' = (current_round' = 2)
  <1>1. /\ CurrentRound(st) \in 0..3
        /\ HasTimeout(st) = (CurrentRound(st) = 2)
        /\ st.round = "Prepare" => CurrentRound(st) = 0
    BY DEF CurrentRound, HasTimeout, Rounds
  <1>2. CASE pc = "start"
    <2>1. CurrentRound(st) = 0 /\ HasTimeout(st) = FALSE
      <3>1. st.round = "Prepare"
        BY <1>2
      <3>. QED
        BY <1>1, <3>1 DEF HasTimeout
    <2>2. deadline = FALSE
      BY <1>2 DEF IInv, Timer
    <2>3. current_round' = CurrentRound(st) /\ deadline' = FALSE
      BY <2>1, <2>2 DEF RefreshTimer
    <2>4. current_round' \in 0..3 /\ current_round' # 2
      BY <2>1, <2>3
    <2>. QED
      BY <2>3, <2>4
  <1>3. CASE pc # "start"
    BY <1>1, <1>3 DEF RefreshTimer, IInv, Timer
  <1>. QED
    BY <1>2, <1>3

\* A timeout blames whoever no share has come from.
LEMMA TimeoutBlamesTheSilent ==
    ASSUME IInv, Timeout
    PROVE  TimeoutBlame(state) =
             {p \in Peers : \A s \in {"this", "other"} : R2(p, s) \notin arrived}
  <1> USE NoneHere
  <1>1. /\ state # None /\ OK(state) /\ state.round = "Round2" /\ pc = "receive"
        /\ incoming = << >> /\ ~lagged
    <2>1. /\ pc = "receive" /\ deadline /\ incoming = << >> /\ ~lagged
          /\ state # None /\ OK(state) /\ CurrentRound(state) = 2
      BY DEF Timeout, IInv, Places, Timer
    <2>2. state.round \in Rounds
      BY <2>1 DEF OK, InstOK, Shaped
    <2>. QED
      BY <2>1, <2>2 DEF CurrentRound, Rounds
  <1>2. /\ state.msgs2 # None
        /\ StoreOK(state.msgs2, Self, N, "Round2", Bodies, arrived)
        /\ state.party_i = Self
    BY <1>1 DEF OK, InstOK, Shaped
  <1>3. TimeoutBlame(state) = {p \in Peers : ~Heard(state, "Round2", p)}
    BY <1>1, BlamesUnheard DEF OK, Peers
  <1>4. ASSUME NEW p \in Peers
        PROVE  Heard(state, "Round2", p) <=> \E s \in {"this", "other"} : R2(p, s) \in arrived
    <2>1. ASSUME NEW s \in {"this", "other"}, R2(p, s) \in arrived
          PROVE  Heard(state, "Round2", p)
      <3>1. R2(p, s).body.kind = "Round2" /\ R2(p, s).sender = p
        BY DEF R2, Broadcast, Share
      <3>2. ~Unread(R2(p, s))
        BY <1>1 DEF Unread
      <3>. QED
        BY <1>1, <2>1, <3>1, <3>2 DEF IInv, NothingLost, Instance
    <2>2. ASSUME Heard(state, "Round2", p)
          PROVE  \E s \in {"this", "other"} : R2(p, s) \in arrived
      <3>1. PartyJ(Self, p) \in 1..(N - 1) /\ SlotParty(Self, PartyJ(Self, p)) = p
        BY SlotOfParty DEF Peers
      <3>2. state.msgs2.msgs[PartyJ(Self, p)] # None
        BY <1>2, <2>2 DEF Heard, StoreOfKind
      <3>3. Came(state.msgs2.msgs[PartyJ(Self, p)], "Round2", p, arrived)
        BY <1>2, <3>1, <3>2 DEF StoreOK
      <3>4. PICK x \in arrived : x.sender = p /\ x.body.kind = "Round2"
        BY <3>3 DEF Came
      <3>. QED
        BY <3>4, PeerMessages DEF IInv, Network
    <2>. QED
      BY <2>1, <2>2
  <1>. QED
    BY <1>3, <1>4

LEMMA NextIInv == IInv /\ [Next]_vars => IInv'
  <1> SUFFICES ASSUME IInv, [Next]_vars PROVE IInv'
    OBVIOUS
  <1> USE NoneHere
  <1>a. /\ state # None => OK(state)
        /\ task # None => OK(task)
        /\ Network /\ InOrder
    BY DEF IInv, Places
  <1>1. CASE Start
    <2>1. state # None /\ state.round = "Prepare" /\ pc = "start" /\ pc' = "proceed"
      BY <1>1 DEF Start, IInv, Places, Timer
    <2>2. current_round' \in 0..3 /\ deadline' = (current_round' = 2)
      BY <1>1, <2>1, RefreshTimerOK DEF Start, Rounds
    <2>3. /\ Out' = Out /\ Network' /\ InOrder'
          /\ UNCHANGED <<state, task, outcome, incoming, lagged, arrived>>
      BY <1>1 DEF Start, channel, Out, IInv, Network, InOrder, NoncesIn
    <2>4. Places'
      BY <2>1, <2>3 DEF IInv, Places, OK
    <2>5. NothingLost'
      BY <2>1, <2>3 DEF IInv, NothingLost, Instance, Unread
    <2>. QED
      BY <2>1, <2>2, <2>3, <2>4, <2>5 DEF IInv, Timer, Waiting, Ended, BlamesTheSilent
  <1>2. CASE ProceedIfNeeded
    <2>1. /\ Out' = Out /\ Network' /\ InOrder'
          /\ UNCHANGED <<deadline, current_round, outcome, incoming, lagged, arrived>>
          /\ pc = "proceed" /\ pc' \in {"blocking", "flush"}
      BY <1>2 DEF ProceedIfNeeded, channel, Out, IInv, Network, InOrder, NoncesIn
    <2>2. Places'
      BY <1>2, <2>1 DEF ProceedIfNeeded, IInv, Places, OK
    <2>3. Instance' = Instance
      BY <1>2, <2>1 DEF ProceedIfNeeded, Instance
    <2>4. NothingLost'
      BY <2>1, <2>3 DEF IInv, NothingLost, Unread
    <2>5. Waiting'
      <3>1. OK(state) /\ state.round # "Gone"
        BY <1>2 DEF ProceedIfNeeded, IInv, Places
      <3>2. state.round \in Rounds
        BY <3>1 DEF OK, InstOK, Shaped
      <3>3. pc' = "flush" => state' = state /\ ~WantsToProceed(state)
        BY <1>2 DEF ProceedIfNeeded
      <3>. QED
        BY <2>1, <3>1, <3>2, <3>3 DEF Waiting, Settled, Rounds, WantsToProceed
    <2>. QED
      BY <2>1, <2>2, <2>4, <2>5 DEF IInv, Timer, Ended, BlamesTheSilent, SharesIn
  <1>3. CASE BlockingDone
    <2> DEFINE t == Proceed(task)
    <2>1. /\ Out' = Out /\ Network' /\ InOrder'
          /\ UNCHANGED <<deadline, current_round, incoming, lagged, arrived>>
          /\ pc = "blocking" /\ pc' \in {"done", "flush"}
      BY <1>3 DEF BlockingDone, Return, channel, Out, IInv, Network, InOrder, NoncesIn
    <2>2. OK(task)
      BY <1>a, <2>1 DEF IInv, Places
    <2>3. OK(t) /\ t # None
      <3>1. OK(t)
        BY <2>2, ProceedRoundOK DEF OK, Proceed
      <3>. QED
        BY <1>a, <3>1, InstancesOK DEF OK
    <2>4. Places'
      BY <1>3, <2>1, <2>3 DEF BlockingDone, IInv, Places, OK, Return, Panicked
    <2>5. Ended'
      BY <1>3, <2>1 DEF BlockingDone, IInv, Ended, Return, Results, BlamesTheSilent
    <2>6. Timer'
      BY <1>3, <2>1 DEF BlockingDone, IInv, Timer
    <2>7. Waiting'
      <3>1. ~Panicked(t) => Settled(t)
        BY <2>2, ProceedSettles DEF OK, Proceed
      <3>. QED
        BY <1>3, <2>1, <3>1 DEF BlockingDone, Return, Waiting
    <2>8. NothingLost'
      <3>1. ASSUME NEW m \in arrived
            PROVE  Heard(t, m.body.kind, m.sender) <=> Heard(task, m.body.kind, m.sender)
        <4>1. m.sender \in (1..N) \ {Self}
          BY <1>a, ArrivedComesIn
        <4>2. ASSUME NEW kind, NEW p \in (1..N) \ {Self}
              PROVE  Heard(ProceedRound(task, TRUE), kind, p) <=> Heard(task, kind, p)
          BY <2>2, ProceedHears DEF OK
        <4>. QED
          BY <4>1, <4>2 DEF Proceed
      <3>2. pc' # "done" => Instance' = t
        BY <1>3, <2>1 DEF BlockingDone, Return, Instance
      <3>. QED
        BY <2>1, <3>1, <3>2 DEF IInv, NothingLost, Instance, Unread
    <2>. QED
      BY <2>1, <2>4, <2>5, <2>6, <2>7, <2>8 DEF IInv
  <1>4. CASE Flush \/ Reply
    <2> DEFINE d == Drained(state)
    <2>1. /\ state # None /\ OK(state) /\ pc \in {"flush", "reply"}
          /\ state.round # "Gone" /\ state.round \in Rounds
          /\ outgoing' = outgoing \o state.msgs_queue
          /\ task = None /\ task' = task
          /\ UNCHANGED <<incoming, lagged, arrived>>
          /\ RefreshTimer(state)
          /\ outcome = None
      BY <1>4 DEF Flush, Reply, IInv, Places, Ended, OK, InstOK, Shaped, channel
    <2>2. /\ Network' /\ InOrder'
          /\ Out' = Out \cup {state.msgs_queue[q] : q \in DOMAIN state.msgs_queue}
      <3>1. Network'
        BY <1>a, <2>1 DEF Network
      <3>2. NoncesIn' = NoncesIn
        BY <2>1 DEF NoncesIn
      <3>3. Out' = {outgoing'[q] : q \in DOMAIN outgoing'}
        BY DEF Out
      <3>4. /\ outgoing' \in {<< >>, << MyNonces >>, << MyNonces, MyShare >>}
            /\ Out' = Out \cup {state.msgs_queue[q] : q \in DOMAIN state.msgs_queue}
            /\ MyShare \in Out' => NoncesIn
        BY <1>a, <2>1, <3>3, SendsInOrder
      <3>. QED
        BY <3>1, <3>2, <3>4 DEF InOrder, MyNonces, MyShare, R1, R2
    <2>3. InstOK(d, Self, N, Self, Message, Bodies, arrived, Out')
      BY <2>1, <2>2, DrainOK DEF OK, Drained
    <2>4. d # None
      BY <1>a, <2>3, InstancesOK
    <2>5. /\ d.round = state.round /\ d.result = state.result
          /\ d.msgs1 = state.msgs1 /\ d.msgs2 = state.msgs2
          /\ d.party_i = state.party_i /\ d.msgs_queue = << >>
      BY <2>1 DEF OK, InstOK, Shaped, Fields, Drained
    <2>6. /\ current_round' = CurrentRound(state)
          /\ current_round' \in 0..3
          /\ deadline' = (current_round' = 2)
      BY <2>1, RefreshTimerOK
    <2>7. CurrentRound(d) = CurrentRound(state)
      BY <2>5 DEF CurrentRound
    <2>8. CASE Reply \/ ~IsFinished(state)
      <3>1. state' = d /\ outcome' = None
            /\ \/ pc' = "proceed"
               \/ pc' = "receive" /\ pc = "flush" /\ state.round # "Finished"
        BY <1>4, <2>1, <2>8 DEF Flush, Reply, IsFinished
      <3>2. Places'
        BY <2>1, <2>3, <2>4, <2>5, <3>1 DEF Places, OK
      <3>3. NothingLost'
        BY <2>1, <2>5, <3>1 DEF IInv, NothingLost, Unread, Instance, Heard, StoreOfKind
      <3>4. Waiting'
        BY <2>5, <3>1 DEF IInv, Waiting, Settled, WantsToProceed
      <3>. QED
        BY <2>1, <2>2, <2>6, <2>7, <3>1, <3>2, <3>3, <3>4
           DEF IInv, Timer, Ended, BlamesTheSilent
    <2>9. CASE Flush /\ IsFinished(state)
      <3>1. /\ pc' = "done"
            /\ outcome' = [tag |-> "Ok", result |-> state.result]
            /\ state' = PickOutput(d)
        BY <2>9 DEF Flush, Return
      <3>2. InstOK(PickOutput(d), Self, N, Self, Message, Bodies, arrived, Out')
        BY <2>3, <2>5, <2>9, PickOutputOK DEF IsFinished
      <3>3. state.result = Result /\ SharesIn
        <4>1. /\ Done(state, state.result.ctx, Self, N, Self, Message, arrived, Out)
              /\ state.result =
                   [ ctx |-> state.result.ctx,
                     shares |-> {Share(state.result.ctx.pks[k], state.result.ctx) :
                                   k \in 1..N} ]
              /\ SharesFrom(state.result.ctx, N, Self, arrived)
          BY <2>1, <2>9 DEF OK, InstOK, Progress, IsFinished
        <4>2. state.result.ctx = Ctx(Message)
          BY <1>a, <4>1, OneContext DEF Done
        <4>3. {Share(Ctx(Message).pks[k], Ctx(Message)) : k \in 1..N}
                = {Share(k, Ctx(Message)) : k \in 1..N}
          BY DEF Ctx
        <4>. QED
          BY <1>a, <4>1, <4>2, <4>3, ShareCameIn DEF Result
      <3>4. Ended'
        BY <2>1, <3>1, <3>3 DEF Ended, Results, SharesIn, BlamesTheSilent
      <3>5. Places'
        BY <2>1, <3>1, <3>2 DEF Places, OK
      <3>. QED
        BY <2>2, <2>6, <3>1, <3>4, <3>5 DEF IInv, Timer, Waiting, NothingLost
    <2>. QED
      BY <1>4, <2>8, <2>9
  <1>5. CASE Receive
    <2> DEFINE m == Head(incoming)
               h == HandleIncoming(state, m)
    <2>1. /\ state # None /\ OK(state) /\ task = None /\ Settled(state)
          /\ m \in arrived /\ incoming # << >> /\ ~lagged
          /\ incoming' \in Seq(arrived) /\ Len(incoming') <= Capacity
          /\ Out' = Out
      BY <1>a, <1>5, CapacityAssumption
         DEF Receive, IInv, Places, Network, Waiting, Out
    <2>2. /\ Incoming(m, Bodies, arrived)
          /\ m.sender \in (1..N) \ {Self} /\ m.receiver = None
      BY <1>a, <2>1, ArrivedComesIn
    <2>3. OK(h) /\ h # None
      BY <1>a, <2>1, <2>2, HandleIncomingOK, InstancesOK DEF OK
    <2>4. /\ state' = h /\ task' = task /\ pc = "receive"
          /\ pc' = "done" \/ (pc' = "reply" /\ ~Panicked(h))
          /\ UNCHANGED <<deadline, current_round, outgoing, lagged, arrived>>
      BY <1>5 DEF Receive, Return
    <2>5. Places'
      BY <2>1, <2>3, <2>4 DEF Places, OK, Panicked
    <2>6. Ended'
      BY <1>5 DEF Receive, IInv, Ended, Return, Results, HandleResult, IsCritical,
                  BlamesTheSilent
    <2>7. NothingLost'
      <3> SUFFICES ASSUME NEW x \in arrived, pc' # "done"
                   PROVE  Unread(x)' \/ Heard(h, x.body.kind, x.sender)
        BY <2>4 DEF NothingLost, Instance
      <3>1. /\ x.sender \in (1..N) \ {Self} /\ x.body.kind \in {"Round1", "Round2"}
        BY <1>a, ArrivedComesIn
      <3>2. Heard(h, x.body.kind, x.sender) <=>
              \/ Heard(state, x.body.kind, x.sender)
              \/ x.body.kind = m.body.kind /\ x.sender = m.sender
        <4>1. ASSUME NEW kind \in {"Round1", "Round2"}, NEW p \in (1..N) \ {Self}
              PROVE  Heard(h, kind, p) <=>
                       Heard(state, kind, p) \/ (kind = m.body.kind /\ p = m.sender)
          BY <1>a, <2>1, ReceiveHears
        <4>. QED
          BY <3>1, <4>1
      <3>3. Unread(x) => Unread(x)' \/ x = m
        <4>1. incoming \in Seq(arrived) /\ incoming' = Tail(incoming)
          BY <1>a, <1>5 DEF Receive, Network
        <4>2. ASSUME NEW q \in DOMAIN incoming, incoming[q] = x, q # 1
              PROVE  q - 1 \in DOMAIN incoming' /\ incoming'[q - 1] = x
          BY <2>1, <4>1, <4>2
        <4>3. m = incoming[1]
          BY <2>1, <4>1
        <4>. QED
          BY <4>1, <4>2, <4>3 DEF Unread
      <3>4. Unread(x) \/ Heard(state, x.body.kind, x.sender)
        BY <2>1, <2>4 DEF IInv, NothingLost, Instance
      <3>. QED
        BY <3>2, <3>3, <3>4
    <2>. QED
      BY <1>a, <2>1, <2>4, <2>5, <2>6, <2>7
         DEF IInv, Timer, Network, Waiting, InOrder, NoncesIn
  <1>6. CASE ReceiveLagged \/ Timeout
    <2>1. /\ Out' = Out
          /\ pc' = "done" /\ pc = "receive"
          /\ UNCHANGED <<state, task, deadline, current_round, outgoing, incoming, lagged, arrived>>
      BY <1>6 DEF ReceiveLagged, Timeout, Return, channel, Out
    <2>2. Places'
      BY <2>1 DEF IInv, Places, OK
    <2>3. Ended'
      <3>1. CASE ReceiveLagged
        BY <3>1 DEF ReceiveLagged, Return, Results, Ended, BlamesTheSilent
      <3>2. CASE Timeout
        <4>1. /\ outcome' = [tag |-> "HandleIncomingTimeout", blamed |-> TimeoutBlame(state)]
              /\ TimeoutBlame(state) =
                   {p \in Peers : \A s \in {"this", "other"} : R2(p, s) \notin arrived}
          BY <3>2, TimeoutBlamesTheSilent DEF Timeout, Return
        <4>. QED
          BY <2>1, <4>1 DEF Ended, Results, BlamesTheSilent
      <3>. QED
        BY <1>6, <3>1, <3>2
    <2>. QED
      BY <2>1, <2>2, <2>3
         DEF IInv, Timer, Network, Waiting, InOrder, NoncesIn, NothingLost
  <1>7. ASSUME NEW m \in PeersSent, Arrive(m) PROVE IInv'
    <2>1. m \in Messages /\ m.sender \in Peers
      BY StreamsAssumption DEF PeersSent, Messages, R1, R2, Broadcast, Peers
    <2>2. /\ arrived' = arrived \cup {m} /\ pc # "done" /\ Out' = Out
          /\ UNCHANGED <<pc, state, task, deadline, current_round, outgoing, outcome>>
          /\ lagged' \in BOOLEAN
          /\ incoming' \in Seq(arrived') /\ Len(incoming') <= Capacity
          /\ lagged' \/ (lagged' = lagged /\ incoming' = Append(incoming, m))
      <3>1. /\ incoming \in Seq(arrived \cup {m})
            /\ Len(incoming) <= Capacity /\ lagged \in BOOLEAN
        BY <1>a DEF Network
      <3>2. /\ arrived' = arrived \cup {m} /\ pc # "done" /\ Out' = Out
            /\ UNCHANGED <<pc, state, task, deadline, current_round, outgoing, outcome>>
        BY <1>7 DEF Arrive, runner, Out
      <3>3. CASE Len(incoming) < Capacity
        <4>1. incoming' = Append(incoming, m) /\ lagged' = lagged
          BY <1>7, <3>3 DEF Arrive
        <4>2. /\ Append(incoming, m) \in Seq(arrived \cup {m})
              /\ Len(Append(incoming, m)) <= Capacity
          BY <3>1, <3>3, CapacityAssumption
        <4>. QED
          BY <3>1, <3>2, <4>1, <4>2
      <3>4. CASE ~(Len(incoming) < Capacity)
        <4>1. incoming # << >> /\ Len(incoming) = Capacity
          BY <3>1, <3>4, CapacityAssumption
        <4>2. /\ Tail(incoming) \in Seq(arrived \cup {m})
              /\ Len(Tail(incoming)) = Capacity - 1
          BY <3>1, <4>1
        <4>3. incoming' = Append(Tail(incoming), m) /\ lagged' = TRUE
          BY <1>7, <3>4 DEF Arrive
        <4>4. /\ Append(Tail(incoming), m) \in Seq(arrived \cup {m})
              /\ Len(Append(Tail(incoming), m)) <= Capacity
          BY <4>2, CapacityAssumption
        <4>. QED
          BY <3>2, <4>3, <4>4
      <3>. QED
        BY <3>3, <3>4
    <2>3. ASSUME NEW st, OK(st) PROVE OK(st)'
      <3>1. InstOK(st, Self, N, Self, Message, Bodies, arrived', Out)
        BY <2>2, <2>3, InstOKGrows DEF OK
      <3>. QED
        BY <2>2, <3>1 DEF OK
    <2>4. Places'
      <3>1. /\ state' # None => OK(state)'
            /\ task' # None => OK(task)'
        BY <1>a, <2>2, <2>3 DEF OK
      <3>. QED
        BY <2>2, <3>1 DEF IInv, Places
    <2>5. Network'
      BY <1>a, <2>1, <2>2 DEF Network
    <2>6. NothingLost'
      <3> SUFFICES ASSUME NEW x \in arrived \cup {m}, ~lagged'
                   PROVE  Unread(x)' \/ Heard(Instance, x.body.kind, x.sender)
        BY <2>2 DEF NothingLost, Instance
      <3>1. ~lagged /\ incoming' = Append(incoming, m) /\ incoming \in Seq(arrived)
        BY <1>a, <2>2 DEF Network
      <3>2. CASE x = m
        <4>1. Len(incoming) + 1 \in DOMAIN incoming' /\ incoming'[Len(incoming) + 1] = m
          BY <3>1
        <4>. QED
          BY <3>2, <4>1 DEF Unread
      <3>3. CASE x # m
        <4>1. Unread(x) => Unread(x)'
          BY <3>1 DEF Unread
        <4>. QED
          BY <2>2, <3>1, <3>3, <4>1 DEF IInv, NothingLost
      <3>. QED
        BY <3>2, <3>3
    <2>7. InOrder'
      BY <1>a, <2>2 DEF InOrder, NoncesIn
    <2>8. Timer' /\ Waiting'
      BY <2>2 DEF IInv, Timer, Waiting
    <2>9. Ended'
      BY <2>2 DEF IInv, Ended, BlamesTheSilent
    <2>. QED
      BY <2>4, <2>5, <2>6, <2>7, <2>8, <2>9 DEF IInv
  <1>8. CASE UNCHANGED vars
    <2>1. Out' = Out /\ Instance' = Instance
      BY <1>8 DEF vars, runner, Out, Instance
    <2>2. Places' /\ Timer' /\ Network' /\ Waiting' /\ InOrder' /\ Ended'
      BY <1>8, <2>1 DEF vars, runner, channel, IInv, Places, OK, Timer, Network,
           Waiting, InOrder, NoncesIn, Ended, SharesIn, BlamesTheSilent
    <2>3. NothingLost'
      BY <1>8, <2>1 DEF vars, runner, channel, IInv, NothingLost, Unread
    <2>. QED
      BY <2>2, <2>3 DEF IInv
  <1>. QED
    BY <1>1, <1>2, <1>3, <1>4, <1>5, <1>6, <1>7, <1>8 DEF Next, Run

LEMMA Inductive == Spec => []IInv
  BY InitIInv, NextIInv, PTL DEF Spec
-----------------------------------------------------------------------------
\* The executor, its channels and its instance keep their types.
THEOREM TypeCorrect == Spec => []TypeOK
  <1>1. IInv => TypeOK
    <2> SUFFICES ASSUME IInv PROVE TypeOK
      OBVIOUS
    <2>1. state \in Instances \cup {None} /\ task \in Instances \cup {None}
      BY InstancesOK DEF IInv, Places, OK
    <2>2. deadline \in BOOLEAN /\ current_round \in {None} \cup 0..3
      BY DEF IInv, Timer
    <2>3. outgoing \in Seq({R1(Self, "this"), R2(Self, "this")})
      <3>1. /\ << >> \in Seq({MyNonces, MyShare})
            /\ << MyNonces >> \in Seq({MyNonces, MyShare})
            /\ << MyNonces, MyShare >> \in Seq({MyNonces, MyShare})
        OBVIOUS
      <3>. QED
        BY <3>1 DEF IInv, InOrder, MyNonces, MyShare
    <2>. QED
      BY <2>1, <2>2, <2>3 DEF TypeOK, IInv, Places, Network, Ended
  <1>. QED
    BY <1>1, Inductive, PTL

\* proceed_if_needed always finds the instance it moves out, and puts it back.
THEOREM InstanceIsThere == Spec => []NeverMissing
  <1>1. IInv => NeverMissing
    BY DEF IInv, Places, NeverMissing
  <1>. QED
    BY <1>1, Inductive, PTL

\* run() never waits under the deadline of a round that is over.
THEOREM DeadlineIsCurrent == Spec => []DeadlineOfThisRound
  <1>1. IInv => DeadlineOfThisRound
    <2> SUFFICES ASSUME IInv, pc = "receive"
                 PROVE  /\ current_round = CurrentRound(state)
                        /\ deadline <=> state.round = "Round2"
      BY DEF DeadlineOfThisRound
    <2>1. /\ current_round = CurrentRound(state)
          /\ deadline = (current_round = 2)
      BY DEF IInv, Timer
    <2>2. CurrentRound(state) = 2 <=> state.round = "Round2"
      BY DEF IInv, Places, OK, InstOK, Shaped, Rounds, CurrentRound
    <2>. QED
      BY <2>1, <2>2
  <1>. QED
    BY <1>1, Inductive, PTL

\* However messages of two signings mix, a returned signature is of this
\* message under all parties' keys, and every share in it came from its party.
THEOREM SignatureIsOurs == Spec => []SignatureIsOfThisSigning
  <1>1. IInv => SignatureIsOfThisSigning
    BY DEF IInv, Ended, SharesIn, Result, SignatureIsOfThisSigning
  <1>. QED
    BY <1>1, Inductive, PTL

\* run() waits for a message only when its round lacks one and everything it
\* has to say is out.
THEOREM WaitsForAReason == Spec => []WaitsForSomething
  <1>1. IInv => WaitsForSomething
    <2> SUFFICES ASSUME IInv, pc = "receive"
                 PROVE  /\ state.msgs_queue = << >>
                        /\ state.round \in {"Round1", "Round2"}
                        /\ WantsMore(IF state.round = "Round1" THEN state.msgs1
                                     ELSE state.msgs2)
      BY DEF WaitsForSomething
    <2>1. /\ Settled(state) /\ state.round # "Finished" /\ state.msgs_queue = << >>
      BY DEF IInv, Waiting
    <2>. QED
      BY <2>1 DEF Settled, WantsToProceed, StoreWantsMore
  <1>. QED
    BY <1>1, Inductive, PTL

\* No share leaves before the own nonces and those of every other party.
THEOREM BarrierHolds == Spec => []ShareAfterAllNonces
  <1>1. IInv => ShareAfterAllNonces
    <2> SUFFICES ASSUME IInv PROVE ShareAfterAllNonces
      OBVIOUS
    <2>1. /\ Len(<< >>) = 0 /\ Len(<< MyNonces >>) = 1 /\ << MyNonces, MyShare >>[2] = MyShare
          /\ 2 \in DOMAIN << MyNonces, MyShare >>
      OBVIOUS
    <2>2. Len(outgoing) = 2 => NoncesIn
      BY <2>1 DEF IInv, InOrder, Out
    <2>. QED
      BY <2>2 DEF ShareAfterAllNonces, IInv, InOrder, NoncesIn, MyNonces, MyShare
  <1>. QED
    BY <1>1, Inductive, PTL

\* The blame of a timeout is exact: the parties no share has come from.
THEOREM BlameIsExact == Spec => []BlamesTheSilent
  <1>1. IInv => BlamesTheSilent
    BY DEF IInv, Ended
  <1>. QED
    BY <1>1, Inductive, PTL
=============================================================================
