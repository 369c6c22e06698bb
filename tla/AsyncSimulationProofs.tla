----------------------- MODULE AsyncSimulationProofs -----------------------
(***************************************************************************)
(* Proofs about the asynchronous simulation: any number of parties, any    *)
(* messages, any capacity of the channel, any number of calls of run(),    *)
(* and parties that are added late or never.                               *)
(***************************************************************************)
EXTENDS AsyncSimulationProps, InstanceLemmas

Packets == {Broadcast(p, b) : p \in Party, b \in Bodies}

\* The messages party p has sent, and those of others it has read.
Own(p)  == {x \in Packets : x.sender = p /\ \E k \in DOMAIN log : log[k] = x}
Come(p) == {x \in Packets : x.sender # p /\ \E k \in 1..read[p] : log[k] = x}

InOrder(p) ==
    InstOK(inst[p], p, N, p, inst[p].message, Bodies, Come(p), Own(p))

\* The variables of the tasks that only hold what was put there.
Plain ==
    /\ status \in [Party -> Live \cup {"absent", "added", "done"}]
    /\ inst = [p \in Party |-> inst[p]]
    /\ \A p \in Party : inst[p].message \in Messages
    /\ outcome = [p \in Party |-> outcome[p]]
    /\ log \in Seq(Packets)
    /\ read \in [Party -> Nat]
    /\ \A p \in Party : read[p] <= Len(log)

\* A party sends its nonces once and its share once.
Once ==
    \A j, k \in DOMAIN log :
        log[j].sender = log[k].sender /\ log[j].body.kind = log[k].body.kind => j = k

\* What the executor has made of the instance where it is.
Phase(p) ==
    /\ status[p] \in {"absent", "added", "spawned"} =>
         inst[p] = NewInstance(p, N, p, inst[p].message)
    /\ status[p] \in {"flush", "finish", "receive"} => Settled(inst[p])
    /\ status[p] = "finish" => inst[p].round = "Finished"
    /\ status[p] = "receive" => inst[p].round # "Finished"

Tasks == /\ Plain /\ Once
         /\ \A p \in Party : InOrder(p) /\ Phase(p)

\* A sequence of whatever.
IsSeq(s) == Len(s) \in Nat /\ s = [k \in 1..Len(s) |-> s[k]]

\* The k-th party is done and `seq` has its outcome there.
Has(seq, k) == status[parties[k]] = "done" /\ seq[k] = outcome[parties[k]]

\* run() has awaited as many handles as it has results.
Awaiting ==
    /\ exhausted /\ answers = << >>
    /\ handles \in Seq(Party)
    /\ Len(results) + Len(handles) = Len(parties)
    /\ \A k \in 1..Len(handles) : handles[k] = parties[Len(results) + k]
    /\ \A k \in 1..Len(results) : Has(results, k)

Caller ==
    /\ exhausted \in BOOLEAN
    /\ parties \in Seq(Party) /\ IsSeq(results) /\ IsSeq(answers)
    /\ ~exhausted =>
         /\ handles = None /\ answers = << >>
         /\ \A p \in Party : status[p] \in {"absent", "added"}
    /\ exhausted /\ handles = None => answers # << >>
    /\ handles # None => Awaiting

IInv == Tasks /\ Caller
-----------------------------------------------------------------------------
(* Numbers and names.                                                      *)
\* Numbers of parties, and None.
LEMMA Numbers ==
    ASSUME NEW p \in Party
    PROVE  /\ N \in Nat \ {0} /\ p \in 1..N /\ p \in Nat
           /\ None \notin Bodies /\ NoneIsNone(p, N, Bodies)
  <1>1. N \in Nat \ {0} /\ p \in 1..N /\ p \in Nat
    BY NAssumption DEF Party
  <1>2. None \notin Bodies /\ NoneIsNone(p, N, Bodies)
    BY NoneAssumption DEF NoneIsNone, StoresOf
  <1>. QED
    BY <1>1, <1>2

\* What a message looks like.
LEMMA PacketShape ==
    ASSUME NEW m \in Packets
    PROVE  /\ m.sender \in Party /\ m.sender \in Nat /\ m.receiver = None
           /\ m.body \in Bodies /\ m = Broadcast(m.sender, m.body)
           /\ m.body.kind \in {"Round1", "Round2"}
           /\ m.body.key \in Party
  <1>1. PICK p \in Party, b \in Bodies : m = Broadcast(p, b)
    BY DEF Packets
  <1>2. b.kind \in {"Round1", "Round2"} /\ b.key \in Party
    BY DEF Bodies, Round1Body, Share
  <1>3. p \in Nat
    BY Numbers
  <1>. QED
    BY <1>1, <1>2, <1>3 DEF Broadcast

\* What a party has read can be handed to its instance.
LEMMA ComesIn ==
    ASSUME NEW p \in Party, NEW E, NEW m \in E, m \in Packets
    PROVE  Incoming(m, Bodies, E)
  BY PacketShape DEF Incoming

\* The keys of a context are those of parties.
LEMMA KeysAreParties ==
    ASSUME NEW p \in Party, NEW m \in Messages, NEW E, E \subseteq Packets,
           NEW c, KeysFrom(c, p, N, p, m, E)
    PROVE  c \in Contexts
  <1>1. /\ c = [pks |-> c.pks, message |-> m]
        /\ c.pks = [k \in 1..N |-> c.pks[k]]
        /\ c.pks[p] = p
    BY DEF KeysFrom
  <1>2. ASSUME NEW k \in 1..N PROVE c.pks[k] \in Party
    <2>1. CASE k = p
      BY <1>1, <2>1
    <2>2. CASE k # p
      <3>1. PICK x \in E : x.body.key = c.pks[k]
        BY <2>2 DEF KeysFrom
      <3>. QED
        BY <3>1, PacketShape
    <2>. QED
      BY <2>1, <2>2
  <1>3. c.pks \in [1..N -> Party]
    BY <1>1, <1>2
  <1>. QED
    BY <1>1, <1>3 DEF Contexts

\* What is in the queue is from p, typed, and of kinds that have not left yet.
LEMMA QueueIsFresh ==
    ASSUME NEW p \in Party, NEW m \in Messages, NEW E, E \subseteq Packets, NEW S, NEW u,
           InstOK(u, p, N, p, m, Bodies, E, S)
    PROVE  /\ u.msgs_queue \in Seq(Packets)
           /\ \A k \in DOMAIN u.msgs_queue :
                /\ u.msgs_queue[k].sender = p
                /\ \A x \in S : x.body.kind # u.msgs_queue[k].body.kind
           /\ \A j, k \in DOMAIN u.msgs_queue :
                u.msgs_queue[j].body.kind = u.msgs_queue[k].body.kind => j = k
  <1> DEFINE q == u.msgs_queue
             x1 == Nonces(p, p, m)
             Fresh(queue) ==
                /\ queue \in Seq(Packets)
                /\ \A k \in DOMAIN queue :
                     /\ queue[k].sender = p
                     /\ \A x \in S : x.body.kind # queue[k].body.kind
                /\ \A j, k \in DOMAIN queue :
                     queue[j].body.kind = queue[k].body.kind => j = k
  <1>1. x1 \in Packets /\ x1.sender = p /\ x1.body.kind = "Round1"
    <2>1. Round1Body(p, m) \in Bodies
      BY DEF Bodies
    <2>2. x1 \in Packets
      BY <2>1 DEF Nonces, Packets
    <2>. QED
      BY <2>2 DEF Nonces, Broadcast, Round1Body
  <1>2. ASSUME NEW c, KeysFrom(c, p, N, p, m, E)
        PROVE  LET y == OwnShare(p, p, c)
               IN  y \in Packets /\ y.sender = p /\ y.body.kind = "Round2"
    <2>1. Share(p, c) \in Bodies
      BY <1>2, KeysAreParties DEF Bodies
    <2>2. OwnShare(p, p, c) \in Packets
      BY <2>1 DEF OwnShare, Packets
    <2>. QED
      BY <2>2 DEF OwnShare, Broadcast, Share
  <1>3. Progress(u, p, N, p, m, E, S) /\ u.round \in Rounds
    BY DEF InstOK, Shaped
  <1>4. Fresh(<< >>)
    OBVIOUS
  <1>5. ASSUME NEW x \in Packets, x.sender = p,
               \A s \in S : s.body.kind # x.body.kind
        PROVE  Fresh(<< x >>)
    <2>1. << x >> \in Seq(Packets) /\ DOMAIN << x >> = {1} /\ << x >>[1] = x
      OBVIOUS
    <2>. QED
      BY <1>5, <2>1
  <1>6. CASE u.round \in {"Prepare", "Round1"}
    <2>1. q = << >> \/ (S = {} /\ q = << x1 >>)
      BY <1>3, <1>6 DEF Progress, OneOut
    <2>2. Fresh(<< >>) /\ (S = {} => Fresh(<< x1 >>))
      BY <1>1, <1>4, <1>5
    <2> HIDE DEF Fresh
    <2>3. Fresh(q)
      BY <2>1, <2>2
    <2>. QED
      BY <2>3 DEF Fresh
  <1>7. CASE u.round \notin {"Prepare", "Round1"}
    <2>1. PICK c : Done(u, c, p, N, p, m, E, S)
      BY <1>3, <1>7 DEF Progress, Rounds
    <2> DEFINE x2 == OwnShare(p, p, c)
    <2>2. KeysFrom(c, p, N, p, m, E) /\ BothOut(S, q, x1, x2)
      BY <2>1 DEF Done
    <2>3. x2 \in Packets /\ x2.sender = p /\ x2.body.kind = "Round2"
      BY <1>2, <2>2
    <2> HIDE DEF x1, x2
    <2>4. CASE S = {} /\ q = << x1, x2 >>
      <3>1. << x1, x2 >> \in Seq(Packets) /\ DOMAIN << x1, x2 >> = {1, 2}
            /\ << x1, x2 >>[1] = x1 /\ << x1, x2 >>[2] = x2
        BY <1>1, <2>3
      <3>2. \A j, k \in {1, 2} :
               << x1, x2 >>[j].body.kind = << x1, x2 >>[k].body.kind => j = k
        BY <1>1, <2>3, <3>1
      <3>. QED
        BY <1>1, <2>3, <2>4, <3>1, <3>2
    <2>5. CASE S = {x1} /\ q = << x2 >>
      BY <1>1, <1>5, <2>3, <2>5
    <2>6. CASE q = << >>
      BY <1>4, <2>6
    <2>. QED
      BY <2>2, <2>4, <2>5, <2>6 DEF BothOut
  <1>. QED
    BY <1>6, <1>7

\* Append, for a sequence of whatever.
LEMMA AppendAny ==
    ASSUME NEW s, IsSeq(s), NEW x
    PROVE  /\ IsSeq(Append(s, x)) /\ Len(Append(s, x)) = Len(s) + 1
           /\ \A k \in 1..Len(s) : Append(s, x)[k] = s[k]
           /\ Append(s, x)[Len(s) + 1] = x
  <1> DEFINE S == {s[k] : k \in 1..Len(s)} \cup {x}
             n == Len(s)
  <1>1. n \in Nat /\ s = [k \in 1..n |-> s[k]]
    BY DEF IsSeq
  <1>2. \A k \in 1..n : s[k] \in S
    OBVIOUS
  <1> HIDE DEF S, n
  <1>3. s \in Seq(S)
    BY <1>1, <1>2
  <1>4. x \in S
    BY DEF S
  <1> DEFINE t == Append(s, x)
  <1>5. t \in Seq(S) /\ Len(t) = n + 1 /\ DOMAIN t = 1..Len(t)
        /\ (\A k \in 1..n : t[k] = s[k]) /\ t[n + 1] = x
    BY <1>1, <1>3, <1>4 DEF n
  <1>6. t = [k \in 1..Len(t) |-> t[k]] /\ Len(t) \in Nat
    BY <1>1, <1>5
  <1>. QED
    BY <1>5, <1>6 DEF IsSeq, n

\* The empty list of answers or results.
LEMMA EmptyIsSeq == IsSeq(<< >>) /\ Len(<< >>) = 0
  BY DEF IsSeq
-----------------------------------------------------------------------------
(* What a task does to its instance.                                       *)
\* All instances are new at first.
LEMMA InitTasks == Init => Tasks
  <1> SUFFICES ASSUME Init PROVE Tasks
    OBVIOUS
  <1>1. PICK message \in [Party -> Messages] :
          inst = [p \in Party |-> NewInstance(p, N, p, message[p])]
    BY DEF Init
  <1>2. \A p \in Party : /\ inst[p] = NewInstance(p, N, p, message[p])
                         /\ inst[p].message = message[p] /\ message[p] \in Messages
    BY <1>1 DEF NewInstance
  <1>3. inst = [p \in Party |-> inst[p]]
    BY <1>1
  <1>4. log = << >> /\ log \in Seq(Packets) /\ Len(log) = 0 /\ DOMAIN log = {}
        /\ status = [p \in Party |-> "absent"] /\ outcome = [p \in Party |-> None]
        /\ read = [p \in Party |-> 0]
    BY DEF Init
  <1>5. Plain /\ Once
    BY <1>2, <1>3, <1>4 DEF Plain, Once
  <1>6. ASSUME NEW p \in Party PROVE InOrder(p) /\ Phase(p)
    <2>1. Own(p) = {}
      BY <1>4 DEF Own
    <2>2. InOrder(p)
      BY <1>2, <2>1, Numbers, NewInstanceOK DEF InOrder
    <2>. QED
      BY <1>2, <1>4, <2>2 DEF Phase
  <1>. QED
    BY <1>5, <1>6 DEF Tasks

\* A new instance goes from Prepare to where it has to wait, or to the end.
LEMMA BeginSettles ==
    ASSUME NEW p \in Party, NEW m
    PROVE  /\ ~Panicked(Proceed(NewInstance(p, N, p, m)))
           /\ Settled(Proceed(NewInstance(p, N, p, m)))
  <1> DEFINE u == NewInstance(p, N, p, m)
  <1>1. /\ N \in Nat \ {0} /\ p \in 1..N
        /\ None \notin Bodies /\ NoneIsNone(p, N, Bodies)
    BY Numbers
  <1>2. InstOK(u, p, N, p, m, Bodies, {}, {})
    BY <1>1, NewInstanceOK
  <1>3. SharesAgree(p, N, p, m, {})
    BY DEF SharesAgree, Came
  <1>4. ~Panicked(u)
    BY DEF NewInstance, Panicked
  <1>5. ~Panicked(ProceedRound(u, TRUE))
    BY <1>1, <1>2, <1>3, <1>4, AgreementNoPanic
  <1>6. Settled(ProceedRound(u, TRUE))
    BY <1>1, <1>2, <1>5, ProceedSettles
  <1>. QED
    BY <1>5, <1>6 DEF Proceed

\* A turn without a panic ends where the executor has to wait or is done.
LEMMA TurnSettles ==
    ASSUME NEW p \in Party, NEW m, NEW E, NEW S, NEW u,
           InstOK(u, p, N, p, m, Bodies, E, S), Settled(u),
           NEW msg, Incoming(msg, Bodies, E)
    PROVE  /\ InstOK(Turn(u, msg), p, N, p, m, Bodies, E, S)
           /\ ~Panicked(Turn(u, msg)) => Settled(Turn(u, msg))
  <1>1. /\ N \in Nat \ {0} /\ p \in 1..N
        /\ None \notin Bodies /\ NoneIsNone(p, N, Bodies)
    BY Numbers
  <1>2. InstOK(Turn(u, msg), p, N, p, m, Bodies, E, S)
    BY <1>1, TurnOK
  <1>3. Turn(u, msg) = HandleIncoming(u, msg)
    BY <1>1, TurnIsHandleIncoming
  <1>4. ~Panicked(HandleIncoming(u, msg)) => Settled(HandleIncoming(u, msg))
    BY <1>1, HandleIncomingSettles
  <1>. QED
    BY <1>2, <1>3, <1>4

\* The parties a step leaves alone; others may send to them.
LEMMA Untouched ==
    ASSUME NEW q \in Party, InOrder(q), Phase(q),
           inst'[q] = inst[q], status'[q] = status[q],
           Own(q)' = Own(q), Come(q) \subseteq Come(q)'
    PROVE  InOrder(q)' /\ Phase(q)'
  <1>1. InOrder(q)'
    BY InstOKGrows DEF InOrder
  <1>. QED
    BY <1>1 DEF Phase

\* Without a send, what was sent and what others have read is the same.
LEMMA NothingSent ==
    ASSUME Plain, log' = log
    PROVE  /\ \A q \in Party : Own(q)' = Own(q)
           /\ \A q \in Party : read'[q] = read[q] => Come(q)' = Come(q)
           /\ \A q \in Party : read'[q] \in Nat /\ read[q] <= read'[q]
                                 => Come(q) \subseteq Come(q)'
  <1>1. \A q \in Party : Own(q)' = Own(q)
    BY DEF Own
  <1>2. ASSUME NEW q \in Party, read'[q] \in Nat, read[q] <= read'[q]
        PROVE  Come(q) \subseteq Come(q)'
    <2>1. \A k \in 1..read[q] : k \in 1..read'[q]
      BY <1>2 DEF Plain
    <2>. QED
      BY <2>1 DEF Come
  <1>. QED
    BY <1>1, <1>2 DEF Come

\* Who has sent what after a Flush; nobody has read more.
LEMMA FlushSends ==
    ASSUME Plain, NEW p \in Party, NEW q \in Seq(Packets),
           \A k \in DOMAIN q : q[k].sender = p,
           log' = log \o q, read' = read
    PROVE  /\ log' \in Seq(Packets) /\ Len(log) <= Len(log')
           /\ \A t \in Party \ {p} : Own(t)' = Own(t)
           /\ Own(p)' = Own(p) \cup {q[k] : k \in DOMAIN q}
           /\ \A t \in Party : Come(t)' = Come(t)
  <1>1. log \in Seq(Packets) /\ Len(log) \in Nat /\ Len(q) \in Nat
        /\ DOMAIN log = 1..Len(log) /\ DOMAIN q = 1..Len(q)
    BY DEF Plain
  <1>2. log' \in Seq(Packets) /\ Len(log') = Len(log) + Len(q)
        /\ DOMAIN log' = 1..(Len(log) + Len(q))
    BY <1>1
  <1>3. \A k \in DOMAIN log : k \in DOMAIN log' /\ log'[k] = log[k]
    BY <1>1, <1>2
  <1>4. \A k \in DOMAIN q : Len(log) + k \in DOMAIN log' /\ log'[Len(log) + k] = q[k]
    BY <1>1, <1>2
  <1>5. ASSUME NEW k \in DOMAIN log'
        PROVE  \/ k \in DOMAIN log /\ log'[k] = log[k]
               \/ \E j \in DOMAIN q : log'[k] = q[j]
    <2>1. CASE k <= Len(log)
      BY <1>1, <1>2, <1>3, <2>1
    <2>2. CASE ~(k <= Len(log))
      <3> DEFINE j == k - Len(log)
      <3>1. j \in DOMAIN q /\ Len(log) + j = k
        BY <1>1, <1>2, <2>2
      <3>. QED
        BY <1>4, <3>1
    <2>. QED
      BY <2>1, <2>2
  <1>6. \A k \in DOMAIN q : q[k] \in Packets
    BY <1>1
  <1>7. ASSUME NEW t \in Party \ {p} PROVE Own(t)' = Own(t)
    BY <1>3, <1>5 DEF Own
  <1>8. Own(p)' = Own(p) \cup {q[k] : k \in DOMAIN q}
    <2>1. ASSUME NEW x \in Own(p)' PROVE x \in Own(p) \cup {q[k] : k \in DOMAIN q}
      <3>1. x \in Packets /\ x.sender = p
        BY DEF Own
      <3>2. PICK k \in DOMAIN log' : log'[k] = x
        BY DEF Own
      <3>. QED
        BY <1>5, <3>1, <3>2 DEF Own
    <2>2. ASSUME NEW x \in Own(p) PROVE x \in Own(p)'
      BY <1>3 DEF Own
    <2>3. ASSUME NEW k \in DOMAIN q PROVE q[k] \in Own(p)'
      BY <1>4, <1>6 DEF Own
    <2>. QED
      BY <2>1, <2>2, <2>3
  <1>9. ASSUME NEW t \in Party PROVE Come(t)' = Come(t)
    <2>1. read[t] \in Nat /\ read[t] <= Len(log)
      BY DEF Plain
    <2>2. \A k \in 1..read[t] : log'[k] = log[k]
      BY <1>1, <1>3, <2>1
    <2>. QED
      BY <2>2 DEF Come
  <1>. QED
    BY <1>1, <1>2, <1>7, <1>8, <1>9

\* A fresh queue repeats nothing.
LEMMA FlushOnce ==
    ASSUME Plain, Once, NEW p \in Party, NEW q \in Seq(Packets),
           \A k \in DOMAIN q : /\ q[k].sender = p
                               /\ \A x \in Own(p) : x.body.kind # q[k].body.kind,
           \A j, k \in DOMAIN q : q[j].body.kind = q[k].body.kind => j = k,
           log' = log \o q
    PROVE  Once'
  <1> DEFINE n == Len(log)
             new == log \o q
             Same(x, y) == x.sender = y.sender /\ x.body.kind = y.body.kind
  <1>1. log \in Seq(Packets) /\ n \in Nat /\ Len(q) \in Nat
        /\ DOMAIN log = 1..n /\ DOMAIN q = 1..Len(q)
    BY DEF Plain
  <1>2. DOMAIN new = 1..(n + Len(q))
        /\ (\A k \in 1..n : new[k] = log[k])
        /\ \A k \in 1..(n + Len(q)) : k > n => new[k] = q[k - n]
    BY <1>1
  <1>3. ASSUME NEW j \in 1..n, NEW k \in 1..Len(q) PROVE ~Same(log[j], q[k])
    <2>1. log[j] \in Packets /\ j \in DOMAIN log /\ k \in DOMAIN q
      BY <1>1
    <2>2. log[j].sender = p => log[j] \in Own(p)
      BY <2>1 DEF Own
    <2>3. q[k].sender = p /\ \A x \in Own(p) : x.body.kind # q[k].body.kind
      BY <2>1
    <2>. QED
      BY <2>2, <2>3
  <1> HIDE DEF new, n
  <1>4. ASSUME NEW j \in DOMAIN new, NEW k \in DOMAIN new, Same(new[j], new[k])
        PROVE  j = k
    <2>1. j \in Nat /\ k \in Nat /\ j <= n + Len(q) /\ k <= n + Len(q)
          /\ j >= 1 /\ k >= 1
      BY <1>1, <1>2
    <2>2. CASE j <= n /\ k <= n
      <3>1. j \in 1..n /\ k \in 1..n
        BY <1>1, <2>1, <2>2
      <3>. QED
        BY <1>1, <1>2, <1>4, <3>1 DEF Once
    <2>3. CASE j <= n /\ k > n
      <3>1. j \in 1..n /\ k - n \in 1..Len(q) /\ new[k] = q[k - n] /\ new[j] = log[j]
        BY <1>1, <1>2, <2>1, <2>3
      <3>. QED
        BY <1>3, <1>4, <3>1
    <2>4. CASE j > n /\ k <= n
      <3>1. k \in 1..n /\ j - n \in 1..Len(q) /\ new[j] = q[j - n] /\ new[k] = log[k]
        BY <1>1, <1>2, <2>1, <2>4
      <3>. QED
        BY <1>3, <1>4, <3>1
    <2>5. CASE j > n /\ k > n
      <3>1. j - n \in 1..Len(q) /\ k - n \in 1..Len(q)
            /\ new[j] = q[j - n] /\ new[k] = q[k - n]
        BY <1>1, <1>2, <2>1, <2>5
      <3>2. j - n = k - n
        BY <1>1, <1>4, <3>1
      <3>. QED
        BY <1>1, <2>1, <3>2
    <2>. QED
      BY <1>1, <2>1, <2>2, <2>3, <2>4, <2>5
  <1>. QED
    BY <1>4 DEF Once, new
-----------------------------------------------------------------------------
(* The steps of the task of party p.                                       *)
\* A task touches nothing of the caller and of the other parties.
LEMMA TaskFrame ==
    ASSUME Plain, NEW p \in Party, Step(p)
    PROVE  /\ UNCHANGED caller
           /\ status[p] \in Live
           /\ \A q \in Party \ {p} :
                /\ status'[q] = status[q] /\ inst'[q] = inst[q]
                /\ outcome'[q] = outcome[q] /\ read'[q] = read[q]
  BY DEF Plain, Step, Begin, Flush, FinishIfPossible, Receive, ReceiveLagged, Timeout,
         End, Live

\* The steps of a task keep all instances in order.
LEMMA StepTasks ==
    ASSUME Tasks, NEW p \in Party, Step(p)
    PROVE  Tasks'
  <1> DEFINE u == inst[p]
             m == inst[p].message
             OK(v, E, S) == InstOK(v, p, N, p, m, Bodies, E, S)
  <1>0. /\ Plain /\ Once /\ InOrder(p) /\ Phase(p)
        /\ \A q \in Party : InOrder(q) /\ Phase(q)
        /\ m \in Messages
        /\ status \in [Party -> Live \cup {"absent", "added", "done"}]
        /\ inst = [q \in Party |-> inst[q]] /\ outcome = [q \in Party |-> outcome[q]]
        /\ read \in [Party -> Nat] /\ log \in Seq(Packets)
        /\ \A q \in Party : read[q] <= Len(log)
        /\ OK(u, Come(p), Own(p))
    BY DEF Tasks, Plain, InOrder
  <1>1. \A q \in Party \ {p} :
           /\ status'[q] = status[q] /\ inst'[q] = inst[q]
           /\ outcome'[q] = outcome[q] /\ read'[q] = read[q]
    BY <1>0, TaskFrame
  <1>2. ASSUME NEW v, NEW E, NEW S, OK(v, E, S) PROVE v.message = m
    BY <1>2 DEF InstOK, Shaped
  \* What is left to show of a step that sends nothing.
  <1>3. ASSUME NEW to, NEW v, NEW r, NEW o,
               status' = [status EXCEPT ![p] = to], inst' = [inst EXCEPT ![p] = v],
               read' = [read EXCEPT ![p] = r], outcome' = [outcome EXCEPT ![p] = o],
               log' = log,
               to \in {"flush", "receive", "done"}, r \in Nat,
               read[p] <= r, r <= Len(log),
               OK(v, Come(p)', Own(p)), to # "done" => Settled(v),
               to = "receive" => v.round # "Finished"
        PROVE  Tasks'
    <2>1. /\ status'[p] = to /\ inst'[p] = v /\ read'[p] = r
          /\ v.message = m
      BY <1>0, <1>2, <1>3
    <2>2. Plain'
      <3>1. status' \in [Party -> Live \cup {"absent", "added", "done"}]
        BY <1>0, <1>3 DEF Live
      <3>2. \A q \in Party : inst'[q].message \in Messages /\ read'[q] <= Len(log)
        BY <1>0, <1>1, <1>3, <2>1 DEF Plain
      <3>3. read' \in [Party -> Nat]
        BY <1>0, <1>3
      <3>4. inst' = [q \in Party |-> inst'[q]] /\ outcome' = [q \in Party |-> outcome'[q]]
        BY <1>0, <1>3
      <3>. QED
        BY <1>0, <1>3, <3>1, <3>2, <3>3, <3>4 DEF Plain
    <2>3. Once'
      BY <1>0, <1>3 DEF Once
    <2>4. \A q \in Party \ {p} : InOrder(q)' /\ Phase(q)'
      BY <1>0, <1>1, <1>3, NothingSent, Untouched
    <2>5. Own(p)' = Own(p)
      BY <1>0, <1>3, NothingSent
    <2>6. InOrder(p)'
      BY <1>3, <2>1, <2>5 DEF InOrder
    <2>7. Phase(p)'
      BY <1>3, <2>1 DEF Phase
    <2>. QED
      BY <2>2, <2>3, <2>4, <2>6, <2>7 DEF Tasks
  <1>4. log' = log /\ read' = read => \A q \in Party : Come(q)' = Come(q)
    BY <1>0, NothingSent
  <1>5. outcome = [outcome EXCEPT ![p] = outcome[p]] /\ read = [read EXCEPT ![p] = read[p]]
        /\ inst = [inst EXCEPT ![p] = u] /\ status = [status EXCEPT ![p] = status[p]]
    BY <1>0
  <1>6. read[p] \in Nat /\ read[p] <= read[p] /\ read[p] <= Len(log)
    BY <1>0
  \* A step that reads nothing either.
  <1>7. ASSUME NEW to \in {"flush", "done"}, NEW v, NEW o,
                status' = [status EXCEPT ![p] = to], inst' = [inst EXCEPT ![p] = v],
                outcome' = [outcome EXCEPT ![p] = o], log' = log, read' = read,
                OK(v, Come(p), Own(p)), to # "done" => Settled(v)
         PROVE  Tasks'
    <2>1. OK(v, Come(p)', Own(p)) /\ read' = [read EXCEPT ![p] = read[p]]
      BY <1>4, <1>5, <1>7
    <2> HIDE DEF OK
    <2>. QED
      BY <1>3, <1>6, <1>7, <2>1
  <1>8. CASE Begin(p)
    <2>1. /\ UNCHANGED <<outcome, log, read>> /\ status[p] = "spawned"
          /\ inst' = [inst EXCEPT ![p] = Proceed(u)]
          /\ status' = [status EXCEPT ![p] = "flush"]
      BY <1>0, <1>8 DEF Begin
    <2>2. Settled(Proceed(u))
      BY <1>0, <2>1, BeginSettles DEF Phase
    <2>3. OK(Proceed(u), Come(p), Own(p))
      BY <1>0, Numbers, ProceedRoundOK DEF Proceed
    <2>4. outcome' = [outcome EXCEPT ![p] = outcome[p]]
      BY <1>5, <2>1
    <2> HIDE DEF OK
    <2>. QED
      BY <1>7, <2>1, <2>2, <2>3, <2>4
  <1>9. CASE Flush(p)
    <2> DEFINE d == [u EXCEPT !.msgs_queue = << >>]
               q == u.msgs_queue
               to == IF IsFinished(u) THEN "finish" ELSE "receive"
    <2>1. /\ UNCHANGED <<outcome, read>> /\ status[p] = "flush"
          /\ log' = log \o q
          /\ inst' = [inst EXCEPT ![p] = d]
          /\ status' = [status EXCEPT ![p] = to]
      BY <1>0, <1>9 DEF Flush
    <2>2. /\ q \in Seq(Packets)
          /\ \A k \in DOMAIN q : /\ q[k].sender = p
                                 /\ \A x \in Own(p) : x.body.kind # q[k].body.kind
          /\ \A j, k \in DOMAIN q : q[j].body.kind = q[k].body.kind => j = k
      <3>1. Come(p) \subseteq Packets
        BY DEF Come
      <3>2. InstOK(u, p, N, p, m, Bodies, Come(p), Own(p)) /\ m \in Messages
        BY <1>0
      <3> DEFINE E == Come(p)
                 S == Own(p)
      <3>3. E \subseteq Packets /\ InstOK(u, p, N, p, m, Bodies, E, S)
        BY <3>1, <3>2
      <3> HIDE DEF u, m, E, S
      <3>4. /\ u.msgs_queue \in Seq(Packets)
            /\ \A k \in DOMAIN u.msgs_queue :
                 /\ u.msgs_queue[k].sender = p
                 /\ \A x \in S : x.body.kind # u.msgs_queue[k].body.kind
            /\ \A j, k \in DOMAIN u.msgs_queue :
                 u.msgs_queue[j].body.kind = u.msgs_queue[k].body.kind => j = k
        BY <3>2, <3>3, QueueIsFresh
      <3>. QED
        BY <3>4 DEF u, S
    <2>3. /\ log' \in Seq(Packets) /\ Len(log) <= Len(log')
          /\ \A t \in Party \ {p} : Own(t)' = Own(t)
          /\ Own(p)' = Own(p) \cup {q[k] : k \in DOMAIN q}
          /\ \A t \in Party : Come(t)' = Come(t)
      BY <1>0, <2>1, <2>2, FlushSends
    <2>4. Once'
      BY <1>0, <2>1, <2>2, FlushOnce
    <2>5. OK(d, Come(p), Own(p) \cup {q[k] : k \in DOMAIN q})
      BY <1>0, DrainOK
    <2>6. u = [f \in Fields |-> u[f]]
      BY <1>0 DEF InstOK, Shaped
    <2>7. d.round = u.round /\ d.msgs1 = u.msgs1 /\ d.msgs2 = u.msgs2 /\ d.message = m
      BY <2>6 DEF Fields
    <2>8. status'[p] = to /\ inst'[p] = d
      BY <1>0, <2>1
    <2> HIDE DEF d, q
    <2>9. Plain'
      <3>1. status' \in [Party -> Live \cup {"absent", "added", "done"}]
        BY <1>0, <2>1 DEF Live
      <3>2. \A t \in Party : inst'[t].message \in Messages
        BY <1>0, <1>1, <2>7, <2>8 DEF Plain
      <3>3. inst' = [t \in Party |-> inst'[t]]
        BY <1>0, <2>1
      <3>4. \A t \in Party : read'[t] <= Len(log')
        <4>1. Len(log) \in Nat /\ Len(log') \in Nat
          BY <1>0, <2>3
        <4>2. \A t \in Party : read[t] \in Nat
          BY <1>0
        <4>. QED
          BY <1>0, <2>1, <2>3, <4>1, <4>2
      <3>. QED
        BY <1>0, <2>1, <2>3, <3>1, <3>2, <3>3, <3>4 DEF Plain
    <2>10. \A t \in Party \ {p} : InOrder(t)' /\ Phase(t)'
      BY <1>0, <1>1, <2>3, Untouched
    <2>11. InOrder(p)'
      BY <2>3, <2>5, <2>7, <2>8 DEF InOrder
    <2>12. Phase(p)'
      <3>1. Settled(u)
        BY <1>0, <2>1 DEF Phase
      <3>2. Settled(d)
        BY <2>7, <3>1 DEF Settled, WantsToProceed
      <3>. QED
        BY <2>7, <2>8, <3>2 DEF Phase, IsFinished
    <2>. QED
      BY <2>4, <2>9, <2>10, <2>11, <2>12 DEF Tasks
  <1>10. CASE FinishIfPossible(p)
    <2>1. /\ UNCHANGED <<log, read>> /\ status[p] = "finish"
          /\ inst' = [inst EXCEPT ![p] = PickOutput(u)]
          /\ status' = [status EXCEPT ![p] = "done"]
          /\ outcome' = [outcome EXCEPT ![p] = [tag |-> "Ok", result |-> u.result]]
      BY <1>0, <1>10 DEF FinishIfPossible
    <2>2. u.round = "Finished"
      BY <1>0, <2>1 DEF Phase
    <2>3. OK(PickOutput(u), Come(p), Own(p))
      BY <1>0, <2>2, PickOutputOK
    <2> HIDE DEF OK
    <2>. QED
      BY <1>7, <2>1, <2>3
  <1>11. CASE Receive(p)
    <2> DEFINE msg == log[read[p] + 1]
               v == Turn(u, msg)
               r == read[p] + 1
    <2>1. /\ log' = log /\ status[p] = "receive"
          /\ read' = [read EXCEPT ![p] = r]
          /\ Len(log) - read[p] > 0
      BY <1>0, <1>11 DEF Receive, Unread
    <2>2. /\ r \in 1..Len(log) /\ r \in Nat /\ read[p] <= r /\ r <= Len(log)
          /\ msg \in Packets
      BY <1>0, <2>1
    <2>3. read'[p] = r
      BY <1>0, <2>1
    <2>4. Come(p) \subseteq Come(p)'
      BY <1>0, <2>1, <2>2, <2>3, NothingSent
    <2>5. OK(u, Come(p)', Own(p))
      <3> DEFINE E == Come(p)'
      <3>1. Come(p) \subseteq E
        BY <2>4
      <3> HIDE DEF E
      <3>2. OK(u, E, Own(p))
        BY <1>0, <3>1, InstOKGrows
      <3>. QED
        BY <3>2 DEF E
    <2>6. Settled(u) /\ u.round # "Finished"
      BY <1>0, <2>1 DEF Phase
    <2>7. CASE IsOwn(p, msg)
      <3>1. UNCHANGED <<status, inst, outcome>>
        BY <1>11, <2>7 DEF Receive
      <3>. QED
        BY <1>0, <1>3, <1>5, <2>1, <2>2, <2>5, <2>6, <3>1
    <2>8. CASE ~IsOwn(p, msg)
      <3>1. msg \in Come(p)'
        <4>1. msg.sender # p
          BY <2>8 DEF IsOwn
        <4>. QED
          BY <2>1, <2>2, <2>3, <4>1 DEF Come
      <3>2. OK(v, Come(p)', Own(p)) /\ (~Panicked(v) => Settled(v))
        <4> DEFINE E == Come(p)'
        <4>1. msg \in E /\ OK(u, E, Own(p))
          BY <2>5, <3>1
        <4> HIDE DEF E
        <4>2. Incoming(msg, Bodies, E)
          BY <2>2, <4>1, ComesIn
        <4>3. OK(v, E, Own(p)) /\ (~Panicked(v) => Settled(v))
          BY <2>6, <4>1, <4>2, TurnSettles
        <4>. QED
          BY <4>3 DEF E
      <3>3. \E to \in {"flush", "done"} : \E o :
               /\ inst' = [inst EXCEPT ![p] = v]
               /\ status' = [status EXCEPT ![p] = to]
               /\ outcome' = [outcome EXCEPT ![p] = o]
               /\ to = "flush" => ~Panicked(v)
        <4>1. /\ inst' = [inst EXCEPT ![p] = v]
              /\ IF IsCritical(HandleResult(u, msg)) THEN End(p, [tag |-> "HandleIncoming"])
                 ELSE IF Panicked(v) THEN End(p, [tag |-> "Panicked"])
                 ELSE /\ status' = [status EXCEPT ![p] = "flush"]
                      /\ UNCHANGED outcome
          BY <1>11, <2>8 DEF Receive
        <4> HIDE DEF v, msg
        <4>2. CASE End(p, [tag |-> "HandleIncoming"])
          BY <4>1, <4>2 DEF End
        <4>3. CASE End(p, [tag |-> "Panicked"])
          BY <4>1, <4>3 DEF End
        <4>4. CASE /\ status' = [status EXCEPT ![p] = "flush"]
                   /\ UNCHANGED outcome /\ ~Panicked(v)
          BY <1>5, <4>1, <4>4
        <4>. QED
          BY <4>1, <4>2, <4>3, <4>4
      <3> HIDE DEF v, msg, OK, r
      <3>4. PICK to \in {"flush", "done"} :
               \E o : /\ inst' = [inst EXCEPT ![p] = v]
                      /\ status' = [status EXCEPT ![p] = to]
                      /\ outcome' = [outcome EXCEPT ![p] = o]
                      /\ to = "flush" => ~Panicked(v)
        BY <3>3
      <3>5. PICK o : /\ inst' = [inst EXCEPT ![p] = v]
                     /\ status' = [status EXCEPT ![p] = to]
                     /\ outcome' = [outcome EXCEPT ![p] = o]
                     /\ to = "flush" => ~Panicked(v)
        BY <3>4
      <3>6. to # "done" => Settled(v)
        BY <3>2, <3>5
      <3>. QED
        BY <1>3, <2>1, <2>2, <3>2, <3>5, <3>6
    <2>. QED
      BY <2>7, <2>8
  <1>12. ASSUME status[p] = "receive", NEW o, End(p, o), UNCHANGED <<inst, log, read>>
         PROVE  Tasks'
    <2>1. /\ status' = [status EXCEPT ![p] = "done"]
          /\ outcome' = [outcome EXCEPT ![p] = o]
      BY <1>12 DEF End
    <2>2. inst' = [inst EXCEPT ![p] = u] /\ OK(u, Come(p), Own(p))
      BY <1>0, <1>5, <1>12
    <2> HIDE DEF OK, u
    <2>. QED
      BY <1>12, <1>7, <2>1, <2>2
  <1>13. CASE ReceiveLagged(p)
    BY <1>12, <1>13 DEF ReceiveLagged
  <1>14. CASE Timeout(p)
    BY <1>12, <1>14 DEF Timeout
  <1>. QED
    BY <1>8, <1>9, <1>10, <1>11, <1>13, <1>14 DEF Step
-----------------------------------------------------------------------------
\* A handle awaited is a result.
LEMMA Balance ==
    ASSUME NEW a \in Nat, NEW b \in Nat, NEW c, a + b = c
    PROVE  /\ c \in Nat /\ a <= c
           /\ (a + 1) + (b - 1) = c /\ b = 0 => a = c
  OBVIOUS

(* What run() returns.                                                     *)
\* Only the empty sequence has length 0.
LEMMA EmptyOrNot ==
    ASSUME NEW s, IsSeq(s)
    PROVE  s = << >> <=> Len(s) = 0
  <1>1. ASSUME Len(s) = 0 PROVE s = << >>
    <2>1. s = [k \in 1..0 |-> s[k]]
      BY <1>1 DEF IsSeq
    <2>2. s = [k \in {} |-> s[k]]
      BY <2>1
    <2>. QED
      BY <2>2
  <1>. QED
    BY <1>1

\* What a task does changes no outcome that was awaited.
LEMMA StepCaller ==
    ASSUME Tasks, Caller, NEW p \in Party, Step(p)
    PROVE  Caller'
  <1>1. /\ UNCHANGED <<parties, exhausted, handles, results, answers>>
        /\ status[p] \in Live
        /\ \A q \in Party \ {p} : status'[q] = status[q] /\ outcome'[q] = outcome[q]
    BY TaskFrame DEF Tasks, caller
  <1>2. exhausted
    BY <1>1 DEF Caller, Live
  <1>3. \A q \in Party : status[q] = "done" =>
           status'[q] = "done" /\ outcome'[q] = outcome[q]
    BY <1>1 DEF Live
  <1>4. parties \in Seq(Party) /\ DOMAIN parties = 1..Len(parties) /\ Len(parties) \in Nat
    BY DEF Caller
  <1>5. \A k \in 1..Len(parties) : status[parties[k]] = "done" =>
           status'[parties[k]] = "done" /\ outcome'[parties[k]] = outcome[parties[k]]
    BY <1>3, <1>4
  <1>6. ASSUME Awaiting PROVE Awaiting'
    <2>0. /\ Len(results) \in Nat /\ Len(handles) \in Nat
          /\ Len(results) + Len(handles) = Len(parties)
      BY <1>6 DEF Awaiting, Caller, IsSeq
    <2>1. Len(results) \in Nat /\ Len(results) <= Len(parties)
      BY <2>0, Balance
    <2>2. \A k \in 1..Len(results) : k \in 1..Len(parties) /\ Has(results, k)
      BY <1>4, <1>6, <2>1 DEF Awaiting
    <2>3. \A k \in 1..Len(results') : Has(results, k)'
      BY <1>1, <1>5, <2>2 DEF Has
    <2>. QED
      BY <1>1, <1>6, <2>3 DEF Awaiting
  <1>7. /\ handles # None => Awaiting
        /\ exhausted /\ handles = None => answers # << >>
        /\ exhausted \in BOOLEAN /\ IsSeq(results) /\ IsSeq(answers)
    BY DEF Caller
  <1>. QED
    BY <1>1, <1>2, <1>4, <1>6, <1>7 DEF Caller

\* A party that is added is subscribed, at the end of the log.
LEMMA AddPartyIInv ==
    ASSUME IInv, NEW p \in Party, AddParty(p)
    PROVE  IInv'
  <1>0. /\ Tasks /\ Caller /\ Plain /\ Once
        /\ \A q \in Party : InOrder(q) /\ Phase(q)
        /\ status \in [Party -> Live \cup {"absent", "added", "done"}]
        /\ read \in [Party -> Nat] /\ log \in Seq(Packets) /\ Len(log) \in Nat
        /\ \A q \in Party : read[q] <= Len(log)
        /\ parties \in Seq(Party) /\ DOMAIN parties = 1..Len(parties)
        /\ Len(parties) \in Nat
    BY DEF IInv, Tasks, Plain, Caller
  <1>1. /\ handles = None /\ status[p] = "absent"
        /\ parties' = Append(parties, p)
        /\ status' = [status EXCEPT ![p] = "added"]
        /\ read' = [read EXCEPT ![p] = Len(log)]
        /\ UNCHANGED <<exhausted, handles, results, answers, inst, outcome, log>>
    BY DEF AddParty, Idle
  <1>2. /\ parties' \in Seq(Party) /\ Len(parties') = Len(parties) + 1
        /\ \A k \in 1..Len(parties) : parties'[k] = parties[k]
    BY <1>0, <1>1
  <1>3. /\ \A q \in Party \ {p} : status'[q] = status[q] /\ read'[q] = read[q]
        /\ status'[p] = "added" /\ read'[p] = Len(log)
    BY <1>0, <1>1
  <1>4. Plain' /\ Once'
    <2>1. status' \in [Party -> Live \cup {"absent", "added", "done"}]
      BY <1>0, <1>1
    <2>2. read' \in [Party -> Nat] /\ \A q \in Party : read'[q] <= Len(log)
      BY <1>0, <1>1, <1>3
    <2>. QED
      BY <1>0, <1>1, <2>1, <2>2 DEF Plain, Once
  <1>5. ASSUME NEW q \in Party PROVE InOrder(q)' /\ Phase(q)'
    <2>1. Own(q)' = Own(q) /\ Come(q) \subseteq Come(q)'
      BY <1>0, <1>1, <1>3, NothingSent
    <2>2. CASE q # p
      BY <1>0, <1>1, <1>3, <2>1, <2>2, Untouched
    <2>3. CASE q = p
      <3>1. InOrder(p)'
        BY <1>0, <1>1, <2>1, <2>3, InstOKGrows DEF InOrder
      <3>2. Phase(p)'
        BY <1>0, <1>1, <1>3 DEF Phase
      <3>. QED
        BY <2>3, <3>1, <3>2
    <2>. QED
      BY <2>2, <2>3
  <1>6. ASSUME ~exhausted PROVE \A q \in Party : status'[q] \in {"absent", "added"}
    BY <1>0, <1>3, <1>6 DEF Caller
  <1>7. Caller'
    <2>1. /\ exhausted \in BOOLEAN /\ IsSeq(results) /\ IsSeq(answers)
          /\ exhausted => answers # << >>
          /\ ~exhausted => answers = << >>
      BY <1>0, <1>1 DEF Caller
    <2>. QED
      BY <1>1, <1>2, <1>6, <2>1 DEF Caller
  <1>. QED
    BY <1>4, <1>5, <1>7 DEF IInv, Tasks

\* run() has `self`: the tasks only start.
LEMMA RunIInv ==
    ASSUME IInv, Run
    PROVE  IInv'
  <1>0. /\ Tasks /\ Caller /\ Plain /\ Once
        /\ \A q \in Party : InOrder(q) /\ Phase(q)
        /\ status \in [Party -> Live \cup {"absent", "added", "done"}]
        /\ parties \in Seq(Party) /\ DOMAIN parties = 1..Len(parties)
        /\ Len(parties) \in Nat
    BY DEF IInv, Tasks, Plain, Caller
  <1>1. /\ ~exhausted /\ exhausted' = TRUE
        /\ handles' = parties /\ results' = << >>
        /\ status' = [p \in Party |-> IF p \in Range(parties) THEN "spawned" ELSE status[p]]
        /\ UNCHANGED <<parties, answers, inst, outcome, log, read>>
    BY DEF Run
  <1>2. /\ answers = << >> /\ IsSeq(answers)
        /\ \A q \in Party : status[q] \in {"absent", "added"}
    BY <1>0, <1>1 DEF Caller
  <1>3. Plain' /\ Once'
    <2>1. status' \in [Party -> Live \cup {"absent", "added", "done"}]
      BY <1>0, <1>1 DEF Live
    <2>. QED
      BY <1>0, <1>1, <2>1 DEF Plain, Once
  <1>4. ASSUME NEW q \in Party PROVE InOrder(q)' /\ Phase(q)'
    <2>1. Own(q)' = Own(q) /\ Come(q)' = Come(q)
      BY <1>1 DEF Own, Come
    <2>2. InOrder(q)'
      BY <1>0, <1>1, <2>1 DEF InOrder
    <2>3. status'[q] \in {"absent", "added", "spawned"}
      BY <1>1, <1>2
    <2>4. inst[q] = NewInstance(q, N, q, inst[q].message)
      BY <1>0, <1>2 DEF Phase
    <2>5. Phase(q)'
      BY <1>1, <2>3, <2>4 DEF Phase
    <2>. QED
      BY <2>2, <2>5
  <1>5. Awaiting'
    <2>1. Len(results') = 0 /\ \A k \in 1..Len(results') : FALSE
      BY <1>1
    <2>2. \A k \in 1..Len(handles') : handles'[k] = parties'[0 + k]
      BY <1>0, <1>1
    <2>3. Len(results') + Len(handles') = Len(parties')
      BY <1>0, <1>1, <2>1
    <2>. QED
      BY <1>0, <1>1, <1>2, <2>1, <2>2, <2>3 DEF Awaiting
  <1>6. handles' # None
    BY <1>0, <1>1, NoneAssumption
  <1>7. IsSeq(results') /\ IsSeq(answers')
    BY <1>1, <1>2, EmptyIsSeq
  <1>8. Caller'
    BY <1>0, <1>1, <1>2, <1>5, <1>6, <1>7 DEF Caller
  <1>. QED
    BY <1>3, <1>4, <1>8 DEF IInv, Tasks

\* The other steps of the caller leave the tasks alone.
LEMMA TasksStay ==
    ASSUME Tasks, UNCHANGED tasks
    PROVE  Tasks'
  <1>1. UNCHANGED <<status, inst, outcome, log, read>>
    BY DEF tasks
  <1>2. Plain /\ Once /\ \A q \in Party : InOrder(q) /\ Phase(q)
    BY DEF Tasks
  <1>3. Plain' /\ Once'
    BY <1>1, <1>2 DEF Plain, Once
  <1>4. ASSUME NEW q \in Party PROVE InOrder(q)' /\ Phase(q)'
    BY <1>1, <1>2 DEF Own, Come, InOrder, Phase
  <1>. QED
    BY <1>3, <1>4 DEF Tasks

\* Another run() adds an answer of errors, one for every party.
LEMMA RunExhaustedAnswers ==
    ASSUME IInv, RunExhausted
    PROVE  /\ answers # << >> /\ IsSeq(answers') /\ answers' # << >>
           /\ Last(answers') = [k \in DOMAIN parties |-> [tag |-> "Exhausted"]]
  <1> DEFINE a == [k \in DOMAIN parties |-> [tag |-> "Exhausted"]]
  <1>1. /\ handles = None /\ exhausted /\ answers' = Append(answers, a)
    BY DEF RunExhausted, Idle
  <1>2. IsSeq(answers) /\ answers # << >>
    BY <1>1 DEF IInv, Caller
  <1> HIDE DEF a
  <1>3. /\ IsSeq(answers') /\ Len(answers') = Len(answers) + 1
        /\ answers'[Len(answers) + 1] = a
    BY <1>1, <1>2, AppendAny
  <1>4. answers' # << >>
    <2>1. Len(answers) \in Nat
      BY <1>2 DEF IsSeq
    <2>. QED
      BY <1>3, <2>1, EmptyOrNot
  <1>5. Last(answers') = a
    BY <1>3 DEF Last
  <1>. QED
    BY <1>2, <1>3, <1>4, <1>5 DEF a

LEMMA RunExhaustedIInv ==
    ASSUME IInv, RunExhausted
    PROVE  IInv'
  <1>1. /\ handles = None /\ exhausted
        /\ UNCHANGED <<parties, exhausted, handles, results, tasks>>
    BY DEF RunExhausted, Idle
  <1>2. IsSeq(results) /\ parties \in Seq(Party)
    BY DEF IInv, Caller
  <1>3. IsSeq(answers') /\ answers' # << >>
    BY RunExhaustedAnswers
  <1>4. Caller'
    BY <1>1, <1>2, <1>3 DEF Caller
  <1>. QED
    BY <1>1, <1>4, TasksStay DEF IInv

\* A handle that is done becomes a result, in its place.
LEMMA AwaitIInv ==
    ASSUME IInv, Await
    PROVE  IInv'
  <1> DEFINE p == Head(handles)
  <1>1. /\ handles # None /\ handles # << >> /\ status[p] = "done"
        /\ results' = Append(results, outcome[p])
        /\ handles' = Tail(handles)
        /\ UNCHANGED <<parties, exhausted, answers, tasks>>
    BY DEF Await
  <1>2. Awaiting /\ IsSeq(results) /\ IsSeq(answers) /\ parties \in Seq(Party)
    BY <1>1 DEF IInv, Caller
  <1>3. /\ exhausted /\ answers = << >> /\ handles \in Seq(Party)
        /\ Len(results) + Len(handles) = Len(parties)
        /\ \A k \in 1..Len(handles) : handles[k] = parties[Len(results) + k]
        /\ \A k \in 1..Len(results) : Has(results, k)
    BY <1>2 DEF Awaiting
  <1>4. /\ Len(handles) \in Nat \ {0} /\ Len(parties) \in Nat /\ p = handles[1]
        /\ handles' \in Seq(Party) /\ Len(handles') = Len(handles) - 1
        /\ \A k \in 1..(Len(handles) - 1) : handles'[k] = handles[k + 1]
    BY <1>1, <1>3
  <1>5. /\ IsSeq(results') /\ Len(results') = Len(results) + 1
        /\ \A k \in 1..Len(results) : results'[k] = results[k]
        /\ results'[Len(results) + 1] = outcome[p]
    BY <1>1, <1>2, AppendAny
  <1>6. Len(results) \in Nat
    BY <1>2 DEF IsSeq
  <1> HIDE DEF p
  <1>7. p = parties[Len(results) + 1]
    BY <1>3, <1>4, <1>6
  <1>8. UNCHANGED <<status, outcome>>
    BY <1>1 DEF tasks
  <1>9. Awaiting'
    <2>1. Len(results') + Len(handles') = Len(parties)
      <3>1. (Len(results) + 1) + (Len(handles) - 1) = Len(parties)
        <4>1. Len(results) \in Nat /\ Len(handles) \in Nat
              /\ Len(results) + Len(handles) = Len(parties)
          BY <1>3, <1>4, <1>6
        <4>. QED
          BY <4>1, Balance
      <3>. QED
        BY <1>4, <1>5, <3>1
    <2>2. ASSUME NEW k \in 1..Len(handles')
          PROVE  handles'[k] = parties[Len(results') + k]
      <3>1. k \in 1..(Len(handles) - 1) /\ k + 1 \in 1..Len(handles)
            /\ Len(results') + k = Len(results) + (k + 1)
        BY <1>4, <1>5, <1>6
      <3>. QED
        BY <1>3, <1>4, <3>1
    <2>3. ASSUME NEW k \in 1..Len(results') PROVE Has(results, k)'
      <3>1. CASE k = Len(results) + 1
        <4>1. /\ results'[k] = outcome[p] /\ parties[k] = p /\ status[p] = "done"
              /\ UNCHANGED <<parties, status, outcome>>
          BY <1>1, <1>5, <1>7, <1>8, <3>1
        <4>. QED
          BY <4>1 DEF Has
      <3>2. CASE k # Len(results) + 1
        <4>1. k \in 1..Len(results)
          BY <1>5, <1>6, <3>2
        <4>. QED
          BY <1>1, <1>3, <1>5, <1>8, <4>1 DEF Has
      <3>. QED
        BY <3>1, <3>2
    <2>. QED
      BY <1>1, <1>3, <1>4, <2>1, <2>2, <2>3 DEF Awaiting
  <1>10. Caller'
    BY <1>1, <1>2, <1>3, <1>4, <1>5, <1>9, NoneAssumption DEF Caller, IInv
  <1>. QED
    BY <1>1, <1>10, TasksStay DEF IInv

\* The results become the first answer: all handles were awaited.
LEMMA ReturnAnswers ==
    ASSUME IInv, Return
    PROVE  /\ exhausted /\ answers = << >> /\ IsSeq(answers') /\ answers' # << >>
           /\ Last(answers') = results
           /\ DOMAIN results = DOMAIN parties
           /\ \A k \in DOMAIN parties : Has(results, k)
  <1>1. handles = << >> /\ answers' = Append(answers, results)
    BY DEF Return
  <1>2. << >> \in Seq(Party) /\ Len(<< >>) = 0
    OBVIOUS
  <1>3. handles # None
    BY <1>1, <1>2, NoneAssumption
  <1>4. Awaiting /\ IsSeq(results) /\ IsSeq(answers) /\ parties \in Seq(Party)
    BY <1>3 DEF IInv, Caller
  <1>5. /\ exhausted /\ answers = << >>
        /\ Len(results) + Len(handles) = Len(parties)
        /\ \A k \in 1..Len(results) : Has(results, k)
    BY <1>4 DEF Awaiting
  <1>6. Len(results) = Len(parties)
    <2>1. Len(results) \in Nat /\ Len(handles) \in Nat
      BY <1>1, <1>2, <1>4 DEF IsSeq
    <2>. QED
      BY <1>1, <1>2, <1>5, <2>1, Balance
  <1>7. DOMAIN results = 1..Len(results) /\ DOMAIN parties = 1..Len(parties)
    BY <1>4 DEF IsSeq
  <1>8. /\ IsSeq(answers') /\ Len(answers') = Len(answers) + 1
        /\ answers'[Len(answers) + 1] = results
    BY <1>1, <1>4, AppendAny
  <1>9. answers' # << >>
    <2>1. Len(answers) \in Nat
      BY <1>4 DEF IsSeq
    <2>. QED
      BY <1>8, <2>1, EmptyOrNot
  <1>10. Last(answers') = results
    BY <1>8 DEF Last
  <1>. QED
    BY <1>5, <1>6, <1>7, <1>8, <1>9, <1>10

LEMMA ReturnIInv ==
    ASSUME IInv, Return
    PROVE  IInv'
  <1>1. handles' = None /\ UNCHANGED <<parties, exhausted, results, tasks>>
    BY DEF Return
  <1>2. IsSeq(results) /\ parties \in Seq(Party) /\ exhausted \in BOOLEAN
    BY DEF IInv, Caller
  <1>3. exhausted /\ IsSeq(answers') /\ answers' # << >>
    BY ReturnAnswers
  <1>4. Caller'
    BY <1>1, <1>2, <1>3 DEF Caller
  <1>. QED
    BY <1>1, <1>4, TasksStay DEF IInv
-----------------------------------------------------------------------------
(* The inductive invariant.                                                *)
\* The invariant holds at first.
LEMMA InitIInv == Init => IInv
  <1> SUFFICES ASSUME Init PROVE IInv
    OBVIOUS
  <1>1. /\ parties = << >> /\ exhausted = FALSE /\ handles = None
        /\ results = << >> /\ answers = << >>
        /\ status = [p \in Party |-> "absent"]
    BY DEF Init
  <1>2. IsSeq(results) /\ IsSeq(answers) /\ parties \in Seq(Party)
    BY <1>1, EmptyIsSeq
  <1>3. \A p \in Party : status[p] \in {"absent", "added"}
    BY <1>1
  <1>4. Caller
    BY <1>1, <1>2, <1>3 DEF Caller
  <1>. QED
    BY <1>4, InitTasks DEF IInv

\* Every step keeps it.
LEMMA NextIInv == IInv /\ [Next]_vars => IInv'
  <1> SUFFICES ASSUME IInv, [Next]_vars PROVE IInv'
    OBVIOUS
  <1>1. ASSUME NEW p \in Party, AddParty(p) PROVE IInv'
    BY <1>1, AddPartyIInv
  <1>2. ASSUME NEW p \in Party, Step(p) PROVE IInv'
    BY <1>2, StepTasks, StepCaller DEF IInv
  <1>3. CASE Run \/ RunExhausted \/ Await \/ Return
    BY <1>3, RunIInv, RunExhaustedIInv, AwaitIInv, ReturnIInv
  <1>4. CASE UNCHANGED vars
    <2>1. UNCHANGED tasks /\ UNCHANGED <<parties, exhausted, handles, results, answers>>
      BY <1>4 DEF vars, caller
    <2>2. Tasks'
      BY <2>1, TasksStay DEF IInv
    <2>3. UNCHANGED <<status, outcome>>
      BY <2>1 DEF tasks
    <2>4. Caller
      BY DEF IInv
    <2>5. Awaiting => Awaiting'
      BY <2>1, <2>3 DEF Awaiting, Has
    <2>6. Caller'
      BY <2>1, <2>3, <2>4, <2>5 DEF Caller
    <2>. QED
      BY <2>2, <2>6 DEF IInv
  <1>. QED
    BY <1>1, <1>2, <1>3, <1>4 DEF Next

\* So it always holds.
LEMMA Inductive == Spec => []IInv
  <1>. QED
    BY InitIInv, NextIInv, PTL DEF Spec

\* Only the two returns of run() add an answer.
LEMMA OthersAnswerNothing ==
    ASSUME Tasks, [Next]_vars, answers' # answers
    PROVE  Return \/ RunExhausted
  <1>1. ASSUME NEW p \in Party, Step(p) PROVE FALSE
    BY <1>1, TaskFrame DEF Tasks, caller
  <1>. QED
    BY <1>1 DEF Next, AddParty, Run, Await, vars, caller

\* What such a step returns.
LEMMA GivesAnswersInOrder ==
    ASSUME IInv, [Next]_vars, answers' # answers
    PROVE  /\ DOMAIN Last(answers') = DOMAIN parties
           /\ \A k \in DOMAIN parties :
                \/ /\ answers = << >>
                   /\ status[parties[k]] = "done"
                   /\ Last(answers')[k] = outcome[parties[k]]
                \/ /\ answers # << >>
                   /\ Last(answers')[k].tag = "Exhausted"
  <1>1. CASE Return
    BY <1>1, ReturnAnswers DEF Has
  <1>2. CASE RunExhausted
    BY <1>2, RunExhaustedAnswers
  <1>. QED
    BY <1>1, <1>2, OthersAnswerNothing DEF IInv

\* The first run() returns what the task of every party added before ended
\* with, in the order they were added and only when all have ended; every other
\* call returns an error for each party.
THEOREM InOrderOfAdding == Spec => AnswersInOrder
  <1>1. IInv /\ [Next]_vars =>
          [ answers' # answers =>
              LET answer == Last(answers')
              IN  /\ DOMAIN answer = DOMAIN parties
                  /\ \A k \in DOMAIN parties :
                       \/ /\ answers = << >>
                          /\ status[parties[k]] = "done"
                          /\ answer[k] = outcome[parties[k]]
                       \/ /\ answers # << >>
                          /\ answer[k].tag = "Exhausted" ]_vars
    BY GivesAnswersInOrder
  <1>. QED
    BY <1>1, Inductive, PTL DEF Spec, AnswersInOrder
-----------------------------------------------------------------------------
(* How far behind a receiver can be.                                       *)

\* A log without repetition is no longer than there are things to say.
LEMMA LogFits ==
    ASSUME Plain, Once, NEW T, IsFiniteSet(T),
           \A k \in DOMAIN log : <<log[k].sender, log[k].body.kind>> \in T
    PROVE  Len(log) <= Cardinality(T)
  <1> DEFINE f == [k \in 1..Len(log) |-> <<log[k].sender, log[k].body.kind>>]
  <1>1. log \in Seq(Packets) /\ DOMAIN log = 1..Len(log) /\ Len(log) \in Nat
    BY DEF Plain
  <1>2. f \in [1..Len(log) -> T]
    BY <1>1
  <1>3. ASSUME NEW j \in 1..Len(log), NEW k \in 1..Len(log), f[j] = f[k] PROVE j = k
    BY <1>1, <1>3 DEF Once
  <1>4. f \in Injection(1..Len(log), T)
    <2> HIDE DEF f
    <2>. QED
      BY <1>2, <1>3 DEF Injection, IsInjective
  <1>5. Cardinality(1..Len(log)) <= Cardinality(T)
    BY <1>4, FS_Injection
  <1>6. Cardinality(1..Len(log)) = Len(log)
    <2>1. 1 \in Int /\ Len(log) \in Int
      BY <1>1
    <2>2. Cardinality(1..Len(log)) = IF 1 > Len(log) THEN 0 ELSE Len(log) - 1 + 1
      BY <2>1, FS_Interval
    <2>. QED
      BY <1>1, <2>2
  <1>. QED
    BY <1>5, <1>6

Sayings == Party \X {"Round1", "Round2"}

\* Everybody has two things to say.
LEMMA SayingsCount ==
    /\ IsFiniteSet(Sayings) /\ Cardinality(Sayings) = 2 * N
    /\ \A x \in Sayings : /\ IsFiniteSet(Sayings \ {x})
                          /\ Cardinality(Sayings \ {x}) = 2 * N - 1
  <1>1. N \in Nat
    BY NAssumption
  <1>2. IsFiniteSet(1..N) /\ Cardinality(1..N) = N
    <2>1. 1 \in Int /\ N \in Int
      BY <1>1
    <2>2. /\ IsFiniteSet(1..N)
          /\ Cardinality(1..N) = IF 1 > N THEN 0 ELSE N - 1 + 1
      BY <2>1, FS_Interval
    <2>. QED
      BY <1>1, <2>2
  <1>3. IsFiniteSet({"Round1", "Round2"}) /\ Cardinality({"Round1", "Round2"}) = 2
    <2>1. IsFiniteSet({"Round1"}) /\ Cardinality({"Round1"}) = 1
      BY FS_Singleton
    <2>2. {"Round1"} \cup {"Round2"} = {"Round1", "Round2"} /\ "Round2" \notin {"Round1"}
      OBVIOUS
    <2>3. /\ IsFiniteSet({"Round1"} \cup {"Round2"})
          /\ Cardinality({"Round1"} \cup {"Round2"}) = Cardinality({"Round1"}) + 1
      BY <2>1, <2>2, FS_AddElement
    <2>. QED
      BY <2>1, <2>2, <2>3
  <1>4. IsFiniteSet(Sayings) /\ Cardinality(Sayings) = N * 2
    <2> DEFINE K == {"Round1", "Round2"}
    <2>1. IsFiniteSet(1..N) /\ IsFiniteSet(K)
      BY <1>2, <1>3
    <2> HIDE DEF K
    <2>2. IsFiniteSet((1..N) \X K) /\ Cardinality((1..N) \X K) = Cardinality(1..N) * Cardinality(K)
      BY <2>1, FS_Product
    <2>3. Cardinality(K) = 2
      BY <1>3 DEF K
    <2>. QED
      BY <1>2, <2>2, <2>3 DEF Sayings, Party, K
  <1>5. ASSUME NEW x \in Sayings
        PROVE  IsFiniteSet(Sayings \ {x}) /\ Cardinality(Sayings \ {x}) = N * 2 - 1
    BY <1>4, FS_RemoveElement
  <1>6. N * 2 = 2 * N
    BY <1>1
  <1>. QED
    BY <1>4, <1>5, <1>6

\* A party that waits has somebody to wait for.
LEMMA NobodyWaitsAlone ==
    ASSUME IInv, NEW p \in Party, status[p] = "receive"
    PROVE  N # 1
  <1> DEFINE u == inst[p]
  <1> SUFFICES ASSUME N = 1 PROVE FALSE
    OBVIOUS
  <1>1. Settled(u) /\ u.round # "Finished"
    BY DEF IInv, Tasks, Phase
  <1>2. u.round \in {"Round1", "Round2"} /\ ~WantsToProceed(u)
    BY <1>1 DEF Settled
  <1>3. InstOK(u, p, N, p, u.message, Bodies, Come(p), Own(p))
    BY DEF IInv, Tasks, InOrder
  <1>4. ASSUME NEW store, NEW kind, StoreOK(store, p, N, kind, Bodies, Come(p))
        PROVE  ~WantsMore(store)
    <2>1. ExactStore(store, p, N, Bodies)
      BY <1>4 DEF StoreOK
    <2>2. DOMAIN store.msgs = 1..0
      BY <2>1 DEF ExactStore
    <2>3. EmptySlots(store) = {}
      BY <2>2 DEF EmptySlots
    <2>. QED
      BY <2>1, <2>3, FS_EmptySet DEF ExactStore, WantsMore
  <1>5. CASE u.round = "Round1"
    <2>1. u.msgs1 # None /\ StoreOK(u.msgs1, p, N, "Round1", Bodies, Come(p))
      BY <1>3, <1>5 DEF InstOK
    <2>. QED
      BY <1>2, <1>4, <1>5, <2>1 DEF WantsToProceed, StoreWantsMore
  <1>6. CASE u.round = "Round2"
    <2>1. u.msgs2 # None /\ StoreOK(u.msgs2, p, N, "Round2", Bodies, Come(p))
      BY <1>3, <1>6 DEF InstOK
    <2>. QED
      BY <1>2, <1>4, <1>6, <2>1 DEF WantsToProceed, StoreWantsMore
  <1>. QED
    BY <1>2, <1>5, <1>6

\* One that has read nothing has not sent its share.
LEMMA NothingReadNoShare ==
    ASSUME IInv, NEW p \in Party, status[p] = "receive", read[p] = 0
    PROVE  \A x \in Own(p) : x.body.kind = "Round1"
  <1> DEFINE u == inst[p]
             m == u.message
  <1>1. Settled(u) /\ u.round # "Finished"
    BY DEF IInv, Tasks, Phase
  <1>2. u.round \in {"Round1", "Round2"}
    BY <1>1 DEF Settled
  <1>3. Progress(u, p, N, p, m, Come(p), Own(p))
    BY DEF IInv, Tasks, InOrder, InstOK
  <1>4. Come(p) = {}
    BY DEF Come
  <1>5. PICK q \in 1..N : q # p
    <2>1. N \in Nat \ {0} /\ N # 1 /\ p \in 1..N
      BY Numbers, NobodyWaitsAlone
    <2>2. CASE p = 1
      <3>1. 2 \in 1..N /\ 2 # p
        BY <2>1, <2>2
      <3>. QED
        BY <3>1
    <2>3. CASE p # 1
      <3>1. 1 \in 1..N /\ 1 # p
        BY <2>1, <2>3
      <3>. QED
        BY <3>1
    <2>. QED
      BY <2>2, <2>3
  <1>6. u.round # "Round2"
    <2>1. ASSUME u.round = "Round2" PROVE FALSE
      <3>1. KeysFrom(u.ctx, p, N, p, m, Come(p))
        BY <1>3, <2>1 DEF Progress, Done
      <3>. QED
        BY <1>4, <1>5, <3>1 DEF KeysFrom
    <2>. QED
      BY <2>1
  <1>7. OneOut(Own(p), u.msgs_queue, Nonces(p, p, m))
    BY <1>2, <1>3, <1>6 DEF Progress
  <1>8. Nonces(p, p, m).body.kind = "Round1"
    BY DEF Nonces, Broadcast, Round1Body
  <1>. QED
    BY <1>7, <1>8 DEF OneOut

\* The bound: 2N messages, of which one is read or not sent.
LEMMA GivesBacklogBounded == IInv => BacklogBounded
  <1> SUFFICES ASSUME IInv, NEW p \in Party, status[p] = "receive"
               PROVE  Unread(p) <= 2 * N - 1
    BY DEF BacklogBounded
  <1>1. /\ Plain /\ Once
        /\ log \in Seq(Packets) /\ Len(log) \in Nat /\ DOMAIN log = 1..Len(log)
        /\ read[p] \in Nat /\ N \in Nat
    BY NAssumption DEF IInv, Tasks, Plain
  <1>2. \A k \in DOMAIN log : /\ log[k] \in Packets
                              /\ log[k].sender \in Party
                              /\ log[k].body.kind \in {"Round1", "Round2"}
    BY <1>1, PacketShape
  <1>3. Len(log) <= 2 * N
    <2>1. \A k \in DOMAIN log : <<log[k].sender, log[k].body.kind>> \in Sayings
      BY <1>2 DEF Sayings
    <2>. QED
      BY <1>1, <2>1, LogFits, SayingsCount
  <1>4. CASE read[p] # 0
    BY <1>1, <1>3, <1>4 DEF Unread
  <1>5. CASE read[p] = 0
    <2> DEFINE x == <<p, "Round2">>
    <2>1. x \in Sayings
      BY DEF Sayings
    <2>2. ASSUME NEW k \in DOMAIN log
          PROVE  <<log[k].sender, log[k].body.kind>> \in Sayings \ {x}
      <3>1. log[k].sender = p => log[k] \in Own(p)
        BY <1>2 DEF Own
      <3>2. log[k].sender = p => log[k].body.kind = "Round1"
        BY <1>5, <3>1, NothingReadNoShare
      <3>. QED
        BY <1>2, <3>2 DEF Sayings
    <2> HIDE DEF x
    <2>3. /\ IsFiniteSet(Sayings \ {x}) /\ Cardinality(Sayings \ {x}) = 2 * N - 1
      BY <2>1, SayingsCount
    <2>4. Len(log) <= 2 * N - 1
      BY <1>1, <2>2, <2>3, LogFits
    <2>. QED
      BY <1>1, <1>5, <2>4 DEF Unread
  <1>. QED
    BY <1>4, <1>5

\* Whatever the interleaving, and also when parties panic or are overtaken,
\* nobody falls further behind than 2N - 1 messages: a party that has read
\* nothing has not sent its share, and everybody says two things.
THEOREM NobodyFarBehind == Spec => []BacklogBounded
  <1>. QED
    BY Inductive, GivesBacklogBounded, PTL

\* A channel with room for 2N - 1 messages never overtakes anybody: recv() does
\* not fail, and the tasks end with an output, a panic or a deadline.
THEOREM NeverOvertaken ==
    ASSUME Capacity >= 2 * N - 1
    PROVE  Spec => [](\A p \in Party : status[p] = "receive" => ~Overtaken(p))
  <1>1. ASSUME IInv, NEW p \in Party, status[p] = "receive" PROVE ~Overtaken(p)
    <2>1. Unread(p) <= 2 * N - 1
      BY <1>1, GivesBacklogBounded DEF BacklogBounded
    <2>2. Unread(p) \in Int /\ N \in Nat /\ Capacity \in Nat
      BY <1>1, NAssumption, CapacityAssumption DEF IInv, Tasks, Plain, Unread
    <2>. QED
      BY <2>1, <2>2 DEF Overtaken
  <1>2. IInv => \A p \in Party : status[p] = "receive" => ~Overtaken(p)
    BY <1>1
  <1>. QED
    BY <1>2, Inductive, PTL
=============================================================================
