-------------------------- MODULE SimulationProofs --------------------------
(***************************************************************************)
(* Proofs about the synchronous simulation: up to any number of parties,   *)
(* in any order, with any messages, and any number of calls of run().      *)
(*                                                                         *)
(* With the parties in the vector the course of run() is determined: the   *)
(* nonces leave in the order of the vector, then the shares do.  So a      *)
(* state is described by how far in this one sequence of 2n messages each  *)
(* party has been handed them, and the invariant says where that is.       *)
(***************************************************************************)
EXTENDS SimulationProps, InstanceLemmas

\* The parties of a vector: their number, and the index and message of each.
Plans ==
    UNION { [n : {n},
             order : {f \in [1..n -> 1..n] : \A i, j \in 1..n : f[i] = f[j] => i = j},
             message : [1..n -> Messages]] : n \in 2..N }

\* The j-th message of all, and the position of the party that sends it.
Pos(b, j) == IF j <= b.n THEN j ELSE j - b.n

Message(b, j) ==
    LET i == b.order[Pos(b, j)]
        m == b.message[Pos(b, j)]
    IN  IF j <= b.n THEN Nonces(i, i, m) ELSE OwnShare(i, i, Context(b.n, m))

Kind(b, j) == IF j <= b.n THEN "Round1" ELSE "Round2"

\* The messages after the x-th up to the y-th.
Slice(b, x, y) == [j \in 1..(y - x) |-> Message(b, x + j)]

\* What the party at k has heard after the first r messages, and what it has
\* sent after its nonces and after its share.
HeardBy(b, k, r) == {Message(b, j) : j \in {x \in 1..r : Pos(b, x) # k}}
Once(b, k)  == {Message(b, k)}
Twice(b, k) == {Message(b, k), Message(b, b.n + k)}

InOrder(u, b, k, E, S) ==
    InstOK(u, b.order[k], b.n, b.order[k], b.message[k], Bodies, E, S)

\* u is the party at k after it was handed the first r messages and sent S.
View(u, b, k, r, S) ==
    /\ InOrder(u, b, k, HeardBy(b, k, r), S)
    /\ Settled(u)
    /\ \A j \in 1..(2 * b.n) : Pos(b, j) # k =>
         (Heard(u, Kind(b, j), b.order[Pos(b, j)]) <=> j <= r)

Fresh(u, b, k) == u = NewInstance(b.order[k], b.n, b.order[k], b.message[k])

\* The vector is that of the plan.
Planned(b) ==
    /\ parties = [k \in 1..b.n |-> parties[k]] /\ Len(parties) = b.n
    /\ at \in 1..b.n

Differ(b) == \E j, k \in 1..b.n : b.message[j] # b.message[k]

(* Where run() is.                                                         *)
Idle(b) ==
    /\ pc = "idle" /\ at = 1 /\ seen = 0
    /\ \A k \in 1..b.n : Fresh(parties[k], b, k)

\* The first lap: each party leaves Prepare and sends its nonces.
Starting(b) ==
    /\ pc = "proceed" /\ seen = 0 /\ frozen = << >>
    /\ pull = Slice(b, 0, at - 1)
    /\ \A k \in 1..b.n :
         IF k < at THEN View(parties[k], b, k, 0, Once(b, k)) ELSE Fresh(parties[k], b, k)

\* The parties have been handed g messages each.
Between(b, g) ==
    /\ pc \in {"proceed", "check"} /\ seen = 0
    /\ pc = "check" => at = 1
    /\ g = 0 => pc = "check"
    /\ pull = Slice(b, g, IF g = 0 THEN b.n ELSE 2 * b.n)
    /\ \A k \in 1..b.n :
         View(parties[k], b, k, g, IF g = 0 THEN Once(b, k) ELSE Twice(b, k))

\* They are handed the nonces, and send their shares.
HandingNonces(b) ==
    /\ pc = "handle" /\ seen \in 0..b.n
    /\ frozen = Slice(b, 0, b.n) /\ pull = Slice(b, b.n, b.n + at - 1)
    /\ View(parties[at], b, at, seen, Once(b, at))
    /\ \A k \in 1..b.n : /\ k < at => View(parties[k], b, k, b.n, Twice(b, k))
                         /\ k > at => View(parties[k], b, k, 0, Once(b, k))

\* They are handed the shares.
HandingShares(b) ==
    /\ pc = "handle" /\ seen \in 0..b.n
    /\ frozen = Slice(b, b.n, 2 * b.n) /\ pull = << >>
    /\ View(parties[at], b, at, b.n + seen, Twice(b, at))
    /\ \A k \in 1..b.n : /\ k < at => View(parties[k], b, k, 2 * b.n, Twice(b, k))
                         /\ k > at => View(parties[k], b, k, b.n, Twice(b, k))

\* The outputs are picked; another run() drives empty shells.
Over(b) ==
    /\ pc \in {"returned", "proceed", "check", "handle"} /\ seen = 0
    /\ ~Differ(b)
    /\ pc = "returned" => Len(answer) = b.n
    /\ pc # "returned" => pull = << >>
    /\ pc = "handle" => frozen = << >>
    /\ \A k \in 1..b.n :
         /\ Shaped(parties[k], b.order[k], b.n, b.order[k], b.message[k])
         /\ parties[k].round = "Gone" /\ parties[k].result = None
         /\ parties[k].msgs_queue = << >>

\* The assert! of Round2 failed.
Panic(b) ==
    /\ pc = "panicked" /\ Differ(b)
    /\ \A k \in 1..b.n : parties[k].result = None /\ parties[k].message = b.message[k]

Stage(b) ==
    \/ Idle(b) \/ Starting(b)
    \/ \E g \in {0, b.n, 2 * b.n} : Between(b, g)
    \/ HandingNonces(b) \/ HandingShares(b)
    \/ Over(b) \/ Panic(b)

IInv == /\ refused = {} /\ measured \subseteq {0}
        /\ \E b \in Plans : Planned(b) /\ Stage(b)
-----------------------------------------------------------------------------
(* The plan and its messages.                                              *)
LEMMA PlanType ==
    ASSUME NEW b \in Plans
    PROVE  /\ b.n \in 2..N /\ b.n \in Nat \ {0} /\ b.n >= 2 /\ 2 * b.n \in Nat
           /\ b.order \in [1..b.n -> 1..b.n]
           /\ \A j, k \in 1..b.n : b.order[j] = b.order[k] => j = k
           /\ b.message \in [1..b.n -> Messages]
           /\ \A k \in 1..b.n : b.order[k] \in 1..b.n /\ b.message[k] \in Messages
  <1>1. PICK n \in 2..N :
          b \in [n : {n},
                 order : {f \in [1..n -> 1..n] : \A i, j \in 1..n : f[i] = f[j] => i = j},
                 message : [1..n -> Messages]]
    BY DEF Plans
  <1>2. b.n = n
    BY <1>1
  <1>3. n \in Nat \ {0} /\ n >= 2 /\ 2 * n \in Nat
    BY NAssumption
  <1>. QED
    BY <1>1, <1>2, <1>3

\* Every index is somebody's.
LEMMA EverybodyThere ==
    ASSUME NEW b \in Plans, NEW i \in 1..b.n
    PROVE  \E k \in 1..b.n : b.order[k] = i
  <1> DEFINE S == 1..b.n
  <1>1. b.n \in Nat /\ b.order \in [S -> S] /\ \A j, k \in S : b.order[j] = b.order[k] => j = k
    BY PlanType
  <1>2. IsFiniteSet(S)
    BY <1>1, FS_Interval
  <1>3. b.order \in Injection(S, S)
    BY <1>1 DEF Injection, IsInjective
  <1>4. b.order \in Surjection(S, S)
    BY <1>2, <1>3, FS_Injection
  <1>. QED
    BY <1>4 DEF Surjection

\* None is no body and no store of a party.
LEMMA NoneIsNothing ==
    ASSUME NEW b \in Plans, NEW k \in 1..b.n
    PROVE  None \notin Bodies /\ NoneIsNone(b.order[k], b.n, Bodies)
  <1>1. b.n \in 2..N /\ b.order[k] \in 1..b.n
    BY PlanType
  <1>. QED
    BY <1>1, NoneAssumption DEF NoneIsNone, StoresOf

\* Every message is of a position; the two of position k are the k-th and the n+k-th.
LEMMA Positions ==
    ASSUME NEW b \in Plans
    PROVE  /\ \A j \in 1..(2 * b.n) : Pos(b, j) \in 1..b.n
           /\ \A k \in 1..b.n : /\ Pos(b, k) = k /\ Pos(b, b.n + k) = k
                                /\ k \in 1..(2 * b.n) /\ b.n + k \in 1..(2 * b.n)
                                /\ Kind(b, k) = "Round1" /\ Kind(b, b.n + k) = "Round2"
  <1>1. b.n \in Nat \ {0}
    BY PlanType
  <1>. QED
    BY <1>1 DEF Pos, Kind

\* No two messages are of one kind and one party.
LEMMA KindAndPosition ==
    ASSUME NEW b \in Plans, NEW j \in 1..(2 * b.n), NEW l \in 1..(2 * b.n),
           Kind(b, j) = Kind(b, l), Pos(b, j) = Pos(b, l)
    PROVE  j = l
  <1>1. b.n \in Nat /\ j \in Nat /\ l \in Nat
    BY PlanType
  <1>2. j <= b.n <=> l <= b.n
    BY DEF Kind
  <1>. QED
    BY <1>1, <1>2 DEF Pos

\* What the j-th message looks like.
LEMMA MessageShape ==
    ASSUME NEW b \in Plans, NEW j \in 1..(2 * b.n)
    PROVE  LET x == Message(b, j)
               i == b.order[Pos(b, j)]
           IN  /\ x.sender = i /\ i \in 1..b.n /\ x.receiver = None
               /\ x.body \in Bodies
               /\ x.body.kind = Kind(b, j) /\ x.body.key = i
               /\ Kind(b, j) \in {"Round1", "Round2"}
               /\ Kind(b, j) = "Round1" <=> j <= b.n
               /\ Kind(b, j) = "Round2" => x.body = Share(i, Context(b.n, b.message[Pos(b, j)]))
  <1> DEFINE x == Message(b, j)
             i == b.order[Pos(b, j)]
             m == b.message[Pos(b, j)]
  <1>1. Pos(b, j) \in 1..b.n /\ b.n \in 2..N
    BY Positions, PlanType
  <1>2. i \in 1..b.n /\ m \in Messages
    BY <1>1, PlanType
  <1>3. i \in 1..N
    BY <1>1, <1>2, NAssumption
  <1>4. CASE j <= b.n
    <2>1. x = Broadcast(i, Round1Body(i, m)) /\ Kind(b, j) = "Round1"
      BY <1>4 DEF Message, Nonces, Kind
    <2>2. Round1Body(i, m) \in Bodies
      BY <1>2, <1>3 DEF Bodies
    <2>. QED
      BY <1>2, <1>4, <2>1, <2>2 DEF Broadcast, Round1Body
  <1>5. CASE ~(j <= b.n)
    <2>1. x = Broadcast(i, Share(i, Context(b.n, m))) /\ Kind(b, j) = "Round2"
      BY <1>5 DEF Message, OwnShare, Kind
    <2>2. Share(i, Context(b.n, m)) \in Bodies
      BY <1>1, <1>2, <1>3 DEF Bodies
    <2>. QED
      BY <1>2, <1>5, <2>1, <2>2 DEF Broadcast, Share
  <1>. QED
    BY <1>4, <1>5

\* What a party hears can be handed to its instance.
LEMMA Handed ==
    ASSUME NEW b \in Plans, NEW j \in 1..(2 * b.n), NEW E, Message(b, j) \in E
    PROVE  Incoming(Message(b, j), Bodies, E)
  BY MessageShape DEF Incoming

\* A party that hears the nonces knows who is who.
LEMMA OneContext ==
    ASSUME NEW b \in Plans, NEW k \in 1..b.n, NEW r \in 0..(2 * b.n), NEW m,
           NEW c, KeysFrom(c, b.order[k], b.n, b.order[k], m, HeardBy(b, k, r))
    PROVE  c = Context(b.n, m)
  <1>1. /\ c = [pks |-> c.pks, message |-> m]
        /\ c.pks = [i \in 1..b.n |-> c.pks[i]]
        /\ c.pks[b.order[k]] = b.order[k]
    BY DEF KeysFrom
  <1>2. ASSUME NEW i \in 1..b.n PROVE c.pks[i] = i
    <2>1. CASE i = b.order[k]
      BY <1>1, <2>1
    <2>2. CASE i # b.order[k]
      <3>1. PICK x \in HeardBy(b, k, r) : x.sender = i /\ x.body.key = c.pks[i]
        BY <2>2 DEF KeysFrom
      <3>2. PICK j \in 1..r : x = Message(b, j)
        BY <3>1 DEF HeardBy
      <3>3. j \in 1..(2 * b.n)
        BY PlanType
      <3>. QED
        BY <3>1, <3>2, <3>3, MessageShape
    <2>. QED
      BY <2>1, <2>2
  <1>. QED
    BY <1>1, <1>2 DEF Context

\* Nobody hears its own messages, and everybody the next one of somebody else.
LEMMA HeardNext ==
    ASSUME NEW b \in Plans, NEW k \in 1..b.n, NEW r \in Nat, r + 1 <= 2 * b.n
    PROVE  /\ HeardBy(b, k, 0) = {}
           /\ HeardBy(b, k, r) \subseteq HeardBy(b, k, r + 1)
           /\ Pos(b, r + 1) # k => Message(b, r + 1) \in HeardBy(b, k, r + 1)
           /\ Pos(b, r + 1) = k => HeardBy(b, k, r + 1) = HeardBy(b, k, r)
  <1>1. /\ 1..0 = {} /\ r + 1 \in 1..(r + 1)
        /\ 1..(r + 1) = (1..r) \cup {r + 1}
    OBVIOUS
  <1>. QED
    BY <1>1 DEF HeardBy
-----------------------------------------------------------------------------
(* What a party has made of the messages it was handed.                    *)
LEMMA NotHeard ==
    ASSUME NEW b \in Plans, NEW k \in 1..b.n, NEW r, NEW S, NEW u, View(u, b, k, r, S),
           NEW j \in 1..(2 * b.n), Pos(b, j) # k, ~(j <= r)
    PROVE  ~Heard(u, Kind(b, j), b.order[Pos(b, j)])
  BY DEF View

\* A store that wants more lacks the message of somebody else.
LEMMA Lacking ==
    ASSUME NEW b \in Plans, NEW k \in 1..b.n, NEW r, NEW S, NEW u, View(u, b, k, r, S),
           NEW kind \in {"Round1", "Round2"}, StoreWantsMore(StoreOfKind(u, kind))
    PROVE  \E j \in 1..(2 * b.n) : Pos(b, j) # k /\ Kind(b, j) = kind /\ ~(j <= r)
  <1> DEFINE store == StoreOfKind(u, kind)
             o == b.order[k]
  <1>1. b.n \in Nat \ {0} /\ o \in 1..b.n
    BY PlanType
  <1>2. store # None /\ WantsMore(store)
    BY DEF StoreWantsMore
  <1>3. InstOK(u, o, b.n, o, b.message[k], Bodies, HeardBy(b, k, r), S)
    BY DEF View, InOrder
  <1>4. u.party_i = o /\ ExactStore(store, o, b.n, Bodies)
    BY <1>2, <1>3 DEF InstOK, Shaped, StoreOK, StoreOfKind
  <1>5. /\ DOMAIN store.msgs = 1..(b.n - 1)
        /\ store.msgs_left = Cardinality(EmptySlots(store)) /\ store.msgs_left > 0
    BY <1>2, <1>4 DEF ExactStore, WantsMore
  <1>6. PICK s \in 1..(b.n - 1) : store.msgs[s] = None
    <2>1. CASE EmptySlots(store) = {}
      <3>1. Cardinality(EmptySlots(store)) = 0
        BY <2>1, FS_EmptySet
      <3>. QED
        BY <1>5, <3>1
    <2>2. CASE EmptySlots(store) # {}
      BY <1>5, <2>2 DEF EmptySlots
    <2>. QED
      BY <2>1, <2>2
  <1>7. SlotParty(o, s) \in (1..b.n) \ {o} /\ PartyJ(o, SlotParty(o, s)) = s
    BY <1>1, PartyOfSlot
  <1>8. PICK l \in 1..b.n : b.order[l] = SlotParty(o, s)
    BY <1>7, EverybodyThere
  <1>9. l # k /\ ~Heard(u, kind, b.order[l])
    BY <1>2, <1>4, <1>6, <1>7, <1>8 DEF Heard
  <1> DEFINE j == IF kind = "Round1" THEN l ELSE b.n + l
  <1>10. j \in 1..(2 * b.n) /\ Pos(b, j) = l /\ Kind(b, j) = kind
    BY Positions
  <1>11. ~(j <= r)
    BY <1>9, <1>10 DEF View
  <1>. QED
    BY <1>9, <1>10, <1>11

\* Somebody else is there.
LEMMA Another ==
    ASSUME NEW b \in Plans, NEW k \in 1..b.n
    PROVE  \E l \in 1..b.n : l # k
  <1>1. b.n \in Nat /\ b.n >= 2
    BY PlanType
  <1>2. CASE k = 1
    BY <1>1, <1>2
  <1>3. CASE k # 1
    BY <1>1, <1>3
  <1>. QED
    BY <1>2, <1>3

\* The round follows from what was handed to the party.
LEMMA RoundOf ==
    ASSUME NEW b \in Plans, NEW k \in 1..b.n, NEW S, NEW u
    PROVE  /\ View(u, b, k, 0, S) => u.round = "Round1"
           /\ View(u, b, k, b.n, S) => u.round = "Round2"
           /\ View(u, b, k, 2 * b.n, S) => u.round = "Finished"
  <1> DEFINE Basic(r) ==
               /\ u.round \in {"Round1", "Round2", "Finished"}
               /\ u.msgs1 # None <=> u.round \in {"Prepare", "Round1"}
               /\ u.msgs2 # None <=> u.round \in {"Prepare", "Round1", "Round2"}
               /\ u.round = "Round1" => StoreWantsMore(StoreOfKind(u, "Round1"))
               /\ u.round = "Round2" => StoreWantsMore(StoreOfKind(u, "Round2"))
  <1>1. ASSUME NEW r, View(u, b, k, r, S) PROVE Basic(r)
    BY <1>1 DEF View, InOrder, InstOK, Settled, WantsToProceed, StoreOfKind
  <1>2. PICK l \in 1..b.n : l # k
    BY Another
  <1>3. b.n \in Nat \ {0}
    BY PlanType
  <1>4. /\ Pos(b, l) # k /\ Pos(b, b.n + l) # k
        /\ l \in 1..(2 * b.n) /\ b.n + l \in 1..(2 * b.n)
        /\ Kind(b, l) = "Round1" /\ Kind(b, b.n + l) = "Round2"
    BY <1>2, Positions
  <1>5. ASSUME View(u, b, k, 0, S) PROVE u.round = "Round1"
    <2>1. ~Heard(u, "Round1", b.order[Pos(b, l)])
      BY <1>3, <1>4, <1>5, NotHeard
    <2>. QED
      BY <1>1, <1>5, <2>1 DEF Heard, StoreOfKind
  <1>6. ASSUME View(u, b, k, b.n, S) PROVE u.round = "Round2"
    <2>1. ~(b.n + l <= b.n)
      BY <1>3
    <2>2. ~Heard(u, "Round2", b.order[Pos(b, b.n + l)])
      BY <1>4, <1>6, <2>1, NotHeard
    <2>3. u.round \in {"Round1", "Round2"}
      BY <1>1, <1>6, <2>2 DEF Heard, StoreOfKind
    <2>4. ASSUME u.round = "Round1" PROVE FALSE
      <3>1. PICK j \in 1..(2 * b.n) : Kind(b, j) = "Round1" /\ ~(j <= b.n)
        BY <1>1, <1>6, <2>4, Lacking
      <3>. QED
        BY <3>1 DEF Kind
    <2>. QED
      BY <2>3, <2>4
  <1>7. ASSUME View(u, b, k, 2 * b.n, S) PROVE u.round = "Finished"
    <2>1. ASSUME NEW kind \in {"Round1", "Round2"}, StoreWantsMore(StoreOfKind(u, kind))
          PROVE  FALSE
      <3>1. PICK j \in 1..(2 * b.n) : ~(j <= 2 * b.n)
        BY <1>7, <2>1, Lacking
      <3>. QED
        BY <1>3, <3>1
    <2>. QED
      BY <1>1, <1>7, <2>1
  <1>. QED
    BY <1>5, <1>6, <1>7

\* A party that has finished was given what everybody was given.
LEMMA FinishedAgree ==
    ASSUME NEW b \in Plans, NEW k \in 1..b.n, NEW r \in 0..(2 * b.n), NEW S,
           NEW u, InOrder(u, b, k, HeardBy(b, k, r), S), u.round = "Finished"
    PROVE  ~Differ(b)
  <1> DEFINE o == b.order[k]
             m == b.message[k]
             c == u.result.ctx
             E == HeardBy(b, k, r)
  <1>1. KeysFrom(c, o, b.n, o, m, E) /\ SharesFrom(c, b.n, o, E)
    BY DEF InOrder, InstOK, Progress, Done
  <1>2. c = Context(b.n, m)
    BY <1>1, OneContext
  <1>3. ASSUME NEW l \in 1..b.n PROVE b.message[l] = m
    <2>1. CASE l = k
      BY <2>1
    <2>2. CASE l # k
      <3>1. b.order[l] \in 1..b.n /\ b.order[l] # o
        BY <2>2, PlanType
      <3>2. c.pks[b.order[l]] = b.order[l]
        BY <1>2, <3>1 DEF Context
      <3>3. PICK x \in E : x.body = Share(b.order[l], c)
        BY <1>1, <3>1, <3>2 DEF SharesFrom
      <3>4. PICK j \in 1..r : x = Message(b, j)
        BY <3>3 DEF HeardBy
      <3>5. j \in 1..(2 * b.n) /\ Pos(b, j) \in 1..b.n
        <4>1. j \in 1..(2 * b.n)
          BY PlanType
        <4>. QED
          BY <4>1, Positions
      <3>6. /\ x.body.kind = "Round2" /\ x.body.key = b.order[l] /\ x.body.ctx = c
        BY <3>3 DEF Share
      <3>7. /\ Kind(b, j) = "Round2" /\ b.order[Pos(b, j)] = b.order[l]
            /\ x.body = Share(b.order[Pos(b, j)], Context(b.n, b.message[Pos(b, j)]))
        BY <3>4, <3>5, <3>6, MessageShape
      <3>8. Pos(b, j) = l
        BY <3>5, <3>7, PlanType
      <3>9. Context(b.n, b.message[l]) = c
        BY <3>6, <3>7, <3>8 DEF Share
      <3>. QED
        BY <1>2, <3>9 DEF Context
    <2>. QED
      BY <2>1, <2>2
  <1>. QED
    BY <1>3 DEF Differ

\* When all were given the same, the shares agree.
LEMMA SameAgree ==
    ASSUME NEW b \in Plans, ~Differ(b), NEW k \in 1..b.n, NEW r \in 0..(2 * b.n)
    PROVE  SharesAgree(b.order[k], b.n, b.order[k], b.message[k], HeardBy(b, k, r))
  <1> DEFINE o == b.order[k]
             m == b.message[k]
             E == HeardBy(b, k, r)
  <1>1. ASSUME NEW c, KeysFrom(c, o, b.n, o, m, E),
               NEW body, NEW p, Came(body, "Round2", p, E), p \in (1..b.n) \ {o}
        PROVE  body = Share(c.pks[p], c)
    <2>1. c = Context(b.n, m) /\ c.pks[p] = p
      <3>1. c = Context(b.n, m)
        BY <1>1, OneContext
      <3>. QED
        BY <1>1, <3>1 DEF Context
    <2>2. PICK x \in E : x.sender = p /\ x.body = body /\ x.body.kind = "Round2"
      BY <1>1 DEF Came
    <2>3. PICK j \in 1..r : x = Message(b, j)
      BY <2>2 DEF HeardBy
    <2>4. j \in 1..(2 * b.n) /\ Pos(b, j) \in 1..b.n
      <3>1. j \in 1..(2 * b.n)
        BY PlanType
      <3>. QED
        BY <3>1, Positions
    <2>5. body = Share(p, Context(b.n, b.message[Pos(b, j)]))
      BY <2>2, <2>3, <2>4, MessageShape
    <2>6. b.message[Pos(b, j)] = m
      BY <2>4 DEF Differ
    <2>. QED
      BY <2>1, <2>5, <2>6
  <1>. QED
    BY <1>1 DEF SharesAgree
-----------------------------------------------------------------------------
(* What the steps do to a party.                                           *)
LEMMA NextMessage ==
    ASSUME NEW b \in Plans, NEW k \in 1..b.n, NEW r \in Nat, r + 1 <= 2 * b.n
    PROVE  /\ r + 1 \in 1..(2 * b.n) /\ r + 1 \in 0..(2 * b.n) /\ ~(r + 1 <= r)
           /\ \A j \in 1..(2 * b.n) : j <= r + 1 <=> j <= r \/ j = r + 1
  <1>1. b.n \in Nat
    BY PlanType
  <1>. QED
    BY <1>1

\* handle_incoming takes the next message of somebody else.
LEMMA TakesNext ==
    ASSUME NEW b \in Plans, NEW k \in 1..b.n, NEW r \in Nat, r + 1 <= 2 * b.n,
           NEW S, NEW u, View(u, b, k, r, S), Pos(b, r + 1) # k
    PROVE  LET x == Message(b, r + 1)
               h == HandleIncoming(u, x)
           IN  /\ x.sender # u.party_i
               /\ HandleResult(u, x) = "Ok"
               /\ InOrder(h, b, k, HeardBy(b, k, r + 1), S)
               /\ ~Panicked(h) => View(h, b, k, r + 1, S)
               /\ Panicked(h) => Differ(b)
  <1> DEFINE o == b.order[k]
             m == b.message[k]
             E == HeardBy(b, k, r + 1)
             x == Message(b, r + 1)
             h == HandleIncoming(u, x)
             from == b.order[Pos(b, r + 1)]
  <1>1. /\ b.n \in Nat \ {0} /\ o \in 1..b.n
        /\ r + 1 \in 1..(2 * b.n) /\ r + 1 \in 0..(2 * b.n) /\ ~(r + 1 <= r)
    BY PlanType, NextMessage
  <1>2. NoneIsNone(o, b.n, Bodies) /\ None \notin Bodies
    BY NoneIsNothing
  <1>3. /\ x.sender = from /\ x.receiver = None /\ x.body.kind = Kind(b, r + 1)
        /\ x.body.kind \in {"Round1", "Round2"}
    BY <1>1, MessageShape
  <1>4. from \in (1..b.n) \ {o}
    <2>1. Pos(b, r + 1) \in 1..b.n
      BY <1>1, Positions
    <2>. QED
      BY <2>1, PlanType
  <1>5. InstOK(u, o, b.n, o, m, Bodies, E, S)
    <2>1. InstOK(u, o, b.n, o, m, Bodies, HeardBy(b, k, r), S)
      BY DEF View, InOrder
    <2>2. HeardBy(b, k, r) \subseteq E
      BY HeardNext
    <2>. QED
      BY <2>1, <2>2, InstOKGrows
  <1>6. Incoming(x, Bodies, E)
    <2>1. x \in E
      BY HeardNext
    <2>. QED
      BY <1>1, <2>1, Handed
  <1>7. u.party_i = o /\ Settled(u)
    BY <1>5 DEF InstOK, Shaped, View
  <1>8. ~Heard(u, x.body.kind, x.sender)
    BY <1>1, <1>3, NotHeard
  <1>9. HandleResult(u, x) = "Ok"
    <2> DEFINE store == StoreOfKind(u, x.body.kind)
    <2>1. store = StoreFor(u, x)
      BY DEF StoreOfKind, StoreFor
    <2>2. store # None /\ store.msgs[PartyJ(o, from)] = None
      BY <1>3, <1>7, <1>8 DEF Heard
    <2>3. PartyJ(o, from) \in 1..(b.n - 1)
      BY <1>1, <1>4, SlotOfParty
    <2>4. ExactStore(store, o, b.n, Bodies)
      BY <1>3, <1>5, <2>2 DEF InstOK, StoreOK, StoreOfKind
    <2>5. store.party_i = o /\ DOMAIN store.msgs = 1..(b.n - 1)
      BY <2>4 DEF ExactStore
    <2>6. from # 0 /\ from # o
      BY <1>1, <1>4
    <2>7. PushResult(store, x) = "Ok"
      BY <1>3, <2>2, <2>3, <2>5, <2>6 DEF PushResult
    <2>. QED
      BY <2>1, <2>2, <2>7 DEF HandleResult, Accepts
  <1>10. InstOK(h, o, b.n, o, m, Bodies, E, S)
    BY <1>1, <1>2, <1>5, <1>6, HandleIncomingOK
  <1>11. ASSUME ~Panicked(h) PROVE View(h, b, k, r + 1, S)
    <2>1. Settled(h)
      BY <1>1, <1>2, <1>5, <1>6, <1>7, <1>11, HandleIncomingSettles
    <2>2. ASSUME NEW j \in 1..(2 * b.n), Pos(b, j) # k
          PROVE  Heard(h, Kind(b, j), b.order[Pos(b, j)]) <=> j <= r + 1
      <3> DEFINE p == b.order[Pos(b, j)]
      <3>1. Pos(b, j) \in 1..b.n
        BY Positions
      <3>2. p \in (1..b.n) \ {o} /\ Kind(b, j) \in {"Round1", "Round2"}
        BY <2>2, <3>1, PlanType DEF Kind
      <3>3. Heard(h, Kind(b, j), p) <=>
              Heard(u, Kind(b, j), p) \/ (Kind(b, j) = Kind(b, r + 1) /\ p = from)
        <4> DEFINE kind == Kind(b, j)
        <4>1. x.sender \in (1..b.n) \ {o} /\ x.receiver = None
          BY <1>3, <1>4
        <4>2. kind \in {"Round1", "Round2"} /\ p \in (1..b.n) \ {o}
          BY <3>2
        <4>3. b.n \in Nat \ {0} /\ o \in 1..b.n /\ NoneIsNone(o, b.n, Bodies)
          BY <1>1, <1>2
        <4> HIDE DEF kind, p, x, o, m, E
        <4>4. Heard(HandleIncoming(u, x), kind, p) <=>
                Heard(u, kind, p) \/ (kind = x.body.kind /\ p = x.sender)
          BY <1>5, <1>6, <4>1, <4>2, <4>3, HandleIncomingHears, SMTT(60)
        <4>. QED
          BY <1>3, <4>4 DEF kind
      <3>4. Heard(u, Kind(b, j), p) <=> j <= r
        BY <2>2 DEF View
      <3>5. Kind(b, j) = Kind(b, r + 1) /\ p = from <=> j = r + 1
        <4>1. Pos(b, r + 1) \in 1..b.n
          BY <1>1, Positions
        <4>2. p = from => Pos(b, j) = Pos(b, r + 1)
          BY <3>1, <4>1, PlanType
        <4>3. Kind(b, j) = Kind(b, r + 1) /\ Pos(b, j) = Pos(b, r + 1) => j = r + 1
          BY <1>1, KindAndPosition
        <4>. QED
          BY <4>2, <4>3
      <3>. QED
        BY <3>3, <3>4, <3>5, NextMessage
    <2>. QED
      BY <1>10, <2>1, <2>2 DEF View, InOrder
  <1>12. ASSUME ~Differ(b) PROVE ~Panicked(h)
    <2>1. SharesAgree(o, b.n, o, m, E)
      BY <1>1, <1>12, SameAgree
    <2>2. ~Panicked(u)
      BY <1>7 DEF Settled, Panicked
    <2>3. ~Panicked(Turn(u, x))
      BY <1>1, <1>2, <1>5, <1>6, <2>1, <2>2, NoPanicTurn
    <2>4. Turn(u, x) = h
      BY <1>1, <1>2, <1>5, <1>6, <1>7, TurnIsHandleIncoming
    <2>. QED
      BY <2>3, <2>4
  <1>13. x.sender # u.party_i
    BY <1>3, <1>4, <1>7
  <1>14. InOrder(h, b, k, E, S)
    BY <1>10 DEF InOrder
  <1>. QED
    BY <1>9, <1>11, <1>12, <1>13, <1>14

\* Its own messages a party skips.
LEMMA SkipsOwn ==
    ASSUME NEW b \in Plans, NEW k \in 1..b.n, NEW r \in Nat, r + 1 <= 2 * b.n,
           NEW S, NEW u, View(u, b, k, r, S), Pos(b, r + 1) = k
    PROVE  View(u, b, k, r + 1, S) /\ Message(b, r + 1).sender = u.party_i
  <1>1. HeardBy(b, k, r + 1) = HeardBy(b, k, r) /\ r + 1 \in 1..(2 * b.n)
    BY HeardNext, NextMessage
  <1>2. \A j \in 1..(2 * b.n) : Pos(b, j) # k => (j <= r + 1 <=> j <= r)
    BY NextMessage
  <1>3. View(u, b, k, r + 1, S)
    BY <1>1, <1>2 DEF View
  <1>4. Message(b, r + 1).sender = b.order[k]
    BY <1>1, MessageShape
  <1>5. u.party_i = b.order[k]
    BY DEF View, InOrder, InstOK, Shaped
  <1>. QED
    BY <1>3, <1>4, <1>5

Drained(u) == [u EXCEPT !.msgs_queue = << >>]

\* Sending changes nothing but what has left.
LEMMA Sends ==
    ASSUME NEW b \in Plans, NEW k \in 1..b.n, NEW r, NEW S, NEW u, View(u, b, k, r, S)
    PROVE  /\ View(Drained(u), b, k, r, S \cup {u.msgs_queue[q] : q \in DOMAIN u.msgs_queue})
           /\ CurrentRound(Drained(u)) = CurrentRound(u)
           /\ Drained(u).round = u.round
  <1> DEFINE t == Drained(u)
             S2 == S \cup {u.msgs_queue[q] : q \in DOMAIN u.msgs_queue}
  <1>1. InOrder(t, b, k, HeardBy(b, k, r), S2)
    BY DrainOK DEF View, InOrder, Drained
  <1>2. u = [f \in Fields |-> u[f]]
    BY DEF View, InOrder, InstOK, Shaped
  <1>3. /\ t.round = u.round /\ t.party_i = u.party_i
        /\ t.msgs1 = u.msgs1 /\ t.msgs2 = u.msgs2
    BY <1>2 DEF Drained, Fields
  <1>4. Settled(t)
    BY <1>3 DEF View, Settled, WantsToProceed
  <1>5. \A kind, p : Heard(t, kind, p) <=> Heard(u, kind, p)
    BY <1>3 DEF Heard, StoreOfKind
  <1>. QED
    BY <1>1, <1>3, <1>4, <1>5 DEF View, CurrentRound

\* What send_outgoing finds in the queue.
LEMMA Queued ==
    ASSUME NEW b \in Plans, NEW k \in 1..b.n, NEW u
    PROVE  /\ View(u, b, k, 0, {}) => u.msgs_queue = << Message(b, k) >>
           /\ View(u, b, k, b.n, Once(b, k)) => u.msgs_queue = << Message(b, b.n + k) >>
           /\ \A r \in {b.n, 2 * b.n} : View(u, b, k, r, Twice(b, k)) => u.msgs_queue = << >>
  <1> DEFINE o == b.order[k]
             m == b.message[k]
             x == Message(b, k)
             y == Message(b, b.n + k)
             q == u.msgs_queue
  <1>1. b.n \in Nat \ {0} /\ b.n \in 0..(2 * b.n) /\ 2 * b.n \in 0..(2 * b.n)
    BY PlanType
  <1>2. /\ x = Nonces(o, o, m) /\ y = OwnShare(o, o, Context(b.n, m))
    <2>1. k <= b.n /\ ~(b.n + k <= b.n) /\ Pos(b, k) = k /\ Pos(b, b.n + k) = k
      BY <1>1, Positions
    <2>. QED
      BY <2>1 DEF Message
  <1>3. x # y /\ {x} # {} /\ {x, y} # {} /\ {x, y} # {x}
    <2>1. x.body.kind = "Round1" /\ y.body.kind = "Round2"
      BY <1>2 DEF Nonces, OwnShare, Broadcast, Round1Body, Share
    <2>. QED
      BY <2>1
  <1>4. ASSUME NEW r \in 0..(2 * b.n), NEW S, View(u, b, k, r, S), u.round # "Round1"
        PROVE  BothOut(S, q, x, y)
    <2>1. Progress(u, o, b.n, o, m, HeardBy(b, k, r), S) /\ u.round \in {"Round2", "Finished"}
      BY <1>4 DEF View, InOrder, InstOK, Settled
    <2>2. PICK c : Done(u, c, o, b.n, o, m, HeardBy(b, k, r), S)
      BY <2>1 DEF Progress
    <2>3. c = Context(b.n, m)
      BY <2>2, OneContext DEF Done
    <2>. QED
      BY <1>2, <2>2, <2>3 DEF Done
  <1>5. ASSUME View(u, b, k, 0, {}) PROVE q = << x >>
    <2>1. u.round = "Round1"
      BY <1>5, RoundOf
    <2>2. OneOut({}, q, Nonces(o, o, m))
      BY <1>5, <2>1 DEF View, InOrder, InstOK, Progress
    <2>. QED
      BY <1>2, <2>2 DEF OneOut
  <1>6. ASSUME View(u, b, k, b.n, Once(b, k)) PROVE q = << y >>
    <2>1. u.round = "Round2"
      BY <1>6, RoundOf
    <2>2. BothOut({x}, q, x, y)
      BY <1>1, <1>4, <1>6, <2>1 DEF Once
    <2>. QED
      BY <1>3, <2>2 DEF BothOut
  <1>7. ASSUME NEW r \in {b.n, 2 * b.n}, View(u, b, k, r, Twice(b, k)) PROVE q = << >>
    <2>1. u.round # "Round1"
      BY <1>7, RoundOf
    <2>2. BothOut({x, y}, q, x, y)
      BY <1>1, <1>4, <1>7, <2>1 DEF Twice
    <2>. QED
      BY <1>3, <2>2 DEF BothOut
  <1>. QED
    BY <1>5, <1>6, <1>7
-----------------------------------------------------------------------------
(* Vectors.                                                                *)
LEMMA LenIs ==
    ASSUME NEW n \in Nat, NEW s, s = [k \in 1..n |-> s[k]]
    PROVE  Len(s) = n
  <1> DEFINE T == {s[k] : k \in 1..n}
  <1>1. s \in [1..n -> T]
    OBVIOUS
  <1>2. s \in Seq(T)
    BY <1>1
  <1>3. DOMAIN s = 1..Len(s) /\ Len(s) \in Nat /\ DOMAIN s = 1..n
    BY <1>1, <1>2
  <1>. QED
    BY <1>3

\* Slices of the one sequence of messages.
LEMMA Slices ==
    ASSUME NEW b \in Plans, NEW x \in Nat, NEW y \in Nat, x <= y
    PROVE  /\ Len(Slice(b, x, y)) = y - x
           /\ \A j \in 1..(y - x) : Slice(b, x, y)[j] = Message(b, x + j)
           /\ Slice(b, x, y) \o << >> = Slice(b, x, y)
           /\ Slice(b, x, y) \o << Message(b, y + 1) >> = Slice(b, x, y + 1)
  <1> DEFINE s == Slice(b, x, y)
             t == Slice(b, x, y + 1)
             d == y - x
             T == {Message(b, j) : j \in Nat}
             last == Message(b, y + 1)
  <1>1. d \in Nat /\ (y + 1) - x = d + 1 /\ x - x = 0 /\ 1..0 = {}
    OBVIOUS
  <1>2. s = [j \in 1..d |-> Message(b, x + j)] /\ t = [j \in 1..(d + 1) |-> Message(b, x + j)]
    BY <1>1 DEF Slice
  <1>3. \A j \in 1..(d + 1) : Message(b, x + j) \in T
    <2>1. \A j \in 1..(d + 1) : x + j \in Nat
      BY <1>1
    <2>. QED
      BY <2>1
  <1>4. s \in [1..d -> T] /\ t \in [1..(d + 1) -> T] /\ last \in T
    BY <1>1, <1>2, <1>3
  <1> HIDE DEF s, t, T, last, d
  <1>5. s \in Seq(T) /\ t \in Seq(T) /\ Len(s) = d /\ Len(t) = d + 1
    <2>1. s \in Seq(T) /\ t \in Seq(T)
      BY <1>1, <1>4
    <2>2. s = [k \in 1..d |-> s[k]] /\ t = [k \in 1..(d + 1) |-> t[k]]
      BY <1>4
    <2>. QED
      BY <1>1, <2>1, <2>2, LenIs
  <1>7. s \o << >> = s
    BY <1>5
  <1>8. s \o << last >> = t
    <2>1. << last >> \in Seq(T) /\ Len(<< last >>) = 1 /\ << last >>[1] = last
      BY <1>4
    <2>2. s \o << last >> \in Seq(T) /\ Len(s \o << last >>) = d + 1
      BY <1>5, <2>1
    <2>3. ASSUME NEW j \in 1..(d + 1) PROVE (s \o << last >>)[j] = t[j]
      <3>1. CASE j \in 1..d
        <4>1. (s \o << last >>)[j] = s[j]
          BY <1>5, <2>1, <3>1
        <4>2. s[j] = Message(b, x + j) /\ t[j] = Message(b, x + j)
          BY <1>1, <1>2, <3>1
        <4>. QED
          BY <4>1, <4>2
      <3>2. CASE j = d + 1
        <4>1. (s \o << last >>)[j] = last
          BY <1>1, <1>5, <2>1, <3>2
        <4>2. x + j = y + 1
          BY <3>2 DEF d
        <4>3. t[j] = Message(b, x + j)
          BY <1>2
        <4>. QED
          BY <4>1, <4>2, <4>3 DEF last
      <3>3. j \in 1..d \/ j = d + 1
        BY <1>1
      <3>. QED
        BY <3>1, <3>2, <3>3
    <2>. QED
      BY <1>5, <2>2, <2>3, SeqEqual
  <1>9. \A j \in 1..d : s[j] = Message(b, x + j)
    BY <1>2
  <1>. QED
    BY <1>5, <1>7, <1>8, <1>9 DEF s, t, d, last

\* A slice without messages.
LEMMA EmptySlice ==
    ASSUME NEW b, NEW x \in Nat
    PROVE  Slice(b, x, x) = << >>
  <1>1. x - x = 0 /\ 1..0 = {}
    OBVIOUS
  <1>. QED
    BY <1>1 DEF Slice

\* The same for a slice that gets one longer.
LEMMA SliceGrows ==
    ASSUME NEW b \in Plans, NEW x \in Nat, NEW z \in Nat, x < z
    PROVE  Slice(b, x, z - 1) \o << Message(b, z) >> = Slice(b, x, z)
  <1> DEFINE y == z - 1
  <1>1. y \in Nat /\ x <= y /\ y + 1 = z
    OBVIOUS
  <1> HIDE DEF y
  <1>2. Slice(b, x, y) \o << Message(b, y + 1) >> = Slice(b, x, y + 1)
    BY <1>1, Slices
  <1>3. Slice(b, x, y) \o << Message(b, z) >> = Slice(b, x, z)
    BY <1>1, <1>2
  <1>. QED
    BY <1>3 DEF y

\* The loops over the positions.
LEMMA AdvanceIs ==
    ASSUME NEW b \in Plans, Planned(b), NEW after, Advance(after)
    PROVE  /\ at' \in 1..b.n
           /\ \/ at < b.n /\ at' = at + 1 /\ pc' = pc
              \/ at = b.n /\ at' = 1 /\ pc' = after
  <1>1. b.n \in Nat \ {0} /\ at \in 1..b.n /\ Len(parties) = b.n
    BY PlanType DEF Planned
  <1>. QED
    BY <1>1 DEF Advance
-----------------------------------------------------------------------------
(* The first lap.                                                          *)
\* A new party leaves Prepare.
LEMMA LeavesPrepare ==
    ASSUME NEW b \in Plans, NEW k \in 1..b.n, NEW u, Fresh(u, b, k)
    PROVE  /\ WantsToProceed(u) /\ CurrentRound(u) = 0
           /\ ~Panicked(Proceed(u))
           /\ View(Proceed(u), b, k, 0, {})
  <1> DEFINE o == b.order[k]
             m == b.message[k]
             v == Proceed(u)
             OK(w) == InstOK(w, o, b.n, o, m, Bodies, {}, {})
  <1>1. b.n \in Nat \ {0} /\ o \in 1..b.n
    BY PlanType
  <1>2. NoneIsNone(o, b.n, Bodies) /\ None \notin Bodies
    BY NoneIsNothing
  <1>3. HeardBy(b, k, 0) = {}
    <2>1. 0 \in Nat /\ 0 + 1 <= 2 * b.n
      BY PlanType
    <2>. QED
      BY <2>1, HeardNext
  <1>4. u.round = "Prepare"
    BY DEF Fresh, NewInstance
  <1>5. WantsToProceed(u) /\ CurrentRound(u) = 0 /\ ~Panicked(u)
    BY <1>4 DEF WantsToProceed, CurrentRound, Panicked
  <1>6. OK(u)
    BY <1>1, <1>2, NewInstanceOK DEF Fresh
  <1>7. SharesAgree(o, b.n, o, m, {})
    BY DEF SharesAgree, Came
  <1>8. ~Panicked(v)
    BY <1>1, <1>2, <1>5, <1>6, <1>7, AgreementNoPanic DEF Proceed
  <1>9. OK(v)
    BY <1>1, <1>2, <1>6, ProceedRoundOK DEF Proceed
  <1>10. Settled(v)
    BY <1>1, <1>2, <1>6, <1>8, ProceedSettles DEF Proceed
  <1>11. ASSUME NEW j \in 1..(2 * b.n), Pos(b, j) # k
         PROVE  Heard(v, Kind(b, j), b.order[Pos(b, j)]) <=> j <= 0
    <2> DEFINE p == b.order[Pos(b, j)]
               kind == Kind(b, j)
    <2>1. Pos(b, j) \in 1..b.n
      BY Positions
    <2>2. p \in (1..b.n) \ {o}
      BY <1>11, <2>1, PlanType
    <2>3. Heard(v, kind, p) <=> Heard(u, kind, p)
      <3> HIDE DEF kind, p, o, m
      <3>1. Heard(ProceedRound(u, TRUE), kind, p) <=> Heard(u, kind, p)
        BY <1>1, <1>2, <1>6, <2>2, ProceedHears
      <3>. QED
        BY <3>1 DEF Proceed
    <2>4. PartyJ(o, p) \in 1..(b.n - 1)
      BY <1>1, <2>2, SlotOfParty
    <2>5. StoreOfKind(u, kind) = NewStore(o, b.n) /\ u.party_i = o
      BY DEF Fresh, NewInstance, StoreOfKind
    <2>6. NewStore(o, b.n) # None
      BY <1>1, <1>2, NewStoreExact, StoreNotNone
    <2>7. NewStore(o, b.n).msgs[PartyJ(o, p)] = None
      BY <2>4 DEF NewStore
    <2>8. ~Heard(u, kind, p)
      BY <2>5, <2>6, <2>7 DEF Heard
    <2>9. ~(j <= 0)
      BY <1>1
    <2>. QED
      BY <2>3, <2>8, <2>9
  <1>12. View(v, b, k, 0, {})
    BY <1>3, <1>9, <1>10, <1>11 DEF View, InOrder
  <1>. QED
    BY <1>5, <1>8, <1>12

\* Run starts the first lap, or one without anything to do.
LEMMA RunStarts ==
    ASSUME NEW b \in Plans, Planned(b), Idle(b) \/ Over(b), Run
    PROVE  Planned(b)' /\ Stage(b)'
  <1>1. /\ pc' = "proceed" /\ seen' = 0 /\ frozen' = << >> /\ pull' = << >> /\ at' = 1
        /\ parties' = parties /\ b.n \in Nat \ {0}
    BY PlanType DEF Run
  <1>2. Planned(b)'
    BY <1>1 DEF Planned
  <1>3. CASE Idle(b)
    <2>1. Slice(b, 0, 1 - 1) = << >>
      <3>1. Slice(b, 0, 0) = << >> /\ 1 - 1 = 0
        BY EmptySlice
      <3>. QED
        BY <3>1
    <2>2. Starting(b)'
      BY <1>1, <1>3, <2>1 DEF Idle, Starting
    <2>. QED
      BY <1>2, <2>2 DEF Stage
  <1>4. CASE Over(b)
    <2>1. Over(b)'
      BY <1>1, <1>4 DEF Over
    <2>. QED
      BY <1>2, <2>1 DEF Stage
  <1>. QED
    BY <1>3, <1>4

\* proceed_if_needed of the first lap.
LEMMA ProceedsFirst ==
    ASSUME NEW b \in Plans, Planned(b), Starting(b), ProceedIfNeeded
    PROVE  Planned(b)' /\ Stage(b)' /\ measured' \subseteq measured \cup {0}
  <1> DEFINE u == parties[at]
             v == Proceed(u)
  <1>1. b.n \in Nat \ {0} /\ b.n >= 2 /\ at \in 1..b.n /\ ~(at < at)
    BY PlanType DEF Planned
  <1>2. Fresh(u, b, at)
    BY <1>1 DEF Starting
  <1>3. /\ WantsToProceed(u) /\ CurrentRound(u) = 0 /\ ~Panicked(v)
        /\ View(v, b, at, 0, {})
    BY <1>1, <1>2, LeavesPrepare
  <1>4. /\ parties' = [parties EXCEPT ![at] = Drained(v)]
        /\ pull' = pull \o v.msgs_queue
        /\ measured' \subseteq measured \cup {0}
        /\ Advance("check")
        /\ UNCHANGED <<frozen, seen>>
    BY <1>3 DEF ProceedIfNeeded, SendOutgoing, Drained
  <1>5. v.msgs_queue = << Message(b, at) >>
    BY <1>1, <1>3, Queued
  <1>6. View(Drained(v), b, at, 0, Once(b, at))
    <2>1. {v.msgs_queue[q] : q \in DOMAIN v.msgs_queue} = {Message(b, at)}
      BY <1>5
    <2>2. {} \cup {Message(b, at)} = Once(b, at)
      BY DEF Once
    <2>. QED
      BY <1>1, <1>3, <2>1, <2>2, Sends
  <1>7. pull' = Slice(b, 0, at)
    <2>1. at \in Nat /\ 0 < at
      BY <1>1
    <2>2. Slice(b, 0, at - 1) \o << Message(b, at) >> = Slice(b, 0, at)
      BY <2>1, SliceGrows
    <2>. QED
      BY <1>4, <1>5, <2>2 DEF Starting
  <1>8. /\ parties' = [k \in 1..b.n |-> parties'[k]] /\ Len(parties') = b.n
        /\ parties'[at] = Drained(v)
        /\ \A k \in 1..b.n : k # at => parties'[k] = parties[k]
    <2>1. parties = [k \in 1..b.n |-> parties[k]] /\ b.n \in Nat
      BY <1>1 DEF Planned
    <2> DEFINE d == Drained(v)
    <2>2. parties' = [parties EXCEPT ![at] = d] /\ at \in 1..b.n
      BY <1>1, <1>4
    <2> HIDE DEF d
    <2>3. /\ parties' = [k \in 1..b.n |-> parties'[k]]
          /\ parties'[at] = d
          /\ \A k \in 1..b.n : k # at => parties'[k] = parties[k]
      BY <2>1, <2>2
    <2>. QED
      BY <2>1, <2>3, LenIs DEF d
  <1>9. /\ at' \in 1..b.n
        /\ \/ at < b.n /\ at' = at + 1 /\ pc' = pc
           \/ at = b.n /\ at' = 1 /\ pc' = "check"
    BY <1>4, AdvanceIs
  <1>10. Planned(b)'
    BY <1>8, <1>9 DEF Planned
  <1>11. ASSUME NEW k \in 1..b.n
         PROVE  IF k <= at THEN View(parties'[k], b, k, 0, Once(b, k))
                ELSE Fresh(parties'[k], b, k)
    <2>1. CASE k = at
      BY <1>1, <1>6, <1>8, <2>1
    <2>2. CASE k # at
      BY <1>1, <1>8, <2>2 DEF Starting
    <2>. QED
      BY <2>1, <2>2
  <1>12. CASE at < b.n /\ at' = at + 1 /\ pc' = pc
    <2>1. pull' = Slice(b, 0, at' - 1)
      BY <1>1, <1>7, <1>12
    <2>2. \A k \in 1..b.n : k < at' <=> k <= at
      BY <1>1, <1>12
    <2>3. pc' = "proceed" /\ seen' = 0 /\ frozen' = << >>
      BY <1>4, <1>12 DEF Starting
    <2>4. Starting(b)'
      BY <1>11, <2>1, <2>2, <2>3 DEF Starting
    <2>. QED
      BY <1>4, <1>10, <2>4 DEF Stage
  <1>13. CASE at = b.n /\ at' = 1 /\ pc' = "check"
    <2>1. pull' = Slice(b, 0, b.n) /\ seen' = 0
      BY <1>4, <1>7, <1>13 DEF Starting
    <2>2. \A k \in 1..b.n : View(parties'[k], b, k, 0, Once(b, k))
      BY <1>11, <1>13
    <2>3. Between(b, 0)'
      BY <1>13, <2>1, <2>2 DEF Between
    <2>. QED
      BY <1>4, <1>10, <2>3 DEF Stage
  <1>. QED
    BY <1>9, <1>12, <1>13
-----------------------------------------------------------------------------
(* The later laps.                                                         *)
\* A party that waits or is done sends nothing when asked to proceed.
LEMMA NothingToSend ==
    ASSUME NEW b \in Plans, NEW k \in 1..b.n, NEW r \in {b.n, 2 * b.n},
           NEW u, View(u, b, k, r, Twice(b, k))
    PROVE  u.msgs_queue = << >> /\ View(Drained(u), b, k, r, Twice(b, k))
  <1>1. u.msgs_queue = << >>
    BY Queued
  <1>2. {u.msgs_queue[q] : q \in DOMAIN u.msgs_queue} = {}
    BY <1>1
  <1>3. Twice(b, k) \cup {} = Twice(b, k)
    OBVIOUS
  <1>. QED
    BY <1>1, <1>2, <1>3, Sends

\* proceed_if_needed of the later laps.
LEMMA ProceedsLater ==
    ASSUME NEW b \in Plans, Planned(b), NEW g \in {b.n, 2 * b.n}, Between(b, g),
           ProceedIfNeeded
    PROVE  Planned(b)' /\ Stage(b)' /\ measured' = measured
  <1> DEFINE u == parties[at]
             d == Drained(u)
             sent == Slice(b, g, 2 * b.n)
  <1>1. b.n \in Nat \ {0} /\ at \in 1..b.n /\ g # 0 /\ g \in Nat /\ g <= 2 * b.n
    BY PlanType DEF Planned
  <1>2. /\ \A k \in 1..b.n : View(parties[k], b, k, g, Twice(b, k))
        /\ pull = sent /\ seen = 0 /\ pc = "proceed"
    BY <1>1 DEF Between, ProceedIfNeeded
  <1>3. ~WantsToProceed(u)
    BY <1>1, <1>2 DEF View, Settled
  <1>4. /\ parties' = [parties EXCEPT ![at] = d]
        /\ pull' = pull \o u.msgs_queue
        /\ measured' = measured
        /\ Advance("check")
        /\ seen' = seen
    BY <1>3 DEF ProceedIfNeeded, SendOutgoing, Drained
  <1>5. u.msgs_queue = << >> /\ View(d, b, at, g, Twice(b, at))
    BY <1>1, <1>2, NothingToSend
  <1>6. pull' = sent
    <2>1. 2 * b.n \in Nat
      BY <1>1
    <2>2. sent \o << >> = sent
      BY <1>1, <2>1, Slices
    <2>. QED
      BY <1>2, <1>4, <1>5, <2>2
  <1> HIDE DEF d
  <1>7. /\ parties' = [k \in 1..b.n |-> parties'[k]] /\ Len(parties') = b.n
        /\ parties'[at] = d
        /\ \A k \in 1..b.n : k # at => parties'[k] = parties[k]
    <2>1. parties = [k \in 1..b.n |-> parties[k]] /\ b.n \in Nat /\ at \in 1..b.n
      BY <1>1 DEF Planned
    <2>2. parties' = [parties EXCEPT ![at] = d]
      BY <1>4
    <2>3. /\ parties' = [k \in 1..b.n |-> parties'[k]]
          /\ parties'[at] = d
          /\ \A k \in 1..b.n : k # at => parties'[k] = parties[k]
      BY <2>1, <2>2
    <2>. QED
      BY <2>1, <2>3, LenIs
  <1>8. /\ at' \in 1..b.n
        /\ \/ at < b.n /\ at' = at + 1 /\ pc' = pc
           \/ at = b.n /\ at' = 1 /\ pc' = "check"
    BY <1>4, AdvanceIs
  <1>9. Planned(b)'
    BY <1>7, <1>8 DEF Planned
  <1>10. \A k \in 1..b.n : View(parties'[k], b, k, g, Twice(b, k))
    BY <1>2, <1>5, <1>7
  <1>11. Between(b, g)'
    <2>1. pc' \in {"proceed", "check"} /\ (pc' = "check" => at' = 1) /\ seen' = 0
      BY <1>2, <1>4, <1>8
    <2>. QED
      BY <1>1, <1>6, <1>10, <2>1 DEF Between
  <1>. QED
    BY <1>4, <1>9, <1>11 DEF Stage

\* The shells of a second run() do nothing.
LEMMA ShellsProceed ==
    ASSUME NEW b \in Plans, Planned(b), Over(b), ProceedIfNeeded \/ Handled
    PROVE  Planned(b)' /\ Stage(b)' /\ measured' = measured
  <1> DEFINE u == parties[at]
             d == Drained(u)
             Shell(v, k) ==
               /\ Shaped(v, b.order[k], b.n, b.order[k], b.message[k])
               /\ v.round = "Gone" /\ v.result = None /\ v.msgs_queue = << >>
  <1>1. b.n \in Nat \ {0} /\ at \in 1..b.n
    BY PlanType DEF Planned
  <1>2. /\ \A k \in 1..b.n : Shell(parties[k], k)
        /\ pull = << >> /\ seen = 0 /\ pc \in {"proceed", "handle"}
        /\ pc = "handle" => frozen = << >>
    BY DEF Over, ProceedIfNeeded, Handled
  <1>3. ~WantsToProceed(u) /\ u.msgs_queue = << >>
    BY <1>1, <1>2 DEF WantsToProceed
  <1>4. Shell(d, at) /\ CurrentRound(d) = CurrentRound(u)
    <2>1. Shell(u, at)
      BY <1>1, <1>2
    <2>2. /\ d = [f \in Fields |-> d[f]] /\ d.msgs_queue = << >>
          /\ \A f \in Fields : f # "msgs_queue" => d[f] = u[f]
      BY <2>1 DEF Shaped, Drained, Fields
    <2>. QED
      BY <2>1, <2>2 DEF Shaped, Fields, CurrentRound
  <1>5. /\ parties' = [parties EXCEPT ![at] = d]
        /\ pull' = pull \o u.msgs_queue
        /\ measured' = measured
        /\ Advance("check") \/ Advance("proceed")
        /\ seen' = 0 /\ frozen' = frozen
    BY <1>2, <1>3 DEF ProceedIfNeeded, Handled, SendOutgoing, Drained
  <1>6. pull' = << >>
    BY <1>2, <1>3, <1>5
  <1> HIDE DEF d, Shell
  <1>7. /\ parties' = [k \in 1..b.n |-> parties'[k]] /\ Len(parties') = b.n
        /\ parties'[at] = d
        /\ \A k \in 1..b.n : k # at => parties'[k] = parties[k]
    <2>1. parties = [k \in 1..b.n |-> parties[k]] /\ b.n \in Nat /\ at \in 1..b.n
      BY <1>1 DEF Planned
    <2>2. parties' = [parties EXCEPT ![at] = d]
      BY <1>5
    <2>3. /\ parties' = [k \in 1..b.n |-> parties'[k]]
          /\ parties'[at] = d
          /\ \A k \in 1..b.n : k # at => parties'[k] = parties[k]
      BY <2>1, <2>2
    <2>. QED
      BY <2>1, <2>3, LenIs
  <1>8. at' \in 1..b.n /\ pc' \in {pc, "proceed", "check"}
    BY <1>5, AdvanceIs
  <1>9. Planned(b)'
    BY <1>7, <1>8 DEF Planned
  <1>10. \A k \in 1..b.n : Shell(parties'[k], k)
    BY <1>2, <1>4, <1>7
  <1>11. Over(b)'
    <2>1. pc' \in {"proceed", "check", "handle"} /\ (pc' = "handle" => frozen' = << >>)
      BY <1>2, <1>5, <1>8
    <2>. QED
      BY <1>5, <1>6, <1>10, <2>1 DEF Over, Shell
  <1>. QED
    BY <1>5, <1>9, <1>11 DEF Stage

\* finish_if_possible.
LEMMA ChecksLap ==
    ASSUME NEW b \in Plans, Planned(b), NEW g \in {0, b.n, 2 * b.n}, Between(b, g),
           FinishIfPossible
    PROVE  Planned(b)' /\ Stage(b)'
  <1>1. b.n \in Nat \ {0} /\ b.n # 0 /\ 2 * b.n # 0 /\ 2 * b.n # b.n /\ 1 \in 1..b.n
    BY PlanType
  <1>2. /\ pc = "check" /\ at = 1 /\ seen = 0 /\ at' = at /\ seen' = seen
        /\ DOMAIN parties = 1..b.n
    BY DEF Between, FinishIfPossible, Planned
  <1>3. ASSUME g # 2 * b.n
        PROVE  parties' = parties /\ pc' = "handle" /\ frozen' = pull /\ pull' = << >>
    <2>1. View(parties[1], b, 1, g, IF g = 0 THEN Once(b, 1) ELSE Twice(b, 1))
      BY <1>1 DEF Between
    <2>2. parties[1].round # "Finished"
      BY <1>1, <1>3, <2>1, RoundOf
    <2>. QED
      BY <1>1, <1>2, <2>2 DEF FinishIfPossible, IsFinished, Freeze, Index
  <1>4. CASE g = 0
    <2>1. parties' = parties /\ pc' = "handle" /\ frozen' = Slice(b, 0, b.n) /\ pull' = << >>
      BY <1>1, <1>3, <1>4 DEF Between
    <2>2. Slice(b, b.n, b.n + 1 - 1) = << >>
      <3>1. Slice(b, b.n, b.n) = << >> /\ b.n + 1 - 1 = b.n
        BY <1>1, EmptySlice
      <3>. QED
        BY <3>1
    <2>3. \A k \in 1..b.n : View(parties[k], b, k, 0, Once(b, k)) /\ ~(k < 1)
      BY <1>4 DEF Between
    <2>4. HandingNonces(b)'
      BY <1>1, <1>2, <2>1, <2>2, <2>3 DEF HandingNonces
    <2>5. Planned(b)'
      BY <1>2, <2>1 DEF Planned
    <2>. QED
      BY <2>4, <2>5 DEF Stage
  <1>5. CASE g = b.n
    <2>1. /\ parties' = parties /\ pc' = "handle" /\ pull' = << >>
          /\ frozen' = Slice(b, b.n, 2 * b.n)
      BY <1>1, <1>3, <1>5 DEF Between
    <2>2. \A k \in 1..b.n : View(parties[k], b, k, b.n, Twice(b, k)) /\ ~(k < 1)
      BY <1>1, <1>5 DEF Between
    <2>3. b.n + 0 = b.n
      BY <1>1
    <2>4. HandingShares(b)'
      BY <1>1, <1>2, <2>1, <2>2, <2>3 DEF HandingShares
    <2>5. Planned(b)'
      BY <1>2, <2>1 DEF Planned
    <2>. QED
      BY <2>4, <2>5 DEF Stage
  <1>6. CASE g = 2 * b.n
    <2>1. ASSUME NEW k \in 1..b.n
          PROVE  View(parties[k], b, k, 2 * b.n, Twice(b, k)) /\ IsFinished(parties[k])
      <3>1. View(parties[k], b, k, 2 * b.n, Twice(b, k))
        BY <1>1, <1>6 DEF Between
      <3>. QED
        BY <3>1, RoundOf DEF IsFinished
    <2>2. /\ answer' = [k \in 1..b.n |-> parties[k].result]
          /\ parties' = [k \in 1..b.n |-> PickOutput(parties[k])]
          /\ pc' = "returned"
      BY <1>2, <2>1 DEF FinishIfPossible, Index
    <2>3. Len(answer') = b.n /\ Len(parties') = b.n
      BY <1>1, <2>2, LenIs
    <2>4. ASSUME NEW k \in 1..b.n
          PROVE  LET v == PickOutput(parties[k])
                 IN  /\ Shaped(v, b.order[k], b.n, b.order[k], b.message[k])
                     /\ v.round = "Gone" /\ v.result = None /\ v.msgs_queue = << >>
      <3> DEFINE u == parties[k]
      <3>1. InOrder(u, b, k, HeardBy(b, k, 2 * b.n), Twice(b, k)) /\ u.round = "Finished"
        BY <2>1 DEF View, IsFinished
      <3>2. Shaped(PickOutput(u), b.order[k], b.n, b.order[k], b.message[k])
        BY <3>1, PickOutputOK DEF InOrder, InstOK
      <3>3. u = [f \in Fields |-> u[f]]
        BY <3>1 DEF InOrder, InstOK, Shaped
      <3>4. /\ PickOutput(u).round = "Gone" /\ PickOutput(u).result = None
            /\ PickOutput(u).msgs_queue = u.msgs_queue
        BY <3>3 DEF PickOutput, Fields
      <3>5. u.msgs_queue = << >>
        BY <2>1, Queued
      <3>. QED
        BY <3>2, <3>4, <3>5
    <2>5. ~Differ(b)
      <3>1. InOrder(parties[1], b, 1, HeardBy(b, 1, 2 * b.n), Twice(b, 1))
        BY <1>1, <2>1 DEF View
      <3>2. 2 * b.n \in 0..(2 * b.n)
        BY <1>1
      <3>. QED
        BY <1>1, <2>1, <3>1, <3>2, FinishedAgree DEF IsFinished
    <2>6. \A k \in 1..b.n : parties'[k] = PickOutput(parties[k])
      BY <2>2
    <2>7. Over(b)'
      BY <1>2, <2>2, <2>3, <2>4, <2>5, <2>6 DEF Over
    <2>8. Planned(b)'
      BY <1>1, <1>2, <2>2, <2>3 DEF Planned
    <2>. QED
      BY <2>7, <2>8 DEF Stage
  <1>. QED
    BY <1>4, <1>5, <1>6

\* Nor do they ever finish: the loop goes on.
LEMMA ChecksShells ==
    ASSUME NEW b \in Plans, Planned(b), Over(b), FinishIfPossible
    PROVE  Planned(b)' /\ Stage(b)'
  <1>1. 1 \in 1..b.n /\ DOMAIN parties = 1..b.n
    BY PlanType DEF Planned
  <1>2. ~IsFinished(parties[1])
    BY <1>1 DEF Over, IsFinished
  <1>3. /\ pc = "check" /\ pc' = "handle" /\ parties' = parties /\ at' = at /\ seen' = seen
        /\ frozen' = pull /\ pull' = << >>
    BY <1>1, <1>2 DEF FinishIfPossible, Freeze, Index
  <1>4. Planned(b)'
    BY <1>3 DEF Planned
  <1>5. Over(b)'
    BY <1>3 DEF Over
  <1>. QED
    BY <1>4, <1>5 DEF Stage
-----------------------------------------------------------------------------
(* The handling of the frozen messages.                                    *)
\* What a message does to the party it is handed to.
LEMMA HandsOne ==
    ASSUME NEW b \in Plans, Planned(b), NEW r \in Nat, r + 1 <= 2 * b.n,
           NEW S, View(parties[at], b, at, r, S), Handle,
           Delivered[seen + 1] = Message(b, r + 1)
    PROVE  /\ refused' = refused /\ seen' = seen + 1
           /\ \E v : /\ parties' = [parties EXCEPT ![at] = v]
                     /\ \/ pc' = pc /\ View(v, b, at, r + 1, S)
                        \/ /\ pc' = "panicked" /\ Differ(b)
                           /\ InOrder(v, b, at, HeardBy(b, at, r + 1), S)
                           /\ v.round = "Gone"
  <1> DEFINE u == parties[at]
             x == Message(b, r + 1)
             h == HandleIncoming(u, x)
             Result(v) ==
               /\ parties' = [parties EXCEPT ![at] = v]
               /\ \/ pc' = pc /\ View(v, b, at, r + 1, S)
                  \/ /\ pc' = "panicked" /\ Differ(b)
                     /\ InOrder(v, b, at, HeardBy(b, at, r + 1), S)
                     /\ v.round = "Gone"
  <1>1. at \in 1..b.n
    BY DEF Planned
  <1>2. CASE Pos(b, r + 1) = at
    <2>1. View(u, b, at, r + 1, S) /\ x.sender = u.party_i
      BY <1>1, <1>2, SkipsOwn
    <2>2. ~Panicked(u)
      BY DEF View, Settled, Panicked
    <2>3. /\ parties' = [parties EXCEPT ![at] = u] /\ seen' = seen + 1
          /\ refused' = refused /\ pc' = pc
      BY <2>1, <2>2 DEF Handle, IsCritical
    <2>4. Result(u)
      BY <2>1, <2>3
    <2>. QED
      BY <2>3, <2>4
  <1>3. CASE Pos(b, r + 1) # at
    <2>1. /\ x.sender # u.party_i /\ HandleResult(u, x) = "Ok"
          /\ InOrder(h, b, at, HeardBy(b, at, r + 1), S)
          /\ ~Panicked(h) => View(h, b, at, r + 1, S)
          /\ Panicked(h) => Differ(b)
      BY <1>1, <1>3, TakesNext
    <2>2. /\ parties' = [parties EXCEPT ![at] = h] /\ seen' = seen + 1
          /\ refused' = refused
          /\ pc' = IF Panicked(h) THEN "panicked" ELSE pc
      BY <2>1 DEF Handle, IsCritical
    <2>3. Result(h)
      BY <2>1, <2>2 DEF Panicked
    <2>. QED
      BY <2>2, <2>3
  <1>. QED
    BY <1>2, <1>3

\* After a panic nobody has a signature.
LEMMA PanicLeavesNone ==
    ASSUME NEW b \in Plans, Differ(b), NEW k \in 1..b.n, NEW r \in 0..(2 * b.n),
           NEW S, NEW u, InOrder(u, b, k, HeardBy(b, k, r), S)
    PROVE  u.result = None /\ u.message = b.message[k]
  <1>1. u.round # "Finished"
    BY FinishedAgree
  <1>. QED
    BY <1>1 DEF InOrder, InstOK, Shaped

\* The nonces come in.
LEMMA HandlesNonces ==
    ASSUME NEW b \in Plans, Planned(b), HandingNonces(b), Handle
    PROVE  Planned(b)' /\ Stage(b)' /\ refused' = refused
  <1> DEFINE r == seen
             S == Once(b, at)
             Turned(v) ==
               \/ pc' = pc /\ View(v, b, at, r + 1, S)
               \/ /\ pc' = "panicked" /\ Differ(b)
                  /\ InOrder(v, b, at, HeardBy(b, at, r + 1), S)
                  /\ v.round = "Gone"
  <1>1. /\ b.n \in Nat \ {0} /\ at \in 1..b.n /\ ~(at < at)
        /\ parties = [k \in 1..b.n |-> parties[k]]
    BY PlanType DEF Planned
  <1>2. /\ pc = "handle" /\ seen \in 0..b.n /\ frozen = Slice(b, 0, b.n)
        /\ frozen' = frozen /\ pull' = pull /\ at' = at
    BY DEF HandingNonces, Handle
  <1>3. /\ Len(Delivered) = b.n
        /\ \A j \in 1..b.n : Delivered[j] = Message(b, 0 + j)
    <2>1. 0 \in Nat /\ b.n \in Nat /\ 0 <= b.n /\ b.n - 0 = b.n
      BY <1>1
    <2>2. /\ Len(Slice(b, 0, b.n)) = b.n - 0
          /\ \A j \in 1..(b.n - 0) : Slice(b, 0, b.n)[j] = Message(b, 0 + j)
      BY <2>1, Slices
    <2>. QED
      BY <1>2, <2>1, <2>2 DEF Delivered
  <1>4. seen < b.n
    BY <1>3 DEF Handle
  <1>5. /\ r \in Nat /\ r + 1 <= 2 * b.n /\ r + 1 \in 0..(2 * b.n)
        /\ seen + 1 \in 1..b.n /\ 0 + (seen + 1) = r + 1
    BY <1>1, <1>2, <1>4
  <1>6. Delivered[seen + 1] = Message(b, r + 1)
    BY <1>3, <1>5
  <1>7. View(parties[at], b, at, r, S)
    BY <1>1 DEF HandingNonces
  <1>8. /\ refused' = refused /\ seen' = seen + 1
        /\ \E v : parties' = [parties EXCEPT ![at] = v] /\ Turned(v)
    <2> HIDE DEF r, S
    <2>. QED
      BY <1>5, <1>6, <1>7, HandsOne
  <1>9. PICK v : parties' = [parties EXCEPT ![at] = v] /\ Turned(v)
    BY <1>8
  <1>10. /\ parties' = [k \in 1..b.n |-> parties'[k]]
         /\ parties'[at] = v
         /\ \A k \in 1..b.n : k # at => parties'[k] = parties[k]
    BY <1>1, <1>9
  <1>11. Planned(b)'
    BY <1>1, <1>2, <1>10, LenIs DEF Planned
  <1>12. CASE pc' = pc /\ View(v, b, at, r + 1, S)
    <2>1. View(parties'[at], b, at, r + 1, S)
      BY <1>10, <1>12
    <2>3. ASSUME NEW k \in 1..b.n
          PROVE  /\ k < at => View(parties'[k], b, k, b.n, Twice(b, k))
                 /\ k > at => View(parties'[k], b, k, 0, Once(b, k))
      <3>1. k < at \/ k > at => k # at
        BY <1>1
      <3>. QED
        BY <1>10, <3>1 DEF HandingNonces
    <2>2. seen' \in 0..b.n /\ seen' = r + 1
      BY <1>1, <1>2, <1>5, <1>8
    <2>4. View(parties'[at'], b, at', seen', Once(b, at'))
      BY <1>2, <2>1, <2>2
    <2> HIDE DEF r
    <2>5. HandingNonces(b)'
      BY <1>2, <1>12, <2>2, <2>3, <2>4 DEF HandingNonces
    <2>. QED
      BY <1>8, <1>11, <2>5 DEF Stage
  <1>13. CASE /\ pc' = "panicked" /\ Differ(b)
              /\ InOrder(v, b, at, HeardBy(b, at, r + 1), S)
    <2>1. ASSUME NEW k \in 1..b.n
          PROVE  parties'[k].result = None /\ parties'[k].message = b.message[k]
      <3>1. CASE k = at
        BY <1>1, <1>5, <1>10, <1>13, <3>1, PanicLeavesNone
      <3>2. CASE k # at
        <4>1. k < at \/ k > at
          BY <1>1, <3>2
        <4>2. b.n \in 0..(2 * b.n) /\ 2 * b.n \in 0..(2 * b.n) /\ 0 \in 0..(2 * b.n)
          BY <1>1
        <4>3. parties[k].result = None /\ parties[k].message = b.message[k]
          BY <1>13, <4>1, <4>2, PanicLeavesNone DEF HandingNonces, View
        <4>. QED
          BY <1>10, <3>2, <4>3
      <3>. QED
        BY <3>1, <3>2
    <2>2. Panic(b)'
      BY <1>13, <2>1 DEF Panic
    <2>. QED
      BY <1>8, <1>11, <2>2 DEF Stage
  <1>. QED
    BY <1>9, <1>12, <1>13

\* The shares come in, and the last of them may not fit.
LEMMA HandlesShares ==
    ASSUME NEW b \in Plans, Planned(b), HandingShares(b), Handle
    PROVE  Planned(b)' /\ Stage(b)' /\ refused' = refused
  <1> DEFINE r == b.n + seen
             S == Twice(b, at)
             Turned(v) ==
               \/ pc' = pc /\ View(v, b, at, r + 1, S)
               \/ /\ pc' = "panicked" /\ Differ(b)
                  /\ InOrder(v, b, at, HeardBy(b, at, r + 1), S)
                  /\ v.round = "Gone"
  <1>1. /\ b.n \in Nat \ {0} /\ at \in 1..b.n /\ ~(at < at)
        /\ parties = [k \in 1..b.n |-> parties[k]]
    BY PlanType DEF Planned
  <1>2. /\ pc = "handle" /\ seen \in 0..b.n /\ frozen = Slice(b, b.n, 2 * b.n)
        /\ frozen' = frozen /\ pull' = pull /\ at' = at
    BY DEF HandingShares, Handle
  <1>3. /\ Len(Delivered) = b.n
        /\ \A j \in 1..b.n : Delivered[j] = Message(b, b.n + j)
    <2>1. b.n \in Nat /\ 2 * b.n \in Nat /\ b.n <= 2 * b.n /\ 2 * b.n - b.n = b.n
      BY <1>1
    <2>2. /\ Len(Slice(b, b.n, 2 * b.n)) = 2 * b.n - b.n
          /\ \A j \in 1..(2 * b.n - b.n) : Slice(b, b.n, 2 * b.n)[j] = Message(b, b.n + j)
      BY <2>1, Slices
    <2>. QED
      BY <1>2, <2>1, <2>2 DEF Delivered
  <1>4. seen < b.n
    BY <1>3 DEF Handle
  <1>5. /\ r \in Nat /\ r + 1 <= 2 * b.n /\ r + 1 \in 0..(2 * b.n)
        /\ seen + 1 \in 1..b.n /\ b.n + (seen + 1) = r + 1
    BY <1>1, <1>2, <1>4
  <1>6. Delivered[seen + 1] = Message(b, r + 1)
    BY <1>3, <1>5
  <1>7. View(parties[at], b, at, r, S)
    BY <1>1 DEF HandingShares
  <1>8. /\ refused' = refused /\ seen' = seen + 1
        /\ \E v : parties' = [parties EXCEPT ![at] = v] /\ Turned(v)
    <2> HIDE DEF r, S
    <2>. QED
      BY <1>5, <1>6, <1>7, HandsOne
  <1>9. PICK v : parties' = [parties EXCEPT ![at] = v] /\ Turned(v)
    BY <1>8
  <1>10. /\ parties' = [k \in 1..b.n |-> parties'[k]]
         /\ parties'[at] = v
         /\ \A k \in 1..b.n : k # at => parties'[k] = parties[k]
    BY <1>1, <1>9
  <1>11. Planned(b)'
    BY <1>1, <1>2, <1>10, LenIs DEF Planned
  <1>12. CASE pc' = pc /\ View(v, b, at, r + 1, S)
    <2>1. View(parties'[at], b, at, r + 1, S)
      BY <1>10, <1>12
    <2>3. ASSUME NEW k \in 1..b.n
          PROVE  /\ k < at => View(parties'[k], b, k, 2 * b.n, Twice(b, k))
                 /\ k > at => View(parties'[k], b, k, b.n, Twice(b, k))
      <3>1. k < at \/ k > at => k # at
        BY <1>1
      <3>. QED
        BY <1>10, <3>1 DEF HandingShares
    <2>2. seen' \in 0..b.n /\ b.n + seen' = r + 1
      BY <1>1, <1>2, <1>5, <1>8
    <2>4. View(parties'[at'], b, at', b.n + seen', Twice(b, at'))
      BY <1>2, <2>1, <2>2
    <2> HIDE DEF r
    <2>5. HandingShares(b)'
      BY <1>2, <1>12, <2>2, <2>3, <2>4 DEF HandingShares
    <2>. QED
      BY <1>8, <1>11, <2>5 DEF Stage
  <1>13. CASE /\ pc' = "panicked" /\ Differ(b)
              /\ InOrder(v, b, at, HeardBy(b, at, r + 1), S)
    <2>1. ASSUME NEW k \in 1..b.n
          PROVE  parties'[k].result = None /\ parties'[k].message = b.message[k]
      <3>1. CASE k = at
        BY <1>1, <1>5, <1>10, <1>13, <3>1, PanicLeavesNone
      <3>2. CASE k # at
        <4>1. k < at \/ k > at
          BY <1>1, <3>2
        <4>2. b.n \in 0..(2 * b.n) /\ 2 * b.n \in 0..(2 * b.n) /\ 0 \in 0..(2 * b.n)
          BY <1>1
        <4>3. parties[k].result = None /\ parties[k].message = b.message[k]
          BY <1>13, <4>1, <4>2, PanicLeavesNone DEF HandingShares, View
        <4>. QED
          BY <1>10, <3>2, <4>3
      <3>. QED
        BY <3>1, <3>2
    <2>2. Panic(b)'
      BY <1>13, <2>1 DEF Panic
    <2>. QED
      BY <1>8, <1>11, <2>2 DEF Stage
  <1>. QED
    BY <1>9, <1>12, <1>13

\* The nonces are read: the share goes out.
LEMMA HandledNonces ==
    ASSUME NEW b \in Plans, Planned(b), HandingNonces(b), Handled
    PROVE  Planned(b)' /\ Stage(b)'
  <1> DEFINE u == parties[at]
             d == Drained(u)
  <1>1. /\ b.n \in Nat \ {0} /\ at \in 1..b.n /\ ~(at < at)
        /\ parties = [k \in 1..b.n |-> parties[k]]
    BY PlanType DEF Planned
  <1>2. seen = b.n
    <2>1. b.n \in Nat /\ 0 <= b.n /\ b.n - 0 = b.n
      BY <1>1
    <2>2. Len(Slice(b, 0, b.n)) = b.n - 0
      BY <2>1, Slices
    <2>. QED
      BY <2>1, <2>2 DEF HandingNonces, Handled, Delivered
  <1>3. View(u, b, at, b.n, Once(b, at))
    BY <1>1, <1>2 DEF HandingNonces
  <1>4. u.msgs_queue = << Message(b, b.n + at) >>
    BY <1>1, <1>3, Queued
  <1>5. View(d, b, at, b.n, Twice(b, at))
    <2>1. {u.msgs_queue[q] : q \in DOMAIN u.msgs_queue} = {Message(b, b.n + at)}
      BY <1>4
    <2>2. Once(b, at) \cup {Message(b, b.n + at)} = Twice(b, at)
      BY DEF Once, Twice
    <2>3. View(d, b, at, b.n, Once(b, at) \cup {u.msgs_queue[q] : q \in DOMAIN u.msgs_queue})
      <3> HIDE DEF u
      <3>. QED
        BY <1>1, <1>3, Sends
    <2>. QED
      BY <2>1, <2>2, <2>3
  <1>6. /\ parties' = [parties EXCEPT ![at] = d]
        /\ pull' = pull \o u.msgs_queue
        /\ Advance("proceed")
        /\ seen' = 0 /\ frozen' = frozen /\ pc = "handle"
    BY DEF Handled, SendOutgoing, Drained
  <1>7. pull' = Slice(b, b.n, b.n + at)
    <2>1. b.n + at \in Nat /\ b.n < b.n + at /\ b.n \in Nat
      BY <1>1
    <2> DEFINE z == b.n + at
    <2> HIDE DEF z
    <2>2. Slice(b, b.n, z - 1) \o << Message(b, z) >> = Slice(b, b.n, z)
      <3>1. z \in Nat /\ b.n < z /\ b.n \in Nat
        BY <2>1 DEF z
      <3>. QED
        BY <3>1, SliceGrows
    <2>3. pull = Slice(b, b.n, z - 1) /\ u.msgs_queue = << Message(b, z) >>
      <3>1. pull = Slice(b, b.n, b.n + at - 1)
        BY DEF HandingNonces
      <3>2. b.n + at - 1 = z - 1 /\ b.n + at = z
        BY <1>1 DEF z
      <3>. QED
        BY <1>4, <3>1, <3>2
    <2>4. pull' = Slice(b, b.n, z)
      BY <1>6, <2>2, <2>3
    <2>. QED
      BY <2>4 DEF z
  <1> HIDE DEF d
  <1>8. /\ parties' = [k \in 1..b.n |-> parties'[k]]
        /\ parties'[at] = d
        /\ \A k \in 1..b.n : k # at => parties'[k] = parties[k]
    BY <1>1, <1>6
  <1>9. /\ at' \in 1..b.n
        /\ \/ at < b.n /\ at' = at + 1 /\ pc' = pc
           \/ at = b.n /\ at' = 1 /\ pc' = "proceed"
    BY <1>6, AdvanceIs
  <1>10. Planned(b)'
    BY <1>1, <1>8, <1>9, LenIs DEF Planned
  <1>11. ASSUME NEW k \in 1..b.n
         PROVE  IF k <= at THEN View(parties'[k], b, k, b.n, Twice(b, k))
                ELSE View(parties'[k], b, k, 0, Once(b, k))
    <2>1. CASE k = at
      BY <1>1, <1>5, <1>8, <2>1
    <2>2. CASE k # at
      <3>1. k <= at => k < at
        BY <1>1, <2>2
      <3>2. ~(k <= at) => k > at
        BY <1>1
      <3>. QED
        BY <1>8, <2>2, <3>1, <3>2 DEF HandingNonces
    <2>. QED
      BY <2>1, <2>2
  <1>12. CASE at < b.n /\ at' = at + 1 /\ pc' = pc
    <2>1. pull' = Slice(b, b.n, b.n + at' - 1)
      <3>1. b.n + at' - 1 = b.n + at
        BY <1>1, <1>12
      <3>. QED
        BY <1>7, <3>1
    <2>2. \A k \in 1..b.n : k < at' <=> k <= at
      BY <1>1, <1>12
    <2>3. pc' = "handle" /\ seen' = 0 /\ 0 \in 0..b.n /\ frozen' = Slice(b, 0, b.n)
      BY <1>1, <1>6, <1>12 DEF HandingNonces
    <2>4. /\ View(parties'[at'], b, at', 0, Once(b, at'))
          /\ \A k \in 1..b.n : /\ k < at' => View(parties'[k], b, k, b.n, Twice(b, k))
                               /\ k > at' => View(parties'[k], b, k, 0, Once(b, k))
      <3>1. ~(at' <= at) /\ \A k \in 1..b.n : k > at' => ~(k <= at)
        BY <1>1, <1>12
      <3>. QED
        BY <1>9, <1>11, <2>2, <3>1
    <2>5. HandingNonces(b)'
      BY <2>1, <2>3, <2>4 DEF HandingNonces
    <2>. QED
      BY <1>10, <2>5 DEF Stage
  <1>13. CASE at = b.n /\ at' = 1 /\ pc' = "proceed"
    <2>1. pull' = Slice(b, b.n, 2 * b.n)
      <3>1. b.n + at = 2 * b.n
        BY <1>1, <1>13
      <3>. QED
        BY <1>7, <3>1
    <2>2. \A k \in 1..b.n : View(parties'[k], b, k, b.n, Twice(b, k))
      BY <1>11, <1>13
    <2>3. Between(b, b.n)'
      BY <1>1, <1>6, <1>13, <2>1, <2>2 DEF Between
    <2>. QED
      BY <1>10, <2>3 DEF Stage
  <1>. QED
    BY <1>9, <1>12, <1>13

\* The shares are read.
LEMMA HandledShares ==
    ASSUME NEW b \in Plans, Planned(b), HandingShares(b), Handled
    PROVE  Planned(b)' /\ Stage(b)'
  <1> DEFINE u == parties[at]
             d == Drained(u)
  <1>1. /\ b.n \in Nat \ {0} /\ at \in 1..b.n /\ ~(at < at) /\ 2 * b.n # 0
        /\ parties = [k \in 1..b.n |-> parties[k]]
    BY PlanType DEF Planned
  <1>2. seen = b.n
    <2>1. b.n \in Nat /\ 2 * b.n \in Nat /\ b.n <= 2 * b.n /\ 2 * b.n - b.n = b.n
      BY <1>1
    <2>2. Len(Slice(b, b.n, 2 * b.n)) = b.n
      BY <2>1, Slices
    <2>. QED
      BY <2>2 DEF HandingShares, Handled, Delivered
  <1>3. View(u, b, at, 2 * b.n, Twice(b, at))
    <2>1. View(u, b, at, b.n + seen, Twice(b, at))
      BY <1>1 DEF HandingShares
    <2>2. b.n + seen = 2 * b.n
      BY <1>1, <1>2
    <2>. QED
      BY <2>1, <2>2
  <1>4. u.msgs_queue = << >> /\ View(d, b, at, 2 * b.n, Twice(b, at))
    BY <1>1, <1>3, NothingToSend
  <1>5. /\ parties' = [parties EXCEPT ![at] = d]
        /\ pull' = pull \o u.msgs_queue
        /\ Advance("proceed")
        /\ seen' = 0 /\ frozen' = frozen /\ pc = "handle"
    BY DEF Handled, SendOutgoing, Drained
  <1>6. pull' = << >>
    BY <1>4, <1>5 DEF HandingShares
  <1> HIDE DEF d
  <1>7. /\ parties' = [k \in 1..b.n |-> parties'[k]]
        /\ parties'[at] = d
        /\ \A k \in 1..b.n : k # at => parties'[k] = parties[k]
    BY <1>1, <1>5
  <1>8. /\ at' \in 1..b.n
        /\ \/ at < b.n /\ at' = at + 1 /\ pc' = pc
           \/ at = b.n /\ at' = 1 /\ pc' = "proceed"
    BY <1>5, AdvanceIs
  <1>9. Planned(b)'
    BY <1>1, <1>7, <1>8, LenIs DEF Planned
  <1>10. ASSUME NEW k \in 1..b.n
         PROVE  IF k <= at THEN View(parties'[k], b, k, 2 * b.n, Twice(b, k))
                ELSE View(parties'[k], b, k, b.n, Twice(b, k))
    <2>1. CASE k = at
      BY <1>1, <1>4, <1>7, <2>1
    <2>2. CASE k # at
      <3>1. k <= at => k < at
        BY <1>1, <2>2
      <3>2. ~(k <= at) => k > at
        BY <1>1
      <3>. QED
        BY <1>7, <2>2, <3>1, <3>2 DEF HandingShares
    <2>. QED
      BY <2>1, <2>2
  <1>11. CASE at < b.n /\ at' = at + 1 /\ pc' = pc
    <2>1. /\ \A k \in 1..b.n : k < at' <=> k <= at
          /\ b.n + 0 = b.n
      BY <1>1, <1>11
    <2>2. pc' = "handle" /\ seen' = 0 /\ 0 \in 0..b.n /\ frozen' = Slice(b, b.n, 2 * b.n)
      BY <1>1, <1>5, <1>11 DEF HandingShares
    <2>3. /\ View(parties'[at'], b, at', b.n + 0, Twice(b, at'))
          /\ \A k \in 1..b.n : /\ k < at' => View(parties'[k], b, k, 2 * b.n, Twice(b, k))
                               /\ k > at' => View(parties'[k], b, k, b.n, Twice(b, k))
      <3>1. ~(at' <= at) /\ \A k \in 1..b.n : k > at' => ~(k <= at)
        BY <1>1, <1>11
      <3>. QED
        BY <1>8, <1>10, <2>1, <3>1
    <2>4. HandingShares(b)'
      BY <1>6, <2>2, <2>3 DEF HandingShares
    <2>. QED
      BY <1>9, <2>4 DEF Stage
  <1>12. CASE at = b.n /\ at' = 1 /\ pc' = "proceed"
    <2>1. pull' = Slice(b, 2 * b.n, 2 * b.n)
      <3>1. 2 * b.n \in Nat
        BY <1>1
      <3>. QED
        BY <1>6, <3>1, EmptySlice
    <2>2. \A k \in 1..b.n : View(parties'[k], b, k, 2 * b.n, Twice(b, k))
      BY <1>10, <1>12
    <2>3. Between(b, 2 * b.n)'
      BY <1>1, <1>5, <1>12, <2>1, <2>2 DEF Between
    <2>. QED
      BY <1>9, <2>3 DEF Stage
  <1>. QED
    BY <1>8, <1>11, <1>12
-----------------------------------------------------------------------------
(* The invariant, and what it says.                                        *)
LEMMA InitInv == Init => IInv
  <1> SUFFICES ASSUME Init PROVE IInv
    OBVIOUS
  <1>1. PICK n \in 2..N : parties \in Built(n)
    BY DEF Init
  <1>2. PICK order \in {f \in [1..n -> 1..n] : \A i, j \in 1..n : f[i] = f[j] => i = j},
             message \in [1..n -> Messages] :
          parties = [k \in 1..n |-> NewInstance(order[k], n, order[k], message[k])]
    <2> DEFINE S == {f \in [1..n -> 1..n] : \A i, j \in 1..n : f[i] = f[j] => i = j}
               M == [1..n -> Messages]
               V(order, message) ==
                 [k \in 1..n |-> NewInstance(order[k], n, order[k], message[k])]
    <2>1. parties \in {V(order, message) : order \in S, message \in M}
      BY <1>1 DEF Built
    <2> HIDE DEF S, M, V
    <2>2. \E order \in S, message \in M : parties = V(order, message)
      BY <2>1
    <2>. QED
      BY <2>2 DEF S, M, V
  <1> DEFINE b == [n |-> n, order |-> order, message |-> message]
  <1>3. b \in Plans
    BY DEF Plans
  <1>4. b.n = n /\ b.order = order /\ b.message = message /\ n \in Nat \ {0}
    BY NAssumption
  <1>5. Planned(b)
    <2>1. parties = [k \in 1..n |-> parties[k]] /\ at \in 1..n
      BY <1>2, <1>4 DEF Init
    <2>. QED
      BY <1>4, <2>1, LenIs DEF Planned
  <1>6. Idle(b)
    BY <1>2, <1>4 DEF Init, Idle, Fresh
  <1>7. refused = {} /\ measured \subseteq {0}
    BY DEF Init
  <1> HIDE DEF b
  <1>. QED
    BY <1>3, <1>5, <1>6, <1>7 DEF IInv, Stage

\* What a stage is, by the loop run() is in.
LEMMA StageOfLoop ==
    ASSUME NEW b \in Plans, Stage(b)
    PROVE  /\ pc \in {"idle", "returned"} => Idle(b) \/ Over(b)
           /\ pc = "proceed" =>
                \/ Starting(b) \/ Over(b)
                \/ \E g \in {b.n, 2 * b.n} : Between(b, g)
           /\ pc = "check" => Over(b) \/ \E g \in {0, b.n, 2 * b.n} : Between(b, g)
           /\ pc = "handle" => HandingNonces(b) \/ HandingShares(b) \/ Over(b)
           /\ pc = "panicked" => Panic(b)
  BY DEF Stage, Idle, Starting, Between, HandingNonces, HandingShares, Over, Panic

\* Wherever run() is, a party is new, on its way, or done with.
LEMMA Somewhere ==
    ASSUME NEW b \in Plans, Planned(b), Stage(b), NEW k \in 1..b.n
    PROVE  \/ \E r \in 0..(2 * b.n) : \E S : View(parties[k], b, k, r, S)
           \/ Fresh(parties[k], b, k)
           \/ Over(b) \/ Panic(b)
  <1> DEFINE Viewed == \E r \in 0..(2 * b.n) : \E S : View(parties[k], b, k, r, S)
  <1>1. /\ b.n \in Nat \ {0} /\ at \in 1..b.n
        /\ 0 \in 0..(2 * b.n) /\ b.n \in 0..(2 * b.n) /\ 2 * b.n \in 0..(2 * b.n)
    BY PlanType DEF Planned
  <1>2. k < at \/ k = at \/ k > at
    BY <1>1
  <1>3. CASE Idle(b) \/ Starting(b)
    BY <1>1, <1>3 DEF Idle, Starting
  <1>4. CASE \E g \in {0, b.n, 2 * b.n} : Between(b, g)
    BY <1>1, <1>4 DEF Between
  <1>5. CASE HandingNonces(b)
    <2>1. seen \in 0..(2 * b.n)
      BY <1>1, <1>5 DEF HandingNonces
    <2>. QED
      BY <1>1, <1>2, <1>5, <2>1 DEF HandingNonces
  <1>6. CASE HandingShares(b)
    <2>1. b.n + seen \in 0..(2 * b.n)
      BY <1>1, <1>6 DEF HandingShares
    <2>. QED
      BY <1>1, <1>2, <1>6, <2>1 DEF HandingShares
  <1>. QED
    BY <1>3, <1>4, <1>5, <1>6 DEF Stage

\* Every step keeps the invariant, stage by stage.
LEMMA NextInv == IInv /\ [Next]_vars => IInv'
  <1> SUFFICES ASSUME IInv, [Next]_vars PROVE IInv'
    OBVIOUS
  <1>1. PICK b \in Plans : Planned(b) /\ Stage(b)
    BY DEF IInv
  <1>2. refused = {} /\ measured \subseteq {0}
    BY DEF IInv
  <1> SUFFICES /\ Planned(b)' /\ Stage(b)'
               /\ refused' = {} /\ measured' \subseteq {0}
    BY <1>1 DEF IInv
  <1>3. CASE Run
    <2>1. Idle(b) \/ Over(b)
      BY <1>1, <1>3, StageOfLoop DEF Run
    <2>2. refused' = refused /\ measured' = measured
      BY <1>3 DEF Run
    <2>. QED
      BY <1>1, <1>2, <1>3, <2>1, <2>2, RunStarts
  <1>4. CASE ProceedIfNeeded
    <2>1. pc = "proceed" /\ refused' = refused
      BY <1>4 DEF ProceedIfNeeded
    <2>2. CASE Starting(b)
      BY <1>1, <1>2, <1>4, <2>1, <2>2, ProceedsFirst
    <2>3. CASE Over(b)
      BY <1>1, <1>2, <1>4, <2>1, <2>3, ShellsProceed
    <2>4. CASE \E g \in {b.n, 2 * b.n} : Between(b, g)
      BY <1>1, <1>2, <1>4, <2>1, <2>4, ProceedsLater
    <2>. QED
      BY <1>1, <2>1, <2>2, <2>3, <2>4, StageOfLoop
  <1>5. CASE Handle
    <2>1. pc = "handle" /\ measured' = measured /\ seen < Len(Delivered)
      BY <1>5 DEF Handle
    <2>2. CASE HandingNonces(b)
      BY <1>1, <1>2, <1>5, <2>1, <2>2, HandlesNonces
    <2>3. CASE HandingShares(b)
      BY <1>1, <1>2, <1>5, <2>1, <2>3, HandlesShares
    <2>4. CASE Over(b)
      <3>1. seen = 0 /\ frozen = << >>
        BY <2>1, <2>4 DEF Over
      <3>2. FALSE
        BY <2>1, <3>1 DEF Delivered
      <3>. QED
        BY <3>2
    <2>. QED
      BY <1>1, <2>1, <2>2, <2>3, <2>4, StageOfLoop
  <1>6. CASE Handled
    <2>1. pc = "handle" /\ measured' = measured /\ refused' = refused
      BY <1>6 DEF Handled
    <2>2. CASE HandingNonces(b)
      BY <1>1, <1>2, <1>6, <2>1, <2>2, HandledNonces
    <2>3. CASE HandingShares(b)
      BY <1>1, <1>2, <1>6, <2>1, <2>3, HandledShares
    <2>4. CASE Over(b)
      BY <1>1, <1>2, <1>6, <2>1, <2>4, ShellsProceed
    <2>. QED
      BY <1>1, <2>1, <2>2, <2>3, <2>4, StageOfLoop
  <1>7. CASE FinishIfPossible
    <2>1. pc = "check" /\ measured' = measured /\ refused' = refused
      BY <1>7 DEF FinishIfPossible
    <2>2. CASE Over(b)
      BY <1>1, <1>2, <1>7, <2>1, <2>2, ChecksShells
    <2>3. CASE \E g \in {0, b.n, 2 * b.n} : Between(b, g)
      BY <1>1, <1>2, <1>7, <2>1, <2>3, ChecksLap
    <2>. QED
      BY <1>1, <2>1, <2>2, <2>3, StageOfLoop
  <1>8. CASE UNCHANGED vars
    BY <1>1, <1>2, <1>8
       DEF vars, Planned, Stage, Idle, Starting, Between, HandingNonces, HandingShares,
           Over, Panic
  <1>. QED
    BY <1>3, <1>4, <1>5, <1>6, <1>7, <1>8 DEF Next

\* So it holds throughout.
LEMMA Invariant == Spec => []IInv
  BY InitInv, NextInv, PTL DEF Spec

\* Until it has been handed all nonces a party has not finished, and from then
\* on it is in Round2 at least.
LEMMA RoundWithin ==
    ASSUME NEW b \in Plans, NEW k \in 1..b.n, NEW r \in 0..(2 * b.n), NEW S,
           NEW u, View(u, b, k, r, S)
    PROVE  /\ r <= b.n => u.round \in {"Round1", "Round2"}
           /\ b.n <= r => u.round \in {"Round2", "Finished"}
  <1>1. /\ u.round \in {"Round1", "Round2", "Finished"}
        /\ u.msgs2 # None <=> u.round \in {"Prepare", "Round1", "Round2"}
        /\ u.round = "Round1" => StoreWantsMore(StoreOfKind(u, "Round1"))
    BY DEF View, InOrder, InstOK, Settled, WantsToProceed, StoreOfKind
  <1>2. b.n \in Nat \ {0}
    BY PlanType
  <1>3. ASSUME r <= b.n PROVE u.round # "Finished"
    <2>1. PICK l \in 1..b.n : l # k
      BY Another
    <2>2. /\ Pos(b, b.n + l) # k /\ b.n + l \in 1..(2 * b.n)
          /\ Kind(b, b.n + l) = "Round2"
      BY <2>1, Positions
    <2>3. ~(b.n + l <= r)
      BY <1>2, <1>3
    <2>4. ~Heard(u, "Round2", b.order[Pos(b, b.n + l)])
      BY <2>2, <2>3, NotHeard
    <2>. QED
      BY <1>1, <2>4 DEF Heard, StoreOfKind
  <1>4. ASSUME b.n <= r PROVE u.round # "Round1"
    <2>1. ASSUME u.round = "Round1" PROVE FALSE
      <3>1. PICK j \in 1..(2 * b.n) : Kind(b, j) = "Round1" /\ ~(j <= r)
        BY <1>1, <2>1, Lacking
      <3>2. j <= b.n
        BY <3>1 DEF Kind
      <3>. QED
        BY <1>2, <1>4, <3>1, <3>2
    <2>. QED
      BY <2>1
  <1>. QED
    BY <1>1, <1>3, <1>4

LEMMA FreshRound ==
    ASSUME NEW b, NEW k, NEW u, Fresh(u, b, k)
    PROVE  u.round = "Prepare"
  BY DEF Fresh, NewInstance

\* Two neighbouring rounds that all parties are in.
LEMMA TwoRounds ==
    ASSUME NEW b \in Plans, Planned(b), Stage(b), pc # "panicked"
    PROVE  \E c \in 0..2 : \A k \in 1..b.n : CurrentRound(parties[k]) \in {c, c + 1}
  <1>1. /\ b.n \in Nat \ {0} /\ at \in 1..b.n
        /\ 0 \in 0..(2 * b.n) /\ b.n \in 0..(2 * b.n) /\ 2 * b.n \in 0..(2 * b.n)
    BY PlanType DEF Planned
  <1> DEFINE In(X) == \A k \in 1..b.n : parties[k].round \in X
  <1>2. In({"Prepare", "Round1"}) \/ In({"Round1", "Round2"})
          \/ In({"Round2", "Finished"}) \/ In({"Gone"})
    <2>1. CASE Idle(b)
      <3>1. ASSUME NEW k \in 1..b.n PROVE parties[k].round = "Prepare"
        BY <2>1, FreshRound DEF Idle
      <3>. QED
        BY <3>1
    <2>2. CASE Starting(b)
      <3>1. ASSUME NEW k \in 1..b.n PROVE parties[k].round \in {"Prepare", "Round1"}
        <4>1. CASE k < at
          <5>1. View(parties[k], b, k, 0, Once(b, k))
            BY <2>2, <4>1 DEF Starting
          <5>. QED
            BY <5>1, RoundOf
        <4>2. CASE ~(k < at)
          BY <2>2, <4>2, FreshRound DEF Starting
        <4>. QED
          BY <4>1, <4>2
      <3>. QED
        BY <3>1
    <2>3. ASSUME NEW g \in {0, b.n, 2 * b.n}, Between(b, g)
          PROVE  In({"Round1", "Round2"}) \/ In({"Round2", "Finished"})
      <3>1. ASSUME NEW k \in 1..b.n
            PROVE  /\ g <= b.n => parties[k].round \in {"Round1", "Round2"}
                   /\ b.n <= g => parties[k].round \in {"Round2", "Finished"}
        <4> DEFINE S == IF g = 0 THEN Once(b, k) ELSE Twice(b, k)
        <4>1. View(parties[k], b, k, g, S) /\ g \in 0..(2 * b.n)
          BY <1>1, <2>3 DEF Between
        <4> HIDE DEF S
        <4>. QED
          BY <4>1, RoundWithin
      <3>2. g <= b.n \/ b.n <= g
        BY <1>1
      <3>. QED
        BY <3>1, <3>2
    <2>4. CASE HandingNonces(b)
      <3>1. ASSUME NEW k \in 1..b.n
            PROVE  \E r \in 0..(2 * b.n) : \E S :
                     View(parties[k], b, k, r, S) /\ r <= b.n
        <4>1. seen \in 0..(2 * b.n) /\ seen <= b.n
          BY <1>1, <2>4 DEF HandingNonces
        <4>2. k < at \/ k = at \/ k > at
          BY <1>1
        <4>. QED
          BY <1>1, <2>4, <4>1, <4>2 DEF HandingNonces
      <3>2. ASSUME NEW k \in 1..b.n PROVE parties[k].round \in {"Round1", "Round2"}
        BY <3>1, RoundWithin
      <3>. QED
        BY <3>2
    <2>5. CASE HandingShares(b)
      <3>1. ASSUME NEW k \in 1..b.n
            PROVE  \E r \in 0..(2 * b.n) : \E S :
                     View(parties[k], b, k, r, S) /\ b.n <= r
        <4>1. b.n + seen \in 0..(2 * b.n) /\ b.n <= b.n + seen
          BY <1>1, <2>5 DEF HandingShares
        <4>2. k < at \/ k = at \/ k > at
          BY <1>1
        <4>3. CASE k < at
          <5>1. View(parties[k], b, k, 2 * b.n, Twice(b, k)) /\ b.n <= 2 * b.n
            BY <1>1, <2>5, <4>3 DEF HandingShares
          <5>. QED
            BY <1>1, <5>1
        <4>4. CASE k = at
          <5>1. View(parties[k], b, k, b.n + seen, Twice(b, k))
            BY <2>5, <4>4 DEF HandingShares
          <5>. QED
            BY <4>1, <5>1
        <4>5. CASE k > at
          <5>1. View(parties[k], b, k, b.n, Twice(b, k)) /\ b.n <= b.n
            BY <1>1, <2>5, <4>5 DEF HandingShares
          <5>. QED
            BY <1>1, <5>1
        <4>. QED
          BY <4>2, <4>3, <4>4, <4>5
      <3>2. ASSUME NEW k \in 1..b.n PROVE parties[k].round \in {"Round2", "Finished"}
        BY <3>1, RoundWithin
      <3>. QED
        BY <3>2
    <2>6. CASE Over(b)
      BY <2>6 DEF Over
    <2>. QED
      BY <2>1, <2>2, <2>3, <2>4, <2>5, <2>6 DEF Stage, Panic
  <1>3. ASSUME NEW k \in 1..b.n
        PROVE  /\ parties[k].round = "Prepare" => CurrentRound(parties[k]) = 0
               /\ parties[k].round = "Round1" => CurrentRound(parties[k]) = 1
               /\ parties[k].round = "Round2" => CurrentRound(parties[k]) = 2
               /\ parties[k].round \in {"Finished", "Gone"} => CurrentRound(parties[k]) = 3
    BY DEF CurrentRound
  <1>4. CASE In({"Prepare", "Round1"})
    <2>1. \A k \in 1..b.n : CurrentRound(parties[k]) \in {0, 0 + 1}
      BY <1>3, <1>4
    <2>. QED
      BY <2>1
  <1>5. CASE In({"Round1", "Round2"})
    <2>1. \A k \in 1..b.n : CurrentRound(parties[k]) \in {1, 1 + 1}
      BY <1>3, <1>5
    <2>. QED
      BY <2>1
  <1>6. CASE In({"Round2", "Finished"}) \/ In({"Gone"})
    <2>1. \A k \in 1..b.n : CurrentRound(parties[k]) \in {2, 2 + 1}
      BY <1>3, <1>6
    <2>. QED
      BY <2>1
  <1>. QED
    BY <1>2, <1>4, <1>5, <1>6

\* In lock step: no party is more than one round ahead of another, also while
\* some have been handed the messages of the lap and others have not; at the end
\* of a lap all are in one round, because all have been handed the same prefix
\* of the messages; and handle_incoming never returns an error, because every
\* message comes in a round that waits for it (run() and finish_if_possible of
\* simulation.rs).
THEOREM InLockStep == Spec => []LockStep
  <1>1. IInv => LockStep
    <2> SUFFICES ASSUME IInv PROVE LockStep
      OBVIOUS
    <2>1. PICK b \in Plans : Planned(b) /\ Stage(b)
      BY DEF IInv
    <2>2. Index = 1..b.n
      BY <2>1 DEF Planned, Index
    <2>3. ASSUME pc = "check", NEW j \in 1..b.n, NEW k \in 1..b.n
          PROVE  parties[j].round = parties[k].round
      <3>1. CASE Over(b)
        BY <3>1 DEF Over
      <3>2. ASSUME NEW g \in {0, b.n, 2 * b.n}, Between(b, g)
            PROVE  parties[j].round = parties[k].round
        <4>1. ASSUME NEW l \in 1..b.n
              PROVE  View(parties[l], b, l, g, IF g = 0 THEN Once(b, l) ELSE Twice(b, l))
          BY <3>2 DEF Between
        <4>2. ASSUME NEW l \in 1..b.n
              PROVE  /\ g = 0 => parties[l].round = "Round1"
                     /\ g = b.n => parties[l].round = "Round2"
                     /\ g = 2 * b.n => parties[l].round = "Finished"
          <5> DEFINE S == IF g = 0 THEN Once(b, l) ELSE Twice(b, l)
                     u == parties[l]
          <5>1. View(u, b, l, g, S)
            BY <4>1
          <5> HIDE DEF S, u
          <5>2. /\ View(u, b, l, 0, S) => u.round = "Round1"
                /\ View(u, b, l, b.n, S) => u.round = "Round2"
                /\ View(u, b, l, 2 * b.n, S) => u.round = "Finished"
            BY RoundOf
          <5>3. /\ g = 0 => u.round = "Round1"
                /\ g = b.n => u.round = "Round2"
                /\ g = 2 * b.n => u.round = "Finished"
            BY <5>1, <5>2
          <5>. QED
            BY <5>3 DEF u
        <4>. QED
          BY <4>2
      <3>. QED
        BY <2>1, <2>3, <3>1, <3>2, StageOfLoop
    <2>4. ASSUME pc # "panicked", NEW j \in 1..b.n, NEW k \in 1..b.n
          PROVE  CurrentRound(parties[j]) <= CurrentRound(parties[k]) + 1
      <3>1. PICK c \in 0..2 : \A l \in 1..b.n : CurrentRound(parties[l]) \in {c, c + 1}
        BY <2>1, <2>4, TwoRounds
      <3>2. CurrentRound(parties[j]) \in {c, c + 1} /\ CurrentRound(parties[k]) \in {c, c + 1}
        BY <3>1
      <3>. QED
        BY <3>2
    <2>. QED
      BY <2>2, <2>3, <2>4 DEF IInv, LockStep
  <1>. QED
    BY <1>1, Invariant, PTL

\* run() panics in the assert! of Round2 only when the parties were given
\* different messages, returns one result per party only when they were not,
\* and in the first case no party ever has a signature (rounds.rs, simulation.rs).
THEOREM PanicsExactly == Spec => []PanicsOnTwoMessages
  <1>1. IInv => PanicsOnTwoMessages
    <2> SUFFICES ASSUME IInv PROVE PanicsOnTwoMessages
      OBVIOUS
    <2>1. PICK b \in Plans : Planned(b) /\ Stage(b)
      BY DEF IInv
    <2>2. Index = 1..b.n /\ Len(parties) = b.n
      BY <2>1 DEF Planned, Index
    <2>3. ASSUME NEW k \in 1..b.n PROVE parties[k].message = b.message[k]
      <3>1. CASE \E r, S : View(parties[k], b, k, r, S)
        BY <3>1 DEF View, InOrder, InstOK, Shaped
      <3>2. CASE Fresh(parties[k], b, k)
        BY <3>2 DEF Fresh, NewInstance
      <3>3. CASE Over(b) \/ Panic(b)
        BY <3>3 DEF Over, Panic, Shaped
      <3>. QED
        BY <2>1, <3>1, <3>2, <3>3, Somewhere
    <2>4. ASSUME Differ(b), NEW k \in 1..b.n PROVE parties[k].result = None
      <3>1. ASSUME NEW r \in 0..(2 * b.n), NEW S, View(parties[k], b, k, r, S)
            PROVE  parties[k].result = None
        BY <2>4, <3>1, PanicLeavesNone DEF View
      <3>2. CASE Fresh(parties[k], b, k)
        BY <3>2 DEF Fresh, NewInstance
      <3>3. CASE Over(b) \/ Panic(b)
        BY <3>3 DEF Over, Panic
      <3>. QED
        BY <2>1, <3>1, <3>2, <3>3, Somewhere
    <2>5. (\E j, k \in Index : parties[j].message # parties[k].message) <=> Differ(b)
      BY <2>2, <2>3 DEF Differ
    <2>6. pc = "panicked" => Differ(b)
      BY <2>1, StageOfLoop DEF Panic
    <2>7. pc = "returned" => ~Differ(b) /\ Len(answer) = b.n
      BY <2>1, StageOfLoop DEF Over, Idle
    <2>. QED
      BY <2>2, <2>4, <2>5, <2>6, <2>7 DEF PanicsOnTwoMessages
  <1>. QED
    BY <1>1, Invariant, PTL

\* The benchmark has results for Prepare alone: no other round changes in
\* proceed_if_needed, as is_expensive() is false in all of them.
THEOREM PrepareAloneMeasured == Spec => []OnlyPrepareIsMeasured
  <1>1. IInv => OnlyPrepareIsMeasured
    BY DEF IInv, OnlyPrepareIsMeasured
  <1>. QED
    BY <1>1, Invariant, PTL
=============================================================================
