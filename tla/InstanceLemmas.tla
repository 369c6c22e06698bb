--------------------------- MODULE InstanceLemmas ---------------------------
(***************************************************************************)
(* Facts about the operators of BroadcastMsgsStore and Musig2Instance.     *)
(*                                                                         *)
(* What the operators of Musig2Instance keep, for party i of n with any    *)
(* key, signing m.  E is the set of messages of the other parties that     *)
(* have come so far, with bodies in B, and S the set of own messages that  *)
(* have left the queue.  The senders of E need not agree on n, on who has  *)
(* which index, or on the message.                                         *)
(***************************************************************************)
EXTENDS Musig2Instance, FiniteSetTheorems, SequenceTheorems, TLAPS

-----------------------------------------------------------------------------
(* The stores: any number of parties n, any owner i, any set B of bodies.  *)
EmptySlots(store) == {k \in DOMAIN store.msgs : store.msgs[k] = None}

\* A store of party i of n that holds bodies of B and counts right.
ExactStore(store, i, n, B) ==
    /\ store \in [party_i : {i}, msgs : [1..(n - 1) -> B \cup {None}], msgs_left : Nat]
    /\ store.msgs_left = Cardinality(EmptySlots(store))

\* The slots and the other parties are in bijection: SlotParty and PartyJ are
\* inverse to each other, so a slot never stands for two parties or the owner.
LEMMA SlotOfParty ==
    ASSUME NEW n \in Nat \ {0}, NEW i \in 1..n, NEW p \in (1..n) \ {i}
    PROVE  PartyJ(i, p) \in 1..(n - 1) /\ SlotParty(i, PartyJ(i, p)) = p
  BY DEF PartyJ, SlotParty

LEMMA PartyOfSlot ==
    ASSUME NEW n \in Nat \ {0}, NEW i \in 1..n, NEW k \in 1..(n - 1)
    PROVE  SlotParty(i, k) \in (1..n) \ {i} /\ PartyJ(i, SlotParty(i, k)) = k
  BY DEF PartyJ, SlotParty

LEMMA EmptySlotsFinite ==
    ASSUME NEW n \in Nat \ {0}, NEW store, DOMAIN store.msgs = 1..(n - 1)
    PROVE  IsFiniteSet(EmptySlots(store))
  <1>1. IsFiniteSet(1..(n - 1))
    BY FS_Interval
  <1>2. EmptySlots(store) \in SUBSET (1..(n - 1))
    BY DEF EmptySlots
  <1>. QED
    BY <1>1, <1>2, FS_Subset

\* A new store lacks n - 1 messages.
LEMMA NewStoreExact ==
    ASSUME NEW n \in Nat \ {0}, NEW i \in 1..n, NEW B
    PROVE  ExactStore(NewStore(i, n), i, n, B)
  <1> DEFINE s == NewStore(i, n)
  <1>1. /\ s \in [party_i : {i}, msgs : [1..(n - 1) -> B \cup {None}], msgs_left : Nat]
        /\ s.msgs_left = n - 1
    BY DEF NewStore
  <1>2. EmptySlots(s) = 1..(n - 1)
    BY DEF EmptySlots, NewStore
  <1>3. Cardinality(1..(n - 1)) = n - 1
    <2>1. 1 \in Int /\ n - 1 \in Int
      OBVIOUS
    <2>2. Cardinality(1..(n - 1)) = IF 1 > n - 1 THEN 0 ELSE n - 1 - 1 + 1
      BY <2>1, FS_Interval
    <2>. QED
      BY <2>2
  <1>. QED
    BY <1>1, <1>2, <1>3 DEF ExactStore

\* The count never exceeds the number of slots.
LEMMA CountBounded ==
    ASSUME NEW n \in Nat \ {0}, NEW i, NEW B,
           NEW store, ExactStore(store, i, n, B)
    PROVE  store.msgs_left \in 0..(n - 1)
  <1>1. IsFiniteSet(1..(n - 1)) /\ Cardinality(1..(n - 1)) = n - 1
    <2>1. 1 \in Int /\ n - 1 \in Int
      OBVIOUS
    <2>2. /\ IsFiniteSet(1..(n - 1))
          /\ Cardinality(1..(n - 1)) = IF 1 > n - 1 THEN 0 ELSE n - 1 - 1 + 1
      BY <2>1, FS_Interval
    <2>. QED
      BY <2>2
  <1>2. EmptySlots(store) \in SUBSET (1..(n - 1))
    BY DEF ExactStore, EmptySlots
  <1>3. Cardinality(EmptySlots(store)) <= n - 1
    BY <1>1, <1>2, FS_Subset
  <1>4. /\ store.msgs_left = Cardinality(EmptySlots(store))
        /\ store.msgs_left \in Nat
    BY DEF ExactStore
  <1>. QED
    BY <1>3, <1>4

\* What an accepted message changes: one slot that was empty is filled.
LEMMA PushFillsOne ==
    ASSUME NEW n, NEW i, NEW B, NEW store, NEW msg,
           ExactStore(store, i, n, B),
           PushResult(store, msg) = "Ok"
    PROVE  LET j == PartyJ(i, msg.sender)
           IN  /\ msg.sender # 0 /\ msg.receiver = None /\ msg.sender # i
               /\ j \in 1..(n - 1)
               /\ store.msgs[j] = None
               /\ PushMsg(store, msg).party_i = i
               /\ PushMsg(store, msg).msgs = [store.msgs EXCEPT ![j] = msg.body]
               /\ PushMsg(store, msg).msgs_left = store.msgs_left - 1
  BY DEF ExactStore, PushResult, PushMsg

\* push_msg keeps the count right, whatever message comes in.
LEMMA PushMsgExact ==
    ASSUME NEW n \in Nat \ {0}, NEW i \in 1..n, NEW B, None \notin B,
           NEW store, ExactStore(store, i, n, B),
           NEW msg, msg.body \in B
    PROVE  ExactStore(PushMsg(store, msg), i, n, B)
  <1>1. CASE PushResult(store, msg) # "Ok"
    BY <1>1 DEF PushMsg
  <1>2. CASE PushResult(store, msg) = "Ok"
    <2> DEFINE j == PartyJ(i, msg.sender)
               s == PushMsg(store, msg)
    <2>1. /\ j \in 1..(n - 1)
          /\ store.msgs[j] = None
          /\ s.msgs = [store.msgs EXCEPT ![j] = msg.body]
          /\ s.msgs_left = store.msgs_left - 1
      BY <1>2, PushFillsOne
    <2>2. /\ store \in [party_i : {i}, msgs : [1..(n - 1) -> B \cup {None}], msgs_left : Nat]
          /\ store.msgs_left = Cardinality(EmptySlots(store))
      BY DEF ExactStore
    <2>3. EmptySlots(s) = EmptySlots(store) \ {j} /\ j \in EmptySlots(store)
      BY <2>1, <2>2 DEF EmptySlots
    <2>4. IsFiniteSet(EmptySlots(store))
      BY <2>2, EmptySlotsFinite
    <2>5. Cardinality(EmptySlots(s)) = Cardinality(EmptySlots(store)) - 1
      <3>1. ASSUME NEW S, IsFiniteSet(S), NEW x \in S
            PROVE  Cardinality(S \ {x}) = Cardinality(S) - 1
        BY <3>1, FS_RemoveElement
      <3>. QED
        BY <2>3, <2>4, <3>1
    <2>6. Cardinality(EmptySlots(s)) \in Nat
      BY <2>3, <2>4, FS_RemoveElement, FS_CardinalityType
    <2>7. s \in [party_i : {i}, msgs : [1..(n - 1) -> B \cup {None}], msgs_left : Nat]
      <3>1. s.msgs_left \in Nat
        BY <2>1, <2>2, <2>5, <2>6
      <3>2. s.msgs \in [1..(n - 1) -> B \cup {None}]
        BY <2>1, <2>2
      <3>3. s = [store EXCEPT !.msgs[PartyJ(store.party_i, msg.sender)] = msg.body,
                              !.msgs_left = @ - 1]
        BY <1>2 DEF PushMsg
      <3>. QED
        BY <3>1, <3>2, <3>3, <2>2
    <2>. QED
      BY <2>1, <2>2, <2>5, <2>7 DEF ExactStore
  <1>. QED
    BY <1>1, <1>2

\* A store that wants no more has no hole, so finish() unwraps no None.
LEMMA CompleteHasNoHoles ==
    ASSUME NEW n \in Nat \ {0}, NEW i \in 1..n, NEW B,
           NEW store, ExactStore(store, i, n, B), ~WantsMore(store),
           NEW k \in 1..(n - 1)
    PROVE  store.msgs[k] \in B
  <1>1. /\ store.msgs \in [1..(n - 1) -> B \cup {None}]
        /\ store.msgs_left \in Nat
        /\ store.msgs_left = Cardinality(EmptySlots(store))
    BY DEF ExactStore
  <1>2. Cardinality(EmptySlots(store)) = 0
    BY <1>1 DEF WantsMore
  <1>3. EmptySlots(store) = {}
    BY <1>1, <1>2, EmptySlotsFinite, FS_EmptySet
  <1>. QED
    BY <1>1, <1>3 DEF EmptySlots

\* blame() names as many parties as messages are missing, never the owner.
LEMMA BlameCounts ==
    ASSUME NEW n \in Nat \ {0}, NEW i \in 1..n, NEW B,
           NEW store, ExactStore(store, i, n, B)
    PROVE  /\ Blame(store).guilty \subseteq (1..n) \ {i}
           /\ Blame(store).left = Cardinality(Blame(store).guilty)
  <1> DEFINE S == EmptySlots(store)
             T == Blame(store).guilty
             f == [k \in S |-> SlotParty(i, k)]
  <1>1. /\ DOMAIN store.msgs = 1..(n - 1)
        /\ store.party_i = i
        /\ store.msgs_left = Cardinality(S)
    BY DEF ExactStore
  <1>2. S \subseteq 1..(n - 1)
    BY <1>1 DEF EmptySlots
  <1>3. T = {SlotParty(i, k) : k \in S} /\ Blame(store).left = store.msgs_left
    BY <1>1 DEF Blame, EmptySlots
  <1>4. T \subseteq (1..n) \ {i}
    BY <1>2, <1>3, PartyOfSlot
  <1>5. ASSUME NEW k \in S, NEW l \in S, f[k] = f[l] PROVE k = l
    BY <1>2, <1>5, PartyOfSlot
  <1>6. f \in Bijection(S, T)
    BY <1>3, <1>5 DEF Bijection, Injection, IsInjective, Surjection
  <1>7. ExistsBijection(S, T)
    BY <1>6 DEF ExistsBijection
  <1>8. Cardinality(T) = Cardinality(S)
    BY <1>1, <1>7, EmptySlotsFinite, FS_Bijection
  <1>. QED
    BY <1>1, <1>3, <1>4, <1>8
-----------------------------------------------------------------------------
(* The instances.                                                          *)
Rounds == {"Prepare", "Round1", "Round2", "Finished", "Gone"}

Fields == {"round", "party_i", "party_n", "key", "message", "msgs1", "msgs2",
           "msgs_queue", "ctx", "result"}

\* The two messages of a party.
Nonces(i, key, m) == Broadcast(i, Round1Body(key, m))
OwnShare(i, key, c) == Broadcast(i, Share(key, c))

StoresOf(i, n, B) ==
    [party_i : {i}, msgs : [1..(n - 1) -> B \cup {None}], msgs_left : 0..(n - 1)]

\* None is no body and no store.
NoneIsNone(i, n, B) == None \notin B /\ None \notin StoresOf(i, n, B)

\* A body of this kind has come from party p.
Came(body, kind, p, E) ==
    \E x \in E : x.sender = p /\ x.body = body /\ x.body.kind = kind

\* A store that counts right, in which what is in a slot came from its party.
StoreOK(store, i, n, kind, B, E) ==
    /\ ExactStore(store, i, n, B)
    /\ \A k \in 1..(n - 1) : store.msgs[k] # None =>
         Came(store.msgs[k], kind, SlotParty(i, k), E)

\* A context for m whose keys came with the nonces of the other parties.
KeysFrom(c, i, n, key, m, E) ==
    /\ c = [pks |-> c.pks, message |-> m]
    /\ c.pks = [k \in 1..n |-> c.pks[k]]
    /\ c.pks[i] = key
    /\ \A k \in (1..n) \ {i} :
         \E x \in E : /\ x.sender = k
                      /\ x.body.kind = "Round1" /\ x.body.key = c.pks[k]

\* The shares of c under other keys than the own one have come.
SharesFrom(c, n, key, E) ==
    \A k \in 1..n : c.pks[k] # key => \E x \in E : x.body = Share(c.pks[k], c)

\* Own messages are sent in order: what is in the queue is still to leave.
OneOut(S, queue, x) == \/ S = {} /\ queue = << x >>
                       \/ S = {x} /\ queue = << >>
BothOut(S, queue, x, y) == \/ S = {} /\ queue = << x, y >>
                           \/ S = {x} /\ queue = << y >>
                           \/ S = {x, y} /\ queue = << >>

\* The shape of an instance: an instance record with the party's own data.
Shaped(u, i, n, key, m) ==
    /\ u = [f \in Fields |-> u[f]]
    /\ u.party_i = i /\ u.party_n = n /\ u.key = key /\ u.message = m
    /\ u.round \in Rounds

\* The context of a signature that u has or has given away.
Done(u, c, i, n, key, m, E, S) ==
    /\ KeysFrom(c, i, n, key, m, E)
    /\ BothOut(S, u.msgs_queue, Nonces(i, key, m), OwnShare(i, key, c))

\* Where the rounds have got.
Progress(u, i, n, key, m, E, S) ==
    /\ u.round = "Prepare" => S = {} /\ u.msgs_queue = << >>
    /\ u.round = "Round1" => OneOut(S, u.msgs_queue, Nonces(i, key, m))
    /\ u.round = "Round2" => Done(u, u.ctx, i, n, key, m, E, S)
    /\ u.round = "Finished" =>
         /\ Done(u, u.result.ctx, i, n, key, m, E, S)
         /\ u.result = [ ctx |-> u.result.ctx,
                         shares |-> {Share(u.result.ctx.pks[k], u.result.ctx) : k \in 1..n} ]
         /\ SharesFrom(u.result.ctx, n, key, E)
    /\ u.round = "Gone" => \E c : Done(u, c, i, n, key, m, E, S)

\* The invariant of an instance.
InstOK(u, i, n, key, m, B, E, S) ==
    /\ Shaped(u, i, n, key, m)
    /\ u.msgs1 # None => StoreOK(u.msgs1, i, n, "Round1", B, E)
    /\ u.msgs2 # None => StoreOK(u.msgs2, i, n, "Round2", B, E)
    /\ u.msgs1 # None <=> u.round \in {"Prepare", "Round1"}
    /\ u.msgs2 # None <=> u.round \in {"Prepare", "Round1", "Round2"}
    /\ u.round # "Round2" => u.ctx = None
    /\ u.round # "Finished" => u.result = None
    /\ Progress(u, i, n, key, m, E, S)
-----------------------------------------------------------------------------
LEMMA ShortQueues ==
    ASSUME NEW x, NEW y
    PROVE  /\ Append(<< >>, x) = << x >> /\ Append(<< x >>, y) = << x, y >>
           /\ << x >> # << >> /\ << x, y >> # << >>
  <1>1. Append(<< >>, x) = << x >>
    OBVIOUS
  <1>2. Append(<< x >>, y) = << x, y >>
    <2> DEFINE q == Append(<< x >>, y)
    <2>1. << x >> \in Seq({x, y}) /\ Len(<< x >>) = 1 /\ << x >>[1] = x
      OBVIOUS
    <2>2. q \in Seq({x, y}) /\ Len(q) = 2 /\ q[1] = x /\ q[2] = y
      BY <2>1
    <2>3. << x, y >> \in Seq({x, y}) /\ Len(<< x, y >>) = 2
      OBVIOUS
    <2>4. << x, y >>[1] = x /\ << x, y >>[2] = y
      OBVIOUS
    <2>5. \A j \in 1..Len(q) : q[j] = << x, y >>[j]
      BY <2>2, <2>4
    <2>. QED
      BY <2>2, <2>3, <2>5, SeqEqual
  <1>3. << x >> # << >> /\ << x, y >> # << >>
    OBVIOUS
  <1>. QED
    BY <1>1, <1>2, <1>3

\* No store is None.
LEMMA StoreNotNone ==
    ASSUME NEW n \in Nat \ {0}, NEW i, NEW B, NoneIsNone(i, n, B),
           NEW store, ExactStore(store, i, n, B)
    PROVE  /\ store \in StoresOf(i, n, B)
           /\ store # None
  <1>1. store.msgs_left \in 0..(n - 1)
    BY CountBounded
  <1>2. store \in StoresOf(i, n, B)
    BY <1>1 DEF ExactStore, StoresOf
  <1>. QED
    BY <1>2 DEF NoneIsNone

\* More messages do no harm.
LEMMA StoreGrows ==
    ASSUME NEW store, NEW i, NEW n, NEW kind, NEW B, NEW E, NEW E2, E \subseteq E2,
           StoreOK(store, i, n, kind, B, E)
    PROVE  StoreOK(store, i, n, kind, B, E2)
  BY DEF StoreOK, Came

LEMMA KeysGrow ==
    ASSUME NEW c, NEW i, NEW n, NEW key, NEW m, NEW E, NEW E2, E \subseteq E2,
           KeysFrom(c, i, n, key, m, E)
    PROVE  KeysFrom(c, i, n, key, m, E2)
  BY DEF KeysFrom

LEMMA InstOKGrows ==
    ASSUME NEW u, NEW i, NEW n, NEW key, NEW m, NEW B, NEW E, NEW S,
           NEW E2, E \subseteq E2, InstOK(u, i, n, key, m, B, E, S)
    PROVE  InstOK(u, i, n, key, m, B, E2, S)
  <1>1. Progress(u, i, n, key, m, E2, S)
    <2>1. \A c : Done(u, c, i, n, key, m, E, S) => Done(u, c, i, n, key, m, E2, S)
      BY KeysGrow DEF Done
    <2>2. \A c : SharesFrom(c, n, key, E) => SharesFrom(c, n, key, E2)
      BY DEF SharesFrom
    <2>3. Progress(u, i, n, key, m, E, S)
      BY DEF InstOK
    <2>. QED
      BY <2>1, <2>2, <2>3 DEF Progress
  <1>. QED
    BY <1>1, StoreGrows DEF InstOK

\* A new instance is in order.
LEMMA NewInstanceOK ==
    ASSUME NEW n \in Nat \ {0}, NEW i \in 1..n, NEW key, NEW m, NEW B,
           NoneIsNone(i, n, B), NEW E
    PROVE  InstOK(NewInstance(i, n, key, m), i, n, key, m, B, E, {})
  <1> DEFINE u == NewInstance(i, n, key, m)
             store == NewStore(i, n)
  <1>1. Shaped(u, i, n, key, m)
    BY DEF Shaped, NewInstance, Rounds, Fields
  <1>2. \A kind : StoreOK(store, i, n, kind, B, E)
    <2>1. ExactStore(store, i, n, B)
      BY NewStoreExact
    <2>2. \A k \in 1..(n - 1) : store.msgs[k] = None
      BY DEF NewStore
    <2>. QED
      BY <2>1, <2>2 DEF StoreOK
  <1>3. store # None
    BY <1>2, StoreNotNone DEF StoreOK
  <1>4. /\ u.round = "Prepare" /\ u.ctx = None /\ u.result = None
        /\ u.msgs1 = store /\ u.msgs2 = store /\ u.msgs_queue = << >>
    BY DEF NewInstance
  <1>. QED
    BY <1>1, <1>2, <1>3, <1>4 DEF InstOK, Progress

\* Prepare queues the nonces.
LEMMA FromPrepareOK ==
    ASSUME NEW n \in Nat \ {0}, NEW i \in 1..n, NEW key, NEW m, NEW B, NEW E, NEW S,
           NEW u, InstOK(u, i, n, key, m, B, E, S), u.round = "Prepare"
    PROVE  /\ InstOK(FromPrepare(u), i, n, key, m, B, E, S)
           /\ FromPrepare(u).round = "Round1"
           /\ FromPrepare(u).msgs1 = u.msgs1 /\ FromPrepare(u).msgs2 = u.msgs2
  <1> DEFINE t == FromPrepare(u)
  <1>1. Shaped(u, i, n, key, m) /\ S = {} /\ u.msgs_queue = << >>
    BY DEF InstOK, Progress
  <1>2. /\ t = [f \in Fields |-> t[f]]
        /\ t.round = "Round1"
        /\ t.msgs_queue = Append(u.msgs_queue, Nonces(i, key, m))
        /\ t.party_i = i /\ t.party_n = n /\ t.key = key /\ t.message = m
        /\ t.msgs1 = u.msgs1 /\ t.msgs2 = u.msgs2 /\ t.ctx = u.ctx /\ t.result = u.result
    BY <1>1 DEF FromPrepare, Shaped, Fields, Nonces
  <1>3. Shaped(t, i, n, key, m)
    BY <1>2 DEF Shaped, Rounds
  <1>4. Progress(t, i, n, key, m, E, S)
    BY <1>1, <1>2, ShortQueues DEF Progress, OneOut
  <1>. QED
    BY <1>2, <1>3, <1>4 DEF InstOK

\* What a complete store has in the slot of a party came from that party.
LEMMA CompleteCame ==
    ASSUME NEW n \in Nat \ {0}, NEW i \in 1..n, NEW kind, NEW B, None \notin B, NEW E,
           NEW store, StoreOK(store, i, n, kind, B, E), ~WantsMore(store),
           NEW p \in (1..n) \ {i}
    PROVE  /\ PartyJ(i, p) \in 1..(n - 1)
           /\ store.msgs[PartyJ(i, p)] \in B
           /\ Came(store.msgs[PartyJ(i, p)], kind, p, E)
  <1> DEFINE k == PartyJ(i, p)
  <1>1. k \in 1..(n - 1) /\ SlotParty(i, k) = p
    BY SlotOfParty
  <1>2. store.msgs[k] \in B
    BY <1>1, CompleteHasNoHoles DEF StoreOK
  <1>. QED
    BY <1>1, <1>2 DEF StoreOK

\* The context of a complete Round1 store.
LEMMA ContextFrom ==
    ASSUME NEW n \in Nat \ {0}, NEW i \in 1..n, NEW key, NEW m, NEW B, None \notin B,
           NEW E, NEW u, Shaped(u, i, n, key, m),
           StoreOK(u.msgs1, i, n, "Round1", B, E), ~WantsMore(u.msgs1)
    PROVE  KeysFrom(SigningContext(u), i, n, key, m, E)
  <1> DEFINE c == SigningContext(u)
  <1>1. /\ c = [pks |-> c.pks, message |-> m]
        /\ c.pks = Pks(u)
    BY DEF SigningContext, Shaped
  <1>2. /\ Pks(u) = [k \in 1..n |-> Pks(u)[k]]
        /\ Pks(u)[i] = key
    BY DEF Pks, Shaped
  <1>3. ASSUME NEW k \in (1..n) \ {i}
        PROVE  \E x \in E : x.sender = k /\ x.body.kind = "Round1" /\ x.body.key = Pks(u)[k]
    <2>1. Pks(u)[k] = u.msgs1.msgs[PartyJ(i, k)].key
      BY DEF Pks, Shaped
    <2>2. Came(u.msgs1.msgs[PartyJ(i, k)], "Round1", k, E)
      BY CompleteCame
    <2>. QED
      BY <2>1, <2>2 DEF Came
  <1>. QED
    BY <1>1, <1>2, <1>3 DEF KeysFrom

\* Round1 turns the keys into the context and queues the share.
LEMMA FromRound1OK ==
    ASSUME NEW n \in Nat \ {0}, NEW i \in 1..n, NEW key, NEW m, NEW B, None \notin B,
           NEW E, NEW S,
           NEW u, InstOK(u, i, n, key, m, B, E, S), u.round = "Round1",
           ~StoreWantsMore(u.msgs1)
    PROVE  /\ InstOK(FromRound1(u), i, n, key, m, B, E, S)
           /\ FromRound1(u).round = "Round2"
           /\ FromRound1(u).msgs1 = None /\ FromRound1(u).msgs2 = u.msgs2
  <1> DEFINE t == FromRound1(u)
             c == SigningContext(u)
  <1>1. Shaped(u, i, n, key, m) /\ OneOut(S, u.msgs_queue, Nonces(i, key, m))
    BY DEF InstOK, Progress
  <1>2. /\ StoreOK(u.msgs1, i, n, "Round1", B, E) /\ ~WantsMore(u.msgs1)
        /\ u.msgs2 # None /\ StoreOK(u.msgs2, i, n, "Round2", B, E)
        /\ u.result = None
    BY DEF InstOK, StoreWantsMore
  <1>3. KeysFrom(c, i, n, key, m, E)
    BY <1>1, <1>2, ContextFrom
  <1>4. /\ t = [f \in Fields |-> t[f]]
        /\ t.round = "Round2"
        /\ t.msgs_queue = Append(u.msgs_queue, OwnShare(i, key, c))
        /\ t.party_i = i /\ t.party_n = n /\ t.key = key /\ t.message = m
        /\ t.msgs1 = None /\ t.msgs2 = u.msgs2
        /\ t.ctx = c /\ t.result = u.result
    BY <1>1 DEF FromRound1, Shaped, Fields, OwnShare
  <1>5. Shaped(t, i, n, key, m)
    BY <1>4 DEF Shaped, Rounds
  <1>6. BothOut(S, t.msgs_queue, Nonces(i, key, m), OwnShare(i, key, c))
    BY <1>1, <1>4, ShortQueues DEF OneOut, BothOut
  <1>7. Progress(t, i, n, key, m, E, S)
    BY <1>3, <1>4, <1>6 DEF Progress, Done
  <1>. QED
    BY <1>2, <1>4, <1>5, <1>7 DEF InstOK

\* The shares of a sum that verifies really came.
LEMMA VerifiedCame ==
    ASSUME NEW n \in Nat \ {0}, NEW i \in 1..n, NEW key, NEW m, NEW B, None \notin B,
           NEW E, NEW u, Shaped(u, i, n, key, m),
           StoreOK(u.msgs2, i, n, "Round2", B, E), ~WantsMore(u.msgs2),
           KeysFrom(u.ctx, i, n, key, m, E), Verifies(SummedShares(u), u.ctx)
    PROVE  /\ SummedShares(u) = {Share(u.ctx.pks[k], u.ctx) : k \in 1..n}
           /\ SharesFrom(u.ctx, n, key, E)
  <1>1. DOMAIN u.ctx.pks = 1..n
    BY DEF KeysFrom
  <1>2. SummedShares(u) = {Share(u.ctx.pks[k], u.ctx) : k \in 1..n}
    BY <1>1 DEF Verifies
  <1>3. ASSUME NEW k \in 1..n, u.ctx.pks[k] # key
        PROVE  \E x \in E : x.body = Share(u.ctx.pks[k], u.ctx)
    <2> DEFINE y == Share(u.ctx.pks[k], u.ctx)
    <2>1. y \in SummedShares(u) /\ y # Share(key, u.ctx)
      BY <1>2, <1>3 DEF Share
    <2>2. PICK j \in DOMAIN u.msgs2.msgs : u.msgs2.msgs[j] = y
      BY <2>1 DEF SummedShares, Shaped
    <2>3. j \in 1..(n - 1) /\ u.msgs2.msgs[j] \in B
      <3>1. DOMAIN u.msgs2.msgs = 1..(n - 1)
        BY DEF StoreOK, ExactStore
      <3>. QED
        BY <3>1, CompleteHasNoHoles DEF StoreOK
    <2>. QED
      BY <2>2, <2>3 DEF StoreOK, Came
  <1>. QED
    BY <1>2, <1>3 DEF SharesFrom

\* Round2 ends in a signature or, without one, in a panic.
LEMMA FromRound2OK ==
    ASSUME NEW n \in Nat \ {0}, NEW i \in 1..n, NEW key, NEW m, NEW B, None \notin B,
           NEW E, NEW S,
           NEW u, InstOK(u, i, n, key, m, B, E, S), u.round = "Round2",
           ~StoreWantsMore(u.msgs2)
    PROVE  /\ InstOK(FromRound2(u), i, n, key, m, B, E, S)
           /\ FromRound2(u).round \in {"Finished", "Gone"}
           /\ FromRound2(u).msgs1 = u.msgs1 /\ FromRound2(u).msgs2 = None
  <1> DEFINE t == FromRound2(u)
             valid == Verifies(SummedShares(u), u.ctx)
  <1>1. /\ Shaped(u, i, n, key, m)
        /\ Done(u, u.ctx, i, n, key, m, E, S)
        /\ u.msgs1 # None => StoreOK(u.msgs1, i, n, "Round1", B, E)
        /\ StoreOK(u.msgs2, i, n, "Round2", B, E) /\ ~WantsMore(u.msgs2)
    BY DEF InstOK, Progress, StoreWantsMore
  <1>2. /\ t = [f \in Fields |-> t[f]]
        /\ t.msgs_queue = u.msgs_queue
        /\ t.party_i = i /\ t.party_n = n /\ t.key = key /\ t.message = m
        /\ t.msgs1 = u.msgs1 /\ t.msgs2 = None /\ t.ctx = None
        /\ t.round = IF valid THEN "Finished" ELSE "Gone"
        /\ t.result = IF valid THEN [ctx |-> u.ctx, shares |-> SummedShares(u)] ELSE None
    BY <1>1 DEF FromRound2, Shaped, Fields
  <1>3. Shaped(t, i, n, key, m)
    BY <1>2 DEF Shaped, Rounds
  <1>4. Done(t, u.ctx, i, n, key, m, E, S)
    BY <1>1, <1>2 DEF Done
  <1>5. CASE valid
    <2>1. /\ SummedShares(u) = {Share(u.ctx.pks[k], u.ctx) : k \in 1..n}
          /\ SharesFrom(u.ctx, n, key, E)
      BY <1>1, <1>5, VerifiedCame DEF Done
    <2>2. /\ t.round = "Finished"
          /\ t.result = [ctx |-> u.ctx, shares |-> SummedShares(u)]
          /\ t.result.ctx = u.ctx
      BY <1>2, <1>5
    <2>3. Progress(t, i, n, key, m, E, S)
      BY <1>4, <2>1, <2>2 DEF Progress
    <2>. QED
      BY <1>1, <1>2, <1>3, <1>5, <2>3 DEF InstOK
  <1>6. CASE ~valid
    <2>1. Progress(t, i, n, key, m, E, S)
      BY <1>2, <1>4, <1>6 DEF Progress
    <2>. QED
      BY <1>1, <1>2, <1>3, <1>6, <2>1 DEF InstOK
  <1>. QED
    BY <1>5, <1>6

\* proceed_round, from wherever it starts.
LEMMA ProceedRoundOK ==
    ASSUME NEW n \in Nat \ {0}, NEW i \in 1..n, NEW key, NEW m, NEW B, None \notin B,
           NEW E, NEW S,
           NEW u, InstOK(u, i, n, key, m, B, E, S), NEW may_block
    PROVE  InstOK(ProceedRound(u, may_block), i, n, key, m, B, E, S)
  <1> DEFINE OK(v) == InstOK(v, i, n, key, m, B, E, S)
  <1>1. ASSUME NEW v, OK(v), v.round = "Round2"
        PROVE  OK(InRound2(v, may_block))
    BY <1>1, FromRound2OK DEF InRound2, Ready
  <1>2. ASSUME NEW v, OK(v), v.round = "Round1"
        PROVE  OK(InRound1(v, may_block))
    <2>1. CASE Ready("Round1", v.msgs1, may_block)
      <3>1. OK(FromRound1(v)) /\ FromRound1(v).round = "Round2"
        BY <1>2, <2>1, FromRound1OK DEF Ready
      <3>. QED
        BY <1>1, <2>1, <3>1 DEF InRound1
    <2>2. CASE ~Ready("Round1", v.msgs1, may_block)
      BY <1>2, <2>2 DEF InRound1
    <2>. QED
      BY <2>1, <2>2
  <1>3. ASSUME u.round = "Prepare" PROVE OK(InPrepare(u, may_block))
    <2>1. OK(FromPrepare(u)) /\ FromPrepare(u).round = "Round1"
      BY <1>3, FromPrepareOK
    <2>. QED
      BY <1>2, <2>1 DEF InPrepare, IsExpensive
  <1>. QED
    BY <1>1, <1>2, <1>3 DEF ProceedRound
-----------------------------------------------------------------------------
\* What is known of a message when it comes in.
Incoming(msg, B, E) ==
    /\ msg \in E /\ msg.body \in B
    /\ msg.body.kind \in {"Round1", "Round2"} /\ msg.sender \in Nat

\* A message goes to the slot of its sender.
LEMMA PushOK ==
    ASSUME NEW n \in Nat \ {0}, NEW i \in 1..n, NEW B, None \notin B, NEW E,
           NEW msg, Incoming(msg, B, E),
           NEW store, StoreOK(store, i, n, msg.body.kind, B, E)
    PROVE  StoreOK(PushMsg(store, msg), i, n, msg.body.kind, B, E)
  <1> DEFINE new == PushMsg(store, msg)
             j == PartyJ(i, msg.sender)
  <1>1. ExactStore(store, i, n, B)
    BY DEF StoreOK
  <1>2. ExactStore(new, i, n, B)
    BY <1>1, PushMsgExact DEF Incoming
  <1>3. CASE PushResult(store, msg) # "Ok"
    BY <1>3 DEF PushMsg
  <1>4. CASE PushResult(store, msg) = "Ok"
    <2>1. /\ msg.sender # i /\ msg.sender # 0 /\ j \in 1..(n - 1)
          /\ new.msgs = [store.msgs EXCEPT ![j] = msg.body]
      BY <1>1, <1>4, PushFillsOne
    <2>2. SlotParty(i, j) = msg.sender
      BY <2>1 DEF SlotParty, PartyJ, Incoming
    <2>3. DOMAIN store.msgs = 1..(n - 1)
      BY <1>1 DEF ExactStore
    <2>4. ASSUME NEW k \in 1..(n - 1), new.msgs[k] # None
          PROVE  Came(new.msgs[k], msg.body.kind, SlotParty(i, k), E)
      <3>1. CASE k = j
        BY <2>1, <2>2, <2>3, <3>1 DEF Came, Incoming
      <3>2. CASE k # j
        <4>1. new.msgs[k] = store.msgs[k]
          BY <2>1, <2>3, <3>2
        <4>. QED
          BY <2>4, <4>1 DEF StoreOK
      <3>. QED
        BY <3>1, <3>2
    <2>. QED
      BY <1>2, <2>4 DEF StoreOK
  <1>. QED
    BY <1>3, <1>4

\* The instance with an accepted message.
LEMMA WithMsgOK ==
    ASSUME NEW n \in Nat \ {0}, NEW i \in 1..n, NEW key, NEW m, NEW B,
           NoneIsNone(i, n, B), NEW E, NEW S,
           NEW u, InstOK(u, i, n, key, m, B, E, S),
           NEW msg, Incoming(msg, B, E), Accepts(u, msg)
    PROVE  InstOK(WithMsg(u, msg), i, n, key, m, B, E, S)
  <1> DEFINE t == WithMsg(u, msg)
             new == PushMsg(StoreFor(u, msg), msg)
  <1>1. Shaped(u, i, n, key, m) /\ None \notin B
    BY DEF InstOK, NoneIsNone
  <1>2. StoreFor(u, msg) # None /\ StoreOK(StoreFor(u, msg), i, n, msg.body.kind, B, E)
    BY DEF Accepts, StoreFor, InstOK, Incoming
  <1>3. StoreOK(new, i, n, msg.body.kind, B, E)
    BY <1>1, <1>2, PushOK
  <1>4. new # None
    BY <1>3, StoreNotNone DEF StoreOK
  <1>5. /\ t = [f \in Fields |-> t[f]]
        /\ t.round = u.round /\ t.msgs_queue = u.msgs_queue
        /\ t.party_i = i /\ t.party_n = n /\ t.key = key /\ t.message = m
        /\ t.msgs1 = IF msg.body.kind = "Round1" THEN new ELSE u.msgs1
        /\ t.msgs2 = IF msg.body.kind = "Round1" THEN u.msgs2 ELSE new
        /\ t.ctx = u.ctx /\ t.result = u.result
    BY <1>1 DEF WithMsg, StoreFor, Shaped, Fields
  <1>6. Shaped(t, i, n, key, m)
    BY <1>1, <1>5 DEF Shaped
  <1>7. Progress(t, i, n, key, m, E, S)
    BY <1>5 DEF InstOK, Progress, Done
  <1>8. CASE msg.body.kind = "Round1"
    BY <1>2, <1>3, <1>4, <1>5, <1>6, <1>7, <1>8 DEF InstOK, StoreFor
  <1>9. CASE msg.body.kind = "Round2"
    BY <1>2, <1>3, <1>4, <1>5, <1>6, <1>7, <1>9 DEF InstOK, StoreFor
  <1>. QED
    BY <1>8, <1>9 DEF Incoming

\* handle_incoming, with the panic of a wrong sum included.
LEMMA HandleIncomingOK ==
    ASSUME NEW n \in Nat \ {0}, NEW i \in 1..n, NEW key, NEW m, NEW B,
           NoneIsNone(i, n, B), NEW E, NEW S,
           NEW u, InstOK(u, i, n, key, m, B, E, S), NEW msg, Incoming(msg, B, E)
    PROVE  InstOK(HandleIncoming(u, msg), i, n, key, m, B, E, S)
  <1>1. CASE ~Accepts(u, msg)
    BY <1>1 DEF HandleIncoming
  <1>2. CASE Accepts(u, msg)
    <2>1. None \notin B
      BY DEF NoneIsNone
    <2>. QED
      BY <1>2, <2>1, WithMsgOK, ProceedRoundOK DEF HandleIncoming
  <1>. QED
    BY <1>1, <1>2

LEMMA TurnOK ==
    ASSUME NEW n \in Nat \ {0}, NEW i \in 1..n, NEW key, NEW m, NEW B,
           NoneIsNone(i, n, B), NEW E, NEW S,
           NEW u, InstOK(u, i, n, key, m, B, E, S), NEW msg, Incoming(msg, B, E)
    PROVE  InstOK(Turn(u, msg), i, n, key, m, B, E, S)
  <1>1. None \notin B
    BY DEF NoneIsNone
  <1>. QED
    BY <1>1, HandleIncomingOK, ProceedRoundOK DEF Turn, Proceed

\* Once the queue is sent it can be emptied: what was in it has left.
LEMMA DrainOK ==
    ASSUME NEW n, NEW i, NEW key, NEW m, NEW B, NEW E, NEW S,
           NEW u, InstOK(u, i, n, key, m, B, E, S)
    PROVE  InstOK([u EXCEPT !.msgs_queue = << >>], i, n, key, m, B, E,
                  S \cup {u.msgs_queue[q] : q \in DOMAIN u.msgs_queue})
  <1> DEFINE t == [u EXCEPT !.msgs_queue = << >>]
             S2 == S \cup {u.msgs_queue[q] : q \in DOMAIN u.msgs_queue}
  <1>1. /\ t = [f \in Fields |-> t[f]]
        /\ t.round = u.round /\ t.msgs_queue = << >>
        /\ t.party_i = i /\ t.party_n = n /\ t.key = key /\ t.message = m
        /\ t.msgs1 = u.msgs1 /\ t.msgs2 = u.msgs2
        /\ t.ctx = u.ctx /\ t.result = u.result
    BY DEF InstOK, Shaped, Fields
  <1>2. Shaped(t, i, n, key, m)
    BY <1>1 DEF InstOK, Shaped
  <1>3. ASSUME NEW x, OneOut(S, u.msgs_queue, x) PROVE OneOut(S2, << >>, x)
    <2>1. {<< x >>[q] : q \in DOMAIN << x >>} = {x}
      OBVIOUS
    <2>. QED
      BY <1>3, <2>1 DEF OneOut
  <1>4. ASSUME NEW x, NEW y, BothOut(S, u.msgs_queue, x, y)
        PROVE  BothOut(S2, << >>, x, y)
    <2>1. /\ {<< x, y >>[q] : q \in DOMAIN << x, y >>} = {x, y}
          /\ {<< y >>[q] : q \in DOMAIN << y >>} = {y}
      OBVIOUS
    <2>. QED
      BY <1>4, <2>1 DEF BothOut
  <1>5. \A c : Done(u, c, i, n, key, m, E, S) => Done(t, c, i, n, key, m, E, S2)
    BY <1>1, <1>4 DEF Done
  <1>6. S = {} /\ u.msgs_queue = << >> => S2 = {}
    OBVIOUS
  <1>7. Progress(u, i, n, key, m, E, S)
    BY DEF InstOK
  <1>8. Progress(t, i, n, key, m, E, S2)
    <2> HIDE DEF S2, t
    <2>1. u.round = "Prepare" => S2 = {}
      BY <1>6, <1>7 DEF Progress
    <2>2. u.round = "Round1" => OneOut(S2, t.msgs_queue, Nonces(i, key, m))
      BY <1>1, <1>3, <1>7 DEF Progress
    <2>3. u.round = "Round2" => Done(t, t.ctx, i, n, key, m, E, S2)
      BY <1>1, <1>5, <1>7 DEF Progress
    <2>4. u.round = "Finished" => Done(t, t.result.ctx, i, n, key, m, E, S2)
      BY <1>1, <1>5, <1>7 DEF Progress
    <2>5. u.round = "Gone" => \E c : Done(t, c, i, n, key, m, E, S2)
      BY <1>5, <1>7 DEF Progress
    <2>. QED
      BY <1>1, <1>7, <2>1, <2>2, <2>3, <2>4, <2>5 DEF Progress
  <1>. QED
    BY <1>1, <1>2, <1>8 DEF InstOK

\* pick_output of a finished instance leaves nothing to go wrong.
LEMMA PickOutputOK ==
    ASSUME NEW n, NEW i, NEW key, NEW m, NEW B, NEW E, NEW S,
           NEW u, InstOK(u, i, n, key, m, B, E, S), u.round = "Finished"
    PROVE  InstOK(PickOutput(u), i, n, key, m, B, E, S)
  <1> DEFINE t == PickOutput(u)
  <1>1. /\ t = [f \in Fields |-> t[f]]
        /\ t.round = "Gone" /\ t.msgs_queue = u.msgs_queue
        /\ t.party_i = i /\ t.party_n = n /\ t.key = key /\ t.message = m
        /\ t.msgs1 = u.msgs1 /\ t.msgs2 = u.msgs2
        /\ t.ctx = u.ctx /\ t.result = None
    BY DEF PickOutput, InstOK, Shaped, Fields
  <1>2. Shaped(t, i, n, key, m)
    BY <1>1 DEF InstOK, Shaped, Rounds
  <1>3. Done(t, u.result.ctx, i, n, key, m, E, S)
    BY <1>1 DEF InstOK, Progress, Done
  <1>4. Progress(t, i, n, key, m, E, S)
    BY <1>1, <1>3 DEF Progress
  <1>. QED
    BY <1>1, <1>2, <1>4 DEF InstOK
-----------------------------------------------------------------------------
(* Whom an instance has heard.                                             *)
StoreOfKind(u, kind) == IF kind = "Round1" THEN u.msgs1 ELSE u.msgs2

\* The message of that round of party p is in: a store that is gone was full.
Heard(u, kind, p) ==
    \/ StoreOfKind(u, kind) = None
    \/ StoreOfKind(u, kind).msgs[PartyJ(u.party_i, p)] # None

\* A round that is over has heard everybody: proceeding changes nothing here.
LEMMA ProceedHears ==
    ASSUME NEW n \in Nat \ {0}, NEW i \in 1..n, NEW key, NEW m, NEW B, None \notin B,
           NEW E, NEW S, NEW u, InstOK(u, i, n, key, m, B, E, S), NEW may_block,
           NEW kind, NEW p \in (1..n) \ {i}
    PROVE  Heard(ProceedRound(u, may_block), kind, p) <=> Heard(u, kind, p)
  <1> DEFINE OK(v) == InstOK(v, i, n, key, m, B, E, S)
             Same(v, w) == Heard(v, kind, p) <=> Heard(w, kind, p)
  <1>1. ASSUME NEW v, OK(v), v.round = "Round2", ~StoreWantsMore(v.msgs2)
        PROVE  Same(FromRound2(v), v)
    <2>1. /\ FromRound2(v).msgs1 = v.msgs1 /\ FromRound2(v).msgs2 = None
          /\ FromRound2(v).party_i = i /\ v.party_i = i
      BY <1>1, FromRound2OK DEF InstOK, Shaped
    <2>2. /\ v.msgs2 # None /\ StoreOK(v.msgs2, i, n, "Round2", B, E)
          /\ ~WantsMore(v.msgs2)
      BY <1>1 DEF InstOK, StoreWantsMore
    <2>3. v.msgs2.msgs[PartyJ(i, p)] # None
      <3>1. PartyJ(i, p) \in 1..(n - 1)
        BY SlotOfParty
      <3>2. v.msgs2.msgs[PartyJ(i, p)] \in B
        BY <2>2, <3>1, CompleteHasNoHoles DEF StoreOK
      <3>. QED
        BY <3>2
    <2>4. CASE kind = "Round1"
      BY <2>1, <2>4 DEF Heard, StoreOfKind
    <2>5. CASE kind # "Round1"
      BY <2>1, <2>3, <2>5 DEF Heard, StoreOfKind
    <2>. QED
      BY <2>4, <2>5
  <1>2. ASSUME NEW v, OK(v), v.round = "Round1", ~StoreWantsMore(v.msgs1)
        PROVE  Same(FromRound1(v), v)
    <2>1. /\ FromRound1(v).msgs1 = None /\ FromRound1(v).msgs2 = v.msgs2
          /\ FromRound1(v).party_i = i /\ v.party_i = i
      BY <1>2, FromRound1OK DEF InstOK, Shaped
    <2>2. /\ v.msgs1 # None /\ StoreOK(v.msgs1, i, n, "Round1", B, E)
          /\ ~WantsMore(v.msgs1)
      BY <1>2 DEF InstOK, StoreWantsMore
    <2>3. v.msgs1.msgs[PartyJ(i, p)] # None
      <3>1. PartyJ(i, p) \in 1..(n - 1)
        BY SlotOfParty
      <3>2. v.msgs1.msgs[PartyJ(i, p)] \in B
        BY <2>2, <3>1, CompleteHasNoHoles DEF StoreOK
      <3>. QED
        BY <3>2
    <2>4. CASE kind = "Round1"
      BY <2>1, <2>3, <2>4 DEF Heard, StoreOfKind
    <2>5. CASE kind # "Round1"
      BY <2>1, <2>5 DEF Heard, StoreOfKind
    <2>. QED
      BY <2>4, <2>5
  <1>3. ASSUME NEW v, OK(v), v.round = "Round2" PROVE Same(InRound2(v, may_block), v)
    BY <1>1, <1>3 DEF InRound2, Ready
  <1>4. ASSUME NEW v, OK(v), v.round = "Round1" PROVE Same(InRound1(v, may_block), v)
    <2>1. CASE Ready("Round1", v.msgs1, may_block)
      <3>1. OK(FromRound1(v)) /\ FromRound1(v).round = "Round2"
        BY <1>4, <2>1, FromRound1OK DEF Ready
      <3>2. Same(InRound2(FromRound1(v), may_block), FromRound1(v))
        BY <1>3, <3>1
      <3>3. Same(FromRound1(v), v)
        BY <1>2, <1>4, <2>1 DEF Ready
      <3>. QED
        BY <2>1, <3>2, <3>3 DEF InRound1
    <2>2. CASE ~Ready("Round1", v.msgs1, may_block)
      BY <2>2 DEF InRound1
    <2>. QED
      BY <2>1, <2>2
  <1>5. ASSUME u.round = "Prepare" PROVE Same(InPrepare(u, may_block), u)
    <2> DEFINE v == FromPrepare(u)
    <2>1. /\ OK(v) /\ v.round = "Round1"
          /\ v.msgs1 = u.msgs1 /\ v.msgs2 = u.msgs2
          /\ v.party_i = i /\ u.party_i = i
      <3>1. /\ OK(v) /\ v.round = "Round1"
            /\ v.msgs1 = u.msgs1 /\ v.msgs2 = u.msgs2
        BY <1>5, FromPrepareOK
      <3>. QED
        BY <3>1 DEF InstOK, Shaped
    <2>2. Same(v, u)
      BY <2>1 DEF Heard, StoreOfKind
    <2>3. Same(InRound1(v, may_block), v)
      BY <1>4, <2>1
    <2>. QED
      BY <2>2, <2>3 DEF InPrepare, IsExpensive
  <1>. QED
    BY <1>3, <1>4, <1>5 DEF ProceedRound

\* handle_incoming hears the sender, and nobody else.
LEMMA HandleIncomingHears ==
    ASSUME NEW n \in Nat \ {0}, NEW i \in 1..n, NEW key, NEW m, NEW B,
           NoneIsNone(i, n, B), NEW E, NEW S,
           NEW u, InstOK(u, i, n, key, m, B, E, S), NEW msg, Incoming(msg, B, E),
           msg.sender \in (1..n) \ {i}, msg.receiver = None,
           NEW kind \in {"Round1", "Round2"}, NEW p \in (1..n) \ {i}
    PROVE  Heard(HandleIncoming(u, msg), kind, p) <=>
             Heard(u, kind, p) \/ (kind = msg.body.kind /\ p = msg.sender)
  <1> DEFINE j == PartyJ(i, msg.sender)
             store == StoreFor(u, msg)
             t == WithMsg(u, msg)
  <1>1. /\ Shaped(u, i, n, key, m) /\ None \notin B /\ u.party_i = i
        /\ store = StoreOfKind(u, msg.body.kind)
        /\ store # None => ExactStore(store, i, n, B)
        /\ j \in 1..(n - 1) /\ PartyJ(i, p) \in 1..(n - 1)
        /\ PartyJ(i, p) = j <=> p = msg.sender
    <2>1. /\ Shaped(u, i, n, key, m) /\ None \notin B /\ u.party_i = i
          /\ store = StoreOfKind(u, msg.body.kind)
          /\ store # None => ExactStore(store, i, n, B)
      BY DEF InstOK, Shaped, NoneIsNone, StoreOK, StoreFor, StoreOfKind, Incoming
    <2>2. /\ j \in 1..(n - 1) /\ PartyJ(i, p) \in 1..(n - 1)
          /\ PartyJ(i, p) = j => p = msg.sender
      BY SlotOfParty
    <2>. QED
      BY <2>1, <2>2
  <1>2. CASE ~Accepts(u, msg)
    <2>1. HandleIncoming(u, msg) = u
      BY <1>2 DEF HandleIncoming
    <2>2. store = None \/ store.msgs[j] # None
      <3>1. CASE store # None
        <4>1. store.party_i = i /\ DOMAIN store.msgs = 1..(n - 1)
          BY <1>1, <3>1 DEF ExactStore
        <4>. QED
          BY <1>1, <1>2, <3>1, <4>1 DEF Accepts, PushResult
      <3>. QED
        BY <3>1
    <2>3. Heard(u, msg.body.kind, msg.sender)
      BY <1>1, <2>2 DEF Heard
    <2>. QED
      BY <2>1, <2>3
  <1>3. CASE Accepts(u, msg)
    <2>1. InstOK(t, i, n, key, m, B, E, S)
      BY <1>3, WithMsgOK
    <2>2. Heard(HandleIncoming(u, msg), kind, p) <=> Heard(t, kind, p)
      BY <1>1, <1>3, <2>1, ProceedHears DEF HandleIncoming
    <2>3. store # None /\ PushMsg(store, msg).msgs = [store.msgs EXCEPT ![j] = msg.body]
      BY <1>1, <1>3, PushFillsOne DEF Accepts
    <2>4. /\ t.party_i = i
          /\ t.msgs1 = IF msg.body.kind = "Round1" THEN PushMsg(store, msg) ELSE u.msgs1
          /\ t.msgs2 = IF msg.body.kind = "Round1" THEN u.msgs2 ELSE PushMsg(store, msg)
      BY <1>1 DEF WithMsg, StoreFor, Shaped, Fields
    <2>5. CASE kind # msg.body.kind
      <3>1. StoreOfKind(t, kind) = StoreOfKind(u, kind)
        BY <2>4, <2>5 DEF StoreOfKind, Incoming
      <3>. QED
        BY <1>1, <2>2, <2>4, <2>5, <3>1 DEF Heard
    <2>6. CASE kind = msg.body.kind
      <3>1. StoreOfKind(t, kind) = PushMsg(store, msg) /\ StoreOfKind(u, kind) = store
        BY <1>1, <2>4, <2>6 DEF StoreOfKind, Incoming
      <3>2. PushMsg(store, msg) # None
        <4>1. StoreOfKind(t, kind) # None
          <5>1. /\ u.msgs1 # None <=> t.msgs1 # None
                /\ u.msgs2 # None <=> t.msgs2 # None
            <6>1. t.round = u.round
              BY <1>1 DEF WithMsg, Shaped, Fields
            <6>. QED
              BY <2>1, <6>1 DEF InstOK
          <5>. QED
            BY <2>3, <3>1, <5>1 DEF StoreOfKind
        <4>. QED
          BY <3>1, <4>1
      <3>3. DOMAIN store.msgs = 1..(n - 1) /\ msg.body # None
        BY <1>1, <2>3 DEF ExactStore, Incoming
      <3>4. PushMsg(store, msg).msgs[PartyJ(i, p)] # None <=>
              store.msgs[PartyJ(i, p)] # None \/ p = msg.sender
        BY <1>1, <2>3, <3>3
      <3>. QED
        BY <1>1, <2>2, <2>3, <2>4, <2>6, <3>1, <3>2, <3>4 DEF Heard
    <2>. QED
      BY <2>5, <2>6
  <1>. QED
    BY <1>2, <1>3

LEMMA TurnHears ==
    ASSUME NEW n \in Nat \ {0}, NEW i \in 1..n, NEW key, NEW m, NEW B,
           NoneIsNone(i, n, B), NEW E, NEW S,
           NEW u, InstOK(u, i, n, key, m, B, E, S), NEW msg, Incoming(msg, B, E),
           msg.sender \in (1..n) \ {i}, msg.receiver = None,
           NEW kind \in {"Round1", "Round2"}, NEW p \in (1..n) \ {i}
    PROVE  Heard(Turn(u, msg), kind, p) <=>
             Heard(u, kind, p) \/ (kind = msg.body.kind /\ p = msg.sender)
  <1>1. None \notin B
    BY DEF NoneIsNone
  <1>2. InstOK(HandleIncoming(u, msg), i, n, key, m, B, E, S)
    BY HandleIncomingOK
  <1>3. Heard(Turn(u, msg), kind, p) <=> Heard(HandleIncoming(u, msg), kind, p)
    BY <1>1, <1>2, ProceedHears DEF Turn, Proceed
  <1>. QED
    BY <1>3, HandleIncomingHears
-----------------------------------------------------------------------------
\* An instance that has to wait or is finished.
Settled(u) == u.round \in {"Round1", "Round2", "Finished"} /\ ~WantsToProceed(u)

\* proceed_round goes as far as it can.
LEMMA ProceedSettles ==
    ASSUME NEW n \in Nat \ {0}, NEW i \in 1..n, NEW key, NEW m, NEW B, None \notin B,
           NEW E, NEW S, NEW u, InstOK(u, i, n, key, m, B, E, S), NEW may_block,
           ~Panicked(ProceedRound(u, may_block))
    PROVE  Settled(ProceedRound(u, may_block))
  <1> DEFINE OK(v) == InstOK(v, i, n, key, m, B, E, S)
             Good(v) == ~Panicked(v) => Settled(v)
  <1>1. ASSUME NEW v, OK(v), v.round = "Round2" PROVE Good(InRound2(v, may_block))
    BY <1>1, FromRound2OK
       DEF InRound2, Ready, IsExpensive, Panicked, Settled, WantsToProceed
  <1>2. ASSUME NEW v, OK(v), v.round = "Round1" PROVE Good(InRound1(v, may_block))
    <2>1. CASE Ready("Round1", v.msgs1, may_block)
      <3>1. OK(FromRound1(v)) /\ FromRound1(v).round = "Round2"
        BY <1>2, <2>1, FromRound1OK DEF Ready
      <3>. QED
        BY <1>1, <2>1, <3>1 DEF InRound1
    <2>2. CASE ~Ready("Round1", v.msgs1, may_block)
      BY <1>2, <2>2 DEF InRound1, Ready, IsExpensive, Settled, WantsToProceed
    <2>. QED
      BY <2>1, <2>2
  <1>3. ASSUME u.round = "Prepare" PROVE Good(InPrepare(u, may_block))
    <2>1. OK(FromPrepare(u)) /\ FromPrepare(u).round = "Round1"
      BY <1>3, FromPrepareOK
    <2>. QED
      BY <1>2, <2>1 DEF InPrepare, IsExpensive
  <1>4. ASSUME u.round = "Finished" PROVE Settled(u)
    BY <1>4 DEF Settled, WantsToProceed
  <1>. QED
    BY <1>1, <1>2, <1>3, <1>4 DEF ProceedRound, InstOK, Shaped, Rounds, Panicked

\* So does a turn of the executor.
LEMMA HandleIncomingSettles ==
    ASSUME NEW n \in Nat \ {0}, NEW i \in 1..n, NEW key, NEW m, NEW B,
           NoneIsNone(i, n, B), NEW E, NEW S,
           NEW u, InstOK(u, i, n, key, m, B, E, S), NEW msg, Incoming(msg, B, E),
           Settled(u), ~Panicked(HandleIncoming(u, msg))
    PROVE  Settled(HandleIncoming(u, msg))
  <1>1. CASE ~Accepts(u, msg)
    BY <1>1 DEF HandleIncoming
  <1>2. CASE Accepts(u, msg)
    <2>1. None \notin B
      BY DEF NoneIsNone
    <2>2. InstOK(WithMsg(u, msg), i, n, key, m, B, E, S)
      BY <1>2, WithMsgOK
    <2>3. HandleIncoming(u, msg) = ProceedRound(WithMsg(u, msg), FALSE)
      BY <1>2 DEF HandleIncoming
    <2>. QED
      BY <2>1, <2>2, <2>3, ProceedSettles
  <1>. QED
    BY <1>1, <1>2

\* From a settled state a turn is handle_incoming alone.
LEMMA TurnIsHandleIncoming ==
    ASSUME NEW n \in Nat \ {0}, NEW i \in 1..n, NEW key, NEW m, NEW B,
           NoneIsNone(i, n, B), NEW E, NEW S,
           NEW u, InstOK(u, i, n, key, m, B, E, S), NEW msg, Incoming(msg, B, E),
           Settled(u)
    PROVE  Turn(u, msg) = HandleIncoming(u, msg)
  <1> DEFINE h == HandleIncoming(u, msg)
  <1>1. ~WantsToProceed(h)
    <2>1. CASE Panicked(h)
      BY <2>1 DEF Panicked, WantsToProceed
    <2>2. CASE ~Panicked(h)
      BY <2>2, HandleIncomingSettles DEF Settled
    <2>. QED
      BY <2>1, <2>2
  <1>. QED
    BY <1>1 DEF Turn
-----------------------------------------------------------------------------
\* The shares that have come are all of one context, that of the keys that came.
SharesAgree(i, n, key, m, E) ==
    \A c : KeysFrom(c, i, n, key, m, E) =>
      \A body, p : Came(body, "Round2", p, E) /\ p \in (1..n) \ {i} =>
        body = Share(c.pks[p], c)

\* Then their sum verifies.
LEMMA AgreementVerifies ==
    ASSUME NEW n \in Nat \ {0}, NEW i \in 1..n, NEW key, NEW m, NEW B, None \notin B,
           NEW E, NEW u, Shaped(u, i, n, key, m),
           StoreOK(u.msgs2, i, n, "Round2", B, E), ~WantsMore(u.msgs2),
           KeysFrom(u.ctx, i, n, key, m, E), SharesAgree(i, n, key, m, E)
    PROVE  Verifies(SummedShares(u), u.ctx)
  <1> DEFINE c == u.ctx
             slots == u.msgs2.msgs
  <1>1. DOMAIN c.pks = 1..n /\ c.pks[i] = key /\ DOMAIN slots = 1..(n - 1)
    BY DEF KeysFrom, StoreOK, ExactStore
  <1>2. ASSUME NEW k \in 1..(n - 1)
        PROVE  \E p \in 1..n : slots[k] = Share(c.pks[p], c)
    <2>1. SlotParty(i, k) \in (1..n) \ {i}
      BY PartyOfSlot
    <2>2. slots[k] # None
      BY CompleteHasNoHoles DEF StoreOK
    <2>3. Came(slots[k], "Round2", SlotParty(i, k), E)
      BY <2>2 DEF StoreOK
    <2>. QED
      BY <2>1, <2>3 DEF SharesAgree
  <1>3. ASSUME NEW p \in 1..n
        PROVE  Share(c.pks[p], c) \in SummedShares(u)
    <2>1. CASE p = i
      BY <1>1, <2>1 DEF SummedShares, Shaped
    <2>2. CASE p # i
      <3>1. /\ PartyJ(i, p) \in 1..(n - 1)
            /\ Came(slots[PartyJ(i, p)], "Round2", p, E)
        BY <2>2, CompleteCame
      <3>2. slots[PartyJ(i, p)] = Share(c.pks[p], c)
        BY <2>2, <3>1 DEF SharesAgree
      <3>. QED
        BY <1>1, <3>1, <3>2 DEF SummedShares
    <2>. QED
      BY <2>1, <2>2
  <1>4. ASSUME NEW y \in SummedShares(u)
        PROVE  y \in {Share(c.pks[p], c) : p \in DOMAIN c.pks}
    <2>1. CASE y = Share(key, c)
      BY <1>1, <2>1
    <2>2. CASE y # Share(key, c)
      <3>1. PICK k \in 1..(n - 1) : y = slots[k]
        BY <1>1, <2>2 DEF SummedShares, Shaped
      <3>. QED
        BY <1>1, <1>2, <3>1
    <2>. QED
      BY <2>1, <2>2
  <1>. QED
    BY <1>1, <1>3, <1>4 DEF Verifies

LEMMA AgreementNoPanic ==
    ASSUME NEW n \in Nat \ {0}, NEW i \in 1..n, NEW key, NEW m, NEW B, None \notin B,
           NEW E, NEW S, NEW u, InstOK(u, i, n, key, m, B, E, S),
           SharesAgree(i, n, key, m, E), ~Panicked(u), NEW may_block
    PROVE  ~Panicked(ProceedRound(u, may_block))
  <1> DEFINE OK(v) == InstOK(v, i, n, key, m, B, E, S)
  <1>1. ASSUME NEW v, OK(v), v.round = "Round2" PROVE ~Panicked(InRound2(v, may_block))
    <2>1. CASE Ready("Round2", v.msgs2, may_block)
      <3>1. /\ Shaped(v, i, n, key, m)
            /\ StoreOK(v.msgs2, i, n, "Round2", B, E) /\ ~WantsMore(v.msgs2)
            /\ KeysFrom(v.ctx, i, n, key, m, E)
        BY <1>1, <2>1 DEF InstOK, Ready, StoreWantsMore, Progress, Done
      <3>2. Verifies(SummedShares(v), v.ctx)
        BY <3>1, AgreementVerifies
      <3>3. FromRound2(v).round = "Finished"
        BY <3>1, <3>2 DEF FromRound2, Shaped, Fields
      <3>. QED
        BY <2>1, <3>3 DEF InRound2, Panicked
    <2>2. CASE ~Ready("Round2", v.msgs2, may_block)
      BY <1>1, <2>2 DEF InRound2, Panicked
    <2>. QED
      BY <2>1, <2>2
  <1>2. ASSUME NEW v, OK(v), v.round = "Round1" PROVE ~Panicked(InRound1(v, may_block))
    <2>1. CASE Ready("Round1", v.msgs1, may_block)
      <3>1. OK(FromRound1(v)) /\ FromRound1(v).round = "Round2"
        BY <1>2, <2>1, FromRound1OK DEF Ready
      <3>. QED
        BY <1>1, <2>1, <3>1 DEF InRound1
    <2>2. CASE ~Ready("Round1", v.msgs1, may_block)
      BY <1>2, <2>2 DEF InRound1, Panicked
    <2>. QED
      BY <2>1, <2>2
  <1>3. ASSUME u.round = "Prepare" PROVE ~Panicked(InPrepare(u, may_block))
    <2>1. OK(FromPrepare(u)) /\ FromPrepare(u).round = "Round1"
      BY <1>3, FromPrepareOK
    <2>. QED
      BY <1>2, <2>1 DEF InPrepare, IsExpensive
  <1>. QED
    BY <1>1, <1>2, <1>3 DEF ProceedRound

\* Nor does a turn of the executor panic.
LEMMA NoPanicTurn ==
    ASSUME NEW n \in Nat \ {0}, NEW i \in 1..n, NEW key, NEW m, NEW B,
           NoneIsNone(i, n, B), NEW E, NEW S,
           NEW u, InstOK(u, i, n, key, m, B, E, S), NEW msg, Incoming(msg, B, E),
           SharesAgree(i, n, key, m, E), ~Panicked(u)
    PROVE  ~Panicked(Turn(u, msg))
  <1> DEFINE h == HandleIncoming(u, msg)
  <1>1. None \notin B
    BY DEF NoneIsNone
  <1>2. InstOK(h, i, n, key, m, B, E, S)
    BY HandleIncomingOK
  <1>3. ~Panicked(h)
    <2>1. CASE ~Accepts(u, msg)
      BY <2>1 DEF HandleIncoming
    <2>2. CASE Accepts(u, msg)
      <3>1. InstOK(WithMsg(u, msg), i, n, key, m, B, E, S)
        BY <2>2, WithMsgOK
      <3>2. WithMsg(u, msg).round = u.round
        <4>1. u = [f \in Fields |-> u[f]]
          BY DEF InstOK, Shaped
        <4>. QED
          BY <4>1 DEF WithMsg, Fields
      <3>3. ~Panicked(WithMsg(u, msg))
        BY <3>2 DEF Panicked
      <3>4. ~Panicked(ProceedRound(WithMsg(u, msg), FALSE))
        BY <1>1, <3>1, <3>3, AgreementNoPanic
      <3>. QED
        BY <2>2, <3>4 DEF HandleIncoming
    <2>. QED
      BY <2>1, <2>2
  <1> HIDE DEF h
  <1>4. ~Panicked(ProceedRound(h, TRUE))
    BY <1>1, <1>2, <1>3, AgreementNoPanic
  <1>. QED
    BY <1>3, <1>4 DEF Turn, Proceed, h
-----------------------------------------------------------------------------
\* A timeout blames those not heard.
LEMMA BlamesUnheard ==
    ASSUME NEW n \in Nat \ {0}, NEW i \in 1..n, NEW key, NEW m, NEW B, NEW E, NEW S,
           NEW u, InstOK(u, i, n, key, m, B, E, S), u.round = "Round2"
    PROVE  TimeoutBlame(u) = {p \in (1..n) \ {i} : ~Heard(u, "Round2", p)}
  <1> DEFINE slots == u.msgs2.msgs
  <1>1. /\ u.msgs2 # None /\ u.msgs2.party_i = i /\ u.party_i = i
        /\ DOMAIN slots = 1..(n - 1)
    BY DEF InstOK, Shaped, StoreOK, ExactStore
  <1>2. TimeoutBlame(u) = {SlotParty(i, k) : k \in {x \in 1..(n - 1) : slots[x] = None}}
    BY <1>1 DEF TimeoutBlame, Blame
  <1>3. ASSUME NEW k \in 1..(n - 1)
        PROVE  SlotParty(i, k) \in (1..n) \ {i} /\ PartyJ(i, SlotParty(i, k)) = k
    BY PartyOfSlot
  <1>4. ASSUME NEW p \in (1..n) \ {i}
        PROVE  PartyJ(i, p) \in 1..(n - 1) /\ SlotParty(i, PartyJ(i, p)) = p
    BY SlotOfParty
  <1>5. TimeoutBlame(u) = {p \in (1..n) \ {i} : slots[PartyJ(i, p)] = None}
    BY <1>2, <1>3, <1>4
  <1>6. \A p : ~Heard(u, "Round2", p) <=> slots[PartyJ(i, p)] = None
    BY <1>1 DEF Heard, StoreOfKind
  <1>. QED
    BY <1>5, <1>6
=============================================================================
