------------------------- MODULE StoreMachineProofs -------------------------
(***************************************************************************)
(* The message store is right for every number of parties, every owner and *)
(* every set of bodies: the properties MCStoreMachine checks for four      *)
(* parties and two bodies, as theorems.                                    *)
(***************************************************************************)
EXTENDS StoreMachine, InstanceLemmas

\* What makes the properties inductive: the counter is exact, and what finish
\* handed out is the complete store.
IInv ==
    /\ store.party_i \in 1..N
    /\ ExactStore(store, store.party_i, N, Body)
    /\ consumed \in BOOLEAN
    /\ received # None => ~WantsMore(store) /\ consumed
    /\ received \in {None, Finish(store)}
    /\ reply \in    ({"new"} \X {TRUE})
               \cup ({"push_msg"} \X PushReplies)
               \cup ({"contains_msg_from"} \X BOOLEAN)
               \cup ({"blame"} \X SUBSET (1..N))
               \cup ({"finish"} \X {"Ok", "WantsMoreMessages"})

LEMMA InitIInv == Init => IInv
  <1> SUFFICES ASSUME Init PROVE IInv
    OBVIOUS
  <1>1. PICK i \in 1..N : store = NewStore(i, N)
    BY DEF Init
  <1>2. store.party_i = i
    BY <1>1 DEF NewStore
  <1>3. ExactStore(store, i, N, Body)
    BY <1>1, NewStoreExact, NAssumption
  <1>. QED
    BY <1>2, <1>3 DEF Init, IInv

LEMMA NextIInv == IInv /\ [Next]_smvars => IInv'
  <1> SUFFICES ASSUME IInv, [Next]_smvars PROVE IInv'
    OBVIOUS
  <1> USE NAssumption, BodyAssumption
  <1>1. ASSUME NEW m \in Arriving, Push(m) PROVE IInv'
    <2>1. store' = PushMsg(store, m) /\ ~consumed /\ UNCHANGED <<consumed, received>>
      BY <1>1 DEF Push
    <2>2. ExactStore(store', store.party_i, N, Body)
      BY <2>1, PushMsgExact DEF IInv, Arriving
    <2>3. store'.party_i = store.party_i
      BY <2>2 DEF ExactStore
    <2>4. received = None
      BY <2>1 DEF IInv
    <2>5. reply' \in {"push_msg"} \X PushReplies
      BY <1>1 DEF Push, PushResult, PushReplies
    <2>. QED
      BY <2>1, <2>2, <2>3, <2>4, <2>5 DEF IInv
  <1>2. ASSUME NEW sender \in 1..(N + 1), Contains(sender) PROVE IInv'
    <2>1. reply' \in {"contains_msg_from"} \X BOOLEAN
      BY <1>2 DEF Contains, ContainsMsgFrom
    <2>. QED
      BY <1>2, <2>1 DEF IInv, Contains
  <1>3. CASE BlameOthers
    <2>1. Blame(store).guilty \subseteq 1..N
      BY BlameCounts DEF IInv
    <2>2. reply' \in {"blame"} \X SUBSET (1..N)
      BY <1>3, <2>1 DEF BlameOthers
    <2>. QED
      BY <1>3, <2>2 DEF IInv, BlameOthers
  <1>4. CASE Consume
    <2>1. reply' \in {"finish"} \X {"Ok", "WantsMoreMessages"}
      BY <1>4 DEF Consume, FinishResult
    <2>2. received' \in {None, Finish(store')} /\ (received' # None => ~WantsMore(store'))
      BY <1>4 DEF Consume
    <2>. QED
      BY <1>4, <2>1, <2>2 DEF IInv, Consume
  <1>5. CASE UNCHANGED smvars
    BY <1>5 DEF IInv, smvars
  <1>. QED
    BY <1>1, <1>2, <1>3, <1>4, <1>5 DEF Next

LEMMA Inductive == Spec => []IInv
  BY InitIInv, NextIInv, PTL DEF Spec

LEMMA IInvStore ==
    ASSUME IInv
    PROVE  /\ store.party_i \in 1..N
           /\ store.msgs \in [Slots -> Body \cup {None}]
           /\ store = [ party_i |-> store.party_i, msgs |-> store.msgs,
                        msgs_left |-> store.msgs_left ]
           /\ store.msgs_left = Cardinality({k \in Slots : store.msgs[k] = None})
  <1>1. {k \in Slots : store.msgs[k] = None} = EmptySlots(store)
    BY DEF IInv, ExactStore, EmptySlots, Slots
  <1>. QED
    BY <1>1 DEF IInv, ExactStore, Slots

LEMMA IInvType == IInv => TypeOK
  <1> SUFFICES ASSUME IInv PROVE TypeOK
    OBVIOUS
  <1>1. store.msgs_left \in 0..(N - 1)
    BY CountBounded, NAssumption DEF IInv
  <1>2. store \in [ party_i : 1..N, msgs : [Slots -> Body \cup {None}],
                    msgs_left : 0..(N - 1) ]
    BY <1>1, IInvStore
  <1>3. Finish(store) \in [my_ind : 1..N, msgs : [Slots -> Body \cup {None}]]
    BY IInvStore DEF Finish
  <1>. QED
    BY <1>2, <1>3 DEF IInv, TypeOK

\* The struct and the results keep their types under every call.
THEOREM TypeCorrect == Spec => []TypeOK
  BY Inductive, IInvType, PTL

\* The counter wants_more reads is the number of empty slots, however many
\* messages came and were refused.
THEOREM CounterExact == Spec => []CountExact
  <1>1. IInv => CountExact
    BY IInvStore DEF CountExact
  <1>. QED
    BY <1>1, Inductive, PTL

\* finish() never unwraps a None.
THEOREM NoHoleHandedOut == Spec => []NoHoles
  <1>1. IInv => NoHoles
    <2> SUFFICES ASSUME IInv, received # None, NEW k \in Slots
                 PROVE  received.msgs[k] # None
      BY DEF NoHoles
    <2>1. received.msgs = store.msgs /\ ~WantsMore(store)
      BY DEF IInv, Finish
    <2>2. store.msgs[k] \in Body
      BY <2>1, NAssumption, CompleteHasNoHoles DEF IInv, Slots
    <2>. QED
      BY <2>1, <2>2, BodyAssumption
  <1>. QED
    BY <1>1, Inductive, PTL

\* blame() counts whom it names, and never names the party itself.
THEOREM BlameIsExact == Spec => []BlameExact
  <1>1. IInv => BlameExact
    BY BlameCounts, NAssumption DEF IInv, BlameExact
  <1>. QED
    BY <1>1, Inductive, PTL

\* A later message neither replaces nor drops a stored one.
THEOREM FirstBodyKept == Spec => FirstBodyStays
  <1> DEFINE Kept == \A k \in Slots :
                       store.msgs[k] # None => store'.msgs[k] = store.msgs[k]
  <1>1. IInv /\ [Next]_smvars => [Kept]_smvars
    <2> SUFFICES ASSUME IInv, Next PROVE Kept
      OBVIOUS
    <2>1. ASSUME NEW m \in Arriving, Push(m) PROVE Kept
      <3>1. CASE PushResult(store, m) # "Ok"
        BY <2>1, <3>1 DEF Push, PushMsg
      <3>2. CASE PushResult(store, m) = "Ok"
        <4>1. /\ store.msgs[PartyJ(store.party_i, m.sender)] = None
              /\ store'.msgs =
                   [store.msgs EXCEPT ![PartyJ(store.party_i, m.sender)] = m.body]
          BY <2>1, <3>2, PushFillsOne DEF IInv, Push
        <4>. QED
          BY <4>1, IInvStore
      <3>. QED
        BY <3>1, <3>2
    <2>2. (\E sender \in 1..(N + 1) : Contains(sender)) \/ BlameOthers \/ Consume
            => Kept
      BY DEF Contains, BlameOthers, Consume
    <2>. QED
      BY <2>1, <2>2 DEF Next
  <1>. QED
    BY <1>1, Inductive, PTL DEF Spec, FirstBodyStays

\* The index of BroadcastMsgs numbers the parties from zero.
THEOREM IndexesFromZero == Spec => []IndexFromZero
  <1>1. IInv => IndexFromZero
    <2> SUFFICES ASSUME IInv, received # None, NEW i \in 0..N
                 PROVE  IndexMsg(received, i) =
                          IF i + 1 \in (1..N) \ {received.my_ind}
                          THEN received.msgs[PartyJ(received.my_ind, i + 1)]
                          ELSE None
      BY DEF IndexFromZero
    <2>1. /\ received.my_ind \in 1..N
          /\ DOMAIN received.msgs = 1..(N - 1)
      <3>1. received = Finish(store)
        BY DEF IInv
      <3>. QED
        BY <3>1, IInvStore DEF Finish, Slots
    <2>. QED
      BY <2>1, NAssumption DEF IndexMsg, PartyJ
  <1>. QED
    BY <1>1, Inductive, PTL
-----------------------------------------------------------------------------
(***************************************************************************)
(* Refinement: read by party, every call on the store is a step of the     *)
(* mailbox.                                                                *)
(***************************************************************************)
\* An empty slot is a missing party and the other way round.
LEMMA MissingByParty ==
    ASSUME IInv
    PROVE  MB!Missing = Blame(store).guilty
  <1> DEFINE i == store.party_i
  <1>1. /\ i \in 1..N
        /\ store.msgs \in [Slots -> Body \cup {None}]
    BY IInvStore
  <1>2. MB!Missing = {p \in (1..N) \ {i} : store.msgs[PartyJ(i, p)] = None}
    BY DEF MB!Missing, MB!Others, ByParty
  <1>3. Blame(store).guilty =
          {SlotParty(i, k) : k \in {l \in Slots : store.msgs[l] = None}}
    BY <1>1 DEF Blame
  <1>4. ASSUME NEW p \in (1..N) \ {i}, store.msgs[PartyJ(i, p)] = None
        PROVE  p \in Blame(store).guilty
    BY <1>1, <1>3, <1>4, SlotOfParty, NAssumption DEF Slots
  <1>5. ASSUME NEW k \in Slots, store.msgs[k] = None
        PROVE  SlotParty(i, k) \in MB!Missing
    BY <1>1, <1>2, <1>5, PartyOfSlot, NAssumption DEF Slots
  <1>. QED
    BY <1>2, <1>3, <1>4, <1>5

LEMMA PushIsMailboxStep ==
    ASSUME IInv, NEW m \in Arriving, Push(m)
    PROVE  MB!Next
  <1> DEFINE i == store.party_i
             j == PartyJ(i, m.sender)
  <1>1. /\ i \in 1..N
        /\ store.msgs \in [Slots -> Body \cup {None}]
        /\ m.sender \in 0..(N + 1) /\ m.body \in Body
    BY IInvStore DEF Arriving
  <1>2. /\ ~consumed /\ consumed' = consumed
        /\ MailReply' = <<"push_msg", PushResult(store, m)>>
        /\ store' = PushMsg(store, m)
    BY DEF Push, MailReply
  <1>3. CASE PushResult(store, m) = "Ok"
    <2>1. /\ m.sender # 0 /\ m.sender # i
          /\ j \in 1..(N - 1)
          /\ store.msgs[j] = None
          /\ store'.party_i = i
          /\ store'.msgs = [store.msgs EXCEPT ![j] = m.body]
      BY <1>2, <1>3, PushFillsOne DEF IInv
    <2>2. m.sender \in (1..N) \ {i}
      BY <1>1, <2>1, NAssumption DEF PartyJ
    <2>3. m.sender \in MB!Missing
      BY <2>1, <2>2 DEF MB!Missing, MB!Others, ByParty
    <2>4. ByParty(i, store.msgs)' = [ByParty(i, store.msgs) EXCEPT ![m.sender] = m.body]
      <3>1. ASSUME NEW p \in (1..N) \ {i}
            PROVE  store'.msgs[PartyJ(i, p)] =
                     IF p = m.sender THEN m.body ELSE store.msgs[PartyJ(i, p)]
        <4>1. PartyJ(i, p) \in Slots /\ (PartyJ(i, p) = j <=> p = m.sender)
          BY <1>1, <2>2, SlotOfParty, NAssumption DEF Slots
        <4>. QED
          BY <1>1, <2>1, <4>1
      <3>. QED
        BY <2>1, <2>2, <3>1 DEF ByParty
    <2>5. MB!Accept(m.sender, m.body)
      BY <1>2, <1>3, <2>1, <2>3, <2>4 DEF MB!Accept
    <2>. QED
      BY <1>1, <2>2, <2>5 DEF MB!Next
  <1>4. CASE PushResult(store, m) # "Ok"
    <2>1. store' = store /\ PushResult(store, m) \in MB!Errors
      BY <1>2, <1>4 DEF PushMsg, PushResult, MB!Errors
    <2>2. m.sender \notin MB!Missing \/ m.receiver # None
      <3> SUFFICES ASSUME m.sender \in MB!Missing, m.receiver = None PROVE FALSE
        OBVIOUS
      <3>1. m.sender \in (1..N) \ {i} /\ store.msgs[j] = None
        BY DEF MB!Missing, MB!Others, ByParty
      <3>2. j \in DOMAIN store.msgs
        BY <1>1, <3>1, SlotOfParty, NAssumption DEF Slots
      <3>. QED
        BY <1>4, <3>1, <3>2 DEF PushResult
    <2>3. MB!Refuse(m.sender, m.receiver = None, PushResult(store, m))
      BY <1>2, <2>1, <2>2 DEF MB!Refuse
    <2>. QED
      BY <1>1, <2>1, <2>3 DEF MB!Next
  <1>. QED
    BY <1>3, <1>4

LEMMA NextIsMailboxStep ==
    ASSUME IInv, [Next]_smvars
    PROVE  [MB!Next]_MB!mbvars
  <1>1. ASSUME NEW m \in Arriving, Push(m) PROVE MB!Next
    BY <1>1, PushIsMailboxStep
  <1>2. ASSUME NEW sender \in 1..(N + 1), Contains(sender) PROVE MB!Next
    <2>1. /\ store' = store /\ ~consumed /\ consumed' = consumed
          /\ MailReply' = <<"contains_msg_from", ContainsMsgFrom(store, sender)>>
      BY <1>2 DEF Contains, MailReply
    <2>2. ContainsMsgFrom(store, sender)
            <=> (sender \in MB!Others(store.party_i) \ MB!Missing)
      <3>1. store.party_i \in 1..N /\ DOMAIN store.msgs = 1..(N - 1)
        BY IInvStore DEF Slots
      <3>2. CASE sender \in (1..N) \ {store.party_i}
        <4>1. PartyJ(store.party_i, sender) \in 1..(N - 1)
          BY <3>1, <3>2, SlotOfParty, NAssumption
        <4>. QED
          BY <3>1, <3>2, <4>1 DEF ContainsMsgFrom, MB!Others, MB!Missing, ByParty
      <3>3. CASE sender = store.party_i
        BY <3>3 DEF ContainsMsgFrom, MB!Others
      <3>4. CASE sender = N + 1
        <4>1. PartyJ(store.party_i, sender) = N
          BY <3>1, <3>4, NAssumption DEF PartyJ
        <4>2. N \notin 1..(N - 1) /\ N + 1 \notin 1..N
          BY NAssumption
        <4>. QED
          BY <3>1, <3>4, <4>1, <4>2 DEF ContainsMsgFrom, MB!Others
      <3>. QED
        BY <3>2, <3>3, <3>4, NAssumption
    <2>3. MB!Asked(sender)
      <3>1. ContainsMsgFrom(store, sender) \in BOOLEAN
        BY DEF ContainsMsgFrom
      <3>2. ContainsMsgFrom(store, sender)
              = (sender \in MB!Others(store.party_i) \ MB!Missing)
        BY <2>2, <3>1
      <3>3. UNCHANGED <<store.party_i, ByParty(store.party_i, store.msgs), ~consumed>>
        BY <2>1 DEF ByParty
      <3>. QED
        BY <2>1, <3>2, <3>3 DEF MB!Asked
    <2>. QED
      BY <2>3 DEF MB!Next
  <1>3. CASE BlameOthers
    <2>1. /\ store' = store /\ ~consumed /\ consumed' = consumed
          /\ MailReply' = <<"blame", Blame(store).guilty>>
      BY <1>3 DEF BlameOthers, MailReply
    <2>2. MB!Blamed
      BY <2>1, MissingByParty DEF MB!Blamed
    <2>. QED
      BY <2>2 DEF MB!Next
  <1>4. CASE Consume
    <2>1. store' = store /\ ~consumed /\ consumed' = TRUE
      BY <1>4 DEF Consume
    <2>2. CASE WantsMore(store)
      <3>1. MailReply' = <<"too_early", MB!Missing>>
        BY <1>4, <2>1, <2>2, MissingByParty DEF Consume, FinishResult, MailReply
      <3>2. MB!Missing # {}
        <4>1. store.msgs_left # 0
          BY <2>2 DEF WantsMore
        <4>2. Blame(store).guilty # {}
          BY <4>1, BlameCounts, NAssumption, FS_EmptySet DEF IInv, Blame
        <4>. QED
          BY <4>2, MissingByParty
      <3>3. MB!TooEarly
        BY <2>1, <3>1, <3>2 DEF MB!TooEarly
      <3>. QED
        BY <3>3 DEF MB!Next
    <2>3. CASE ~WantsMore(store)
      <3>1. MailReply' = <<"finish", ByParty(store.party_i, store.msgs)>>
        BY <1>4, <2>1, <2>3 DEF Consume, FinishResult, MailReply, Finish
      <3>2. MB!Missing = {}
        <4>1. {k \in DOMAIN store.msgs : store.msgs[k] = None} = {}
          <5>1. ASSUME NEW k \in 1..(N - 1) PROVE store.msgs[k] # None
            BY <2>3, CompleteHasNoHoles, NAssumption, BodyAssumption DEF IInv
          <5>. QED
            BY <5>1, IInvStore DEF Slots
        <4>. QED
          BY <4>1, MissingByParty DEF Blame
      <3>3. MB!HandOver
        BY <2>1, <3>1, <3>2 DEF MB!HandOver
      <3>. QED
        BY <3>3 DEF MB!Next
    <2>. QED
      BY <2>2, <2>3
  <1>5. CASE UNCHANGED smvars
    BY <1>5 DEF smvars, MB!mbvars, ByParty, MailReply
  <1>. QED
    BY <1>1, <1>2, <1>3, <1>4, <1>5 DEF Next

LEMMA InitIsMailboxInit == Init => MB!Init
  <1> SUFFICES ASSUME Init PROVE MB!Init
    OBVIOUS
  <1>1. PICK i \in 1..N : store = NewStore(i, N)
    BY DEF Init
  <1>2. /\ store.party_i = i
        /\ \A k \in 1..(N - 1) : store.msgs[k] = None
    BY <1>1 DEF NewStore
  <1>3. ByParty(store.party_i, store.msgs) = [p \in MB!Others(i) |-> None]
    BY <1>2, SlotOfParty, NAssumption DEF ByParty, MB!Others
  <1>. QED
    BY <1>2, <1>3 DEF Init, MB!Init, MailReply

\* The store implements the mailbox.
THEOREM StoreIsMailbox == Spec => ImplementsMailbox
  BY InitIsMailboxInit, NextIsMailboxStep, Inductive, PTL
     DEF Spec, MB!Spec, ImplementsMailbox
=============================================================================
