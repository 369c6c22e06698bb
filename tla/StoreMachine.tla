---------------------------- MODULE StoreMachine ----------------------------
(***************************************************************************)
(* One BroadcastMsgsStore driven through every call of the MessageStore    *)
(* trait, with every sender index a u16 could bring near the boundary      *)
(* (0, the owner, n and n+1), addressed and broadcast messages, repeats.   *)
(***************************************************************************)
EXTENDS BroadcastMsgsStore, FiniteSets

CONSTANTS N,      \* parties_n
          Body    \* message bodies

ASSUME NAssumption == N \in Nat \ {0}
ASSUME BodyAssumption == None \notin Body

VARIABLES store,      \* the BroadcastMsgsStore, in its last state once consumed
          consumed,   \* finish() took the store
          received,   \* the BroadcastMsgs finish() returned, or None
          reply       \* the last call and what it returned

smvars == <<store, consumed, received, reply>>

Init == /\ store \in {NewStore(i, N) : i \in 1..N}
        /\ consumed = FALSE
        /\ received = None
        /\ reply = <<"new", TRUE>>

\* What can arrive: the stream of a session passes broadcasts and messages
\* addressed to its own party (musig2_party.rs, `incoming`).
Arriving == [ sender   : 0..(N + 1),
              receiver : {None, store.party_i},
              body     : Body ]

Push(m) == /\ ~consumed
           /\ store' = PushMsg(store, m)
           /\ reply' = <<"push_msg", PushResult(store, m)>>
           /\ UNCHANGED <<consumed, received>>

Contains(sender) == /\ ~consumed
                    /\ reply' = <<"contains_msg_from", ContainsMsgFrom(store, sender)>>
                    /\ UNCHANGED <<store, consumed, received>>

BlameOthers == /\ ~consumed
               /\ reply' = <<"blame", Blame(store).guilty>>
               /\ UNCHANGED <<store, consumed, received>>

\* finish(self): the store is gone whether or not it was complete.
Consume == /\ ~consumed
           /\ consumed' = TRUE
           /\ reply' = <<"finish", FinishResult(store)>>
           /\ received' = IF WantsMore(store) THEN None ELSE Finish(store)
           /\ UNCHANGED store

Next == \/ \E m \in Arriving : Push(m)
        \/ \E sender \in 1..(N + 1) : Contains(sender)
        \/ BlameOthers
        \/ Consume

Spec == Init /\ [][Next]_smvars
-----------------------------------------------------------------------------
Slots == 1..(N - 1)
PushReplies == {"Ok", "UnknownSender", "ExpectedBroadcast", "ItsFromMe",
                "MsgOverwrite"}

\* Type invariant of the struct and of the call results.
TypeOK ==
    /\ store \in [ party_i : 1..N, msgs : [Slots -> Body \cup {None}],
                   msgs_left : 0..(N - 1) ]
    /\ consumed \in BOOLEAN
    /\ received \in {None} \cup [my_ind : 1..N, msgs : [Slots -> Body \cup {None}]]
    /\ reply \in    ({"new"} \X {TRUE})
               \cup ({"push_msg"} \X PushReplies)
               \cup ({"contains_msg_from"} \X BOOLEAN)
               \cup ({"blame"} \X SUBSET (1..N))
               \cup ({"finish"} \X {"Ok", "WantsMoreMessages"})

\* The counter the rounds rely on (wants_more) is the number of empty slots,
\* after any sequence of accepted and refused messages: were it one too low, a
\* round would start with a message missing and finish() would unwrap a None.
CountExact ==
    store.msgs_left = Cardinality({k \in Slots : store.msgs[k] = None})

\* A BroadcastMsgs handed to a round has no hole: `Option::unwrap` in finish()
\* never panics.
NoHoles == received # None => \A k \in Slots : received.msgs[k] # None

\* blame() never names the party itself, and names as many as it counts.
BlameExact ==
    LET b == Blame(store)
    IN  /\ store.party_i \notin b.guilty
        /\ b.guilty \subseteq 1..N
        /\ b.left = Cardinality(b.guilty)

\* Action property: a body once stored is never replaced or dropped by a later
\* message (push_msg refuses with MsgOverwrite instead).
FirstBodyStays ==
    [][ \A k \in Slots : store.msgs[k] # None => store'.msgs[k] = store.msgs[k]
      ]_smvars

\* The index of BroadcastMsgs, as the code computes it, numbers the parties
\* from 0: element i is the body of party i + 1, and only the party's own
\* element and those past the end panic.
IndexFromZero ==
    received # None =>
      \A i \in 0..N :
        IndexMsg(received, i) =
          IF i + 1 \in (1..N) \ {received.my_ind}
          THEN received.msgs[PartyJ(received.my_ind, i + 1)]
          ELSE None
-----------------------------------------------------------------------------
(***************************************************************************)
(* The store implements Mailbox: read by party instead of by slot, what it *)
(* keeps and what it answers is what the mailbox does.                     *)
(***************************************************************************)
ByParty(party_i, msgs) ==
    [p \in (1..N) \ {party_i} |-> msgs[PartyJ(party_i, p)]]

MailReply ==
    IF reply[1] # "finish"  THEN reply
    ELSE IF reply[2] = "Ok" THEN <<"finish", ByParty(received.my_ind, received.msgs)>>
    ELSE <<"too_early", Blame(store).guilty>>

MB == INSTANCE Mailbox WITH
        self  <- store.party_i,
        mail  <- ByParty(store.party_i, store.msgs),
        open  <- ~consumed,
        reply <- MailReply

\* Refinement: every call on the store is a step of the mailbox.
ImplementsMailbox == MB!Spec
=============================================================================
