------------------------- MODULE BroadcastMsgsStore -------------------------
(***************************************************************************)
(* The message store of one round (src/cli/party/broadcast.rs): party      *)
(* party_i of parties_n collects one broadcast message from each of the    *)
(* others.  The Vec of n-1 slots skips the party's own index, so every     *)
(* operation translates between party indices and slots; slot k here is    *)
(* element k-1 of the Vec.                                                 *)
(*                                                                         *)
(* A store is the record [party_i, msgs, msgs_left] of the struct, a       *)
(* message the record [sender, receiver, body] of                          *)
(* traits/state_machine.rs.  This module has no variables: StoreMachine    *)
(* runs one store, Musig2Instance holds two of them.                       *)
(***************************************************************************)
EXTENDS Naturals

CONSTANT None   \* Rust's Option::None

\* Mutant: a slot for the owner too.
NewStoreWithOwn(party_i, parties_n) ==
    [ party_i   |-> party_i,
      msgs      |-> [k \in 1..parties_n |-> None],
      msgs_left |-> parties_n ]

NewStore(party_i, parties_n) ==
    [ party_i   |-> party_i,
      msgs      |-> [k \in 1..(parties_n - 1) |-> None],
      msgs_left |-> parties_n - 1 ]

\* `party_j`, the (1-based) slot of a sender other than party_i itself.
PartyJ(party_i, sender) == IF sender < party_i THEN sender ELSE sender - 1

\* Mutant: push_msg without the MsgOverwrite check.
PushResultOverwrites(store, msg) ==
    IF      msg.sender = 0               THEN "UnknownSender"
    ELSE IF msg.receiver # None          THEN "ExpectedBroadcast"
    ELSE IF msg.sender = store.party_i   THEN "ItsFromMe"
    ELSE IF PartyJ(store.party_i, msg.sender) \notin DOMAIN store.msgs
                                         THEN "UnknownSender"
    ELSE "Ok"

(***************************************************************************)
(* push_msg: its checks in the order of the code, the first that fails     *)
(* naming the StoreErr.                                                    *)
(***************************************************************************)
PushResult(store, msg) ==
    LET j == PartyJ(store.party_i, msg.sender) IN
    IF      msg.sender = 0               THEN "UnknownSender"
    ELSE IF msg.receiver # None          THEN "ExpectedBroadcast"
    ELSE IF msg.sender = store.party_i   THEN "ItsFromMe"
    ELSE IF j \notin DOMAIN store.msgs   THEN "UnknownSender"
    ELSE IF store.msgs[j] # None         THEN "MsgOverwrite"
    ELSE "Ok"

\* Mutant: push_msg forgets the counter.
PushMsgUncounted(store, msg) ==
    IF PushResult(store, msg) = "Ok"
    THEN [store EXCEPT !.msgs[PartyJ(store.party_i, msg.sender)] = msg.body]
    ELSE store

\* The store after push_msg: a refused message leaves it as it was.
PushMsg(store, msg) ==
    IF PushResult(store, msg) = "Ok"
    THEN [ store EXCEPT !.msgs[PartyJ(store.party_i, msg.sender)] = msg.body,
                        !.msgs_left = @ - 1 ]
    ELSE store

WantsMore(store) == store.msgs_left > 0

\* Mutant: contains_msg_from takes any slot for a filled one.
ContainsAnySlot(store, sender) ==
    /\ sender # store.party_i
    /\ PartyJ(store.party_i, sender) \in DOMAIN store.msgs

\* contains_msg_from, for sender > 0 (`party_j - 1` underflows for 0).
ContainsMsgFrom(store, sender) ==
    LET j == PartyJ(store.party_i, sender)
    IN  /\ sender # store.party_i
        /\ j \in DOMAIN store.msgs
        /\ store.msgs[j] # None

(***************************************************************************)
(* finish consumes the store; the BroadcastMsgs it yields keep the slots.  *)
(***************************************************************************)
FinishResult(store) == IF WantsMore(store) THEN "WantsMoreMessages" ELSE "Ok"

Finish(store) == [my_ind |-> store.party_i, msgs |-> store.msgs]

\* Mutant: `ind` with <= in place of <.
SlotPartyOff(party_i, slot) == IF slot <= party_i THEN slot ELSE slot + 1

\* `ind`: the party a slot belongs to.
SlotParty(party_i, slot) == IF slot < party_i THEN slot ELSE slot + 1

\* blame: how many messages are missing, and whose.
Blame(store) ==
    [ left   |-> store.msgs_left,
      guilty |-> { SlotParty(store.party_i, k) :
                     k \in {i \in DOMAIN store.msgs : store.msgs[i] = None} } ]

(***************************************************************************)
(* Index<u16> for BroadcastMsgs, slot arithmetic as in the code: element e *)
(* of the Vec is slot e + 1.  None stands for the panics (own index, or an *)
(* element past the end).                                                  *)
(***************************************************************************)
IndexMsg(received, index) ==
    LET own     == received.my_ind - 1
        element == IF index < own THEN index ELSE index - 1
    IN  IF index = own \/ element + 1 \notin DOMAIN received.msgs
        THEN None
        ELSE received.msgs[element + 1]
=============================================================================
