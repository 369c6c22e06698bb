--------------------------- MODULE Musig2Instance ---------------------------
(***************************************************************************)
(* The state machine of one party in one signing                           *)
(* (src/cli/party/musig2_instance.rs with the rounds of rounds.rs), as     *)
(* operators on an instance record: every `&mut self` method is an         *)
(* operator from the instance to the instance it leaves behind.            *)
(*                                                                         *)
(*   round       the variant of R: Prepare, Round1, Round2, Finished, Gone *)
(*   msgs1,msgs2 the stores of the two rounds, None once taken             *)
(*   msgs_queue  messages not yet drained by the executor                  *)
(*   ctx         what the Round2 variant holds: the ordered keys and the   *)
(*               message the party signs under (key_agg, r and c are       *)
(*               functions of them), None in every other round             *)
(*   result      the SignResult of Finished, None in every other round     *)
(*                                                                         *)
(* The cryptography is abstracted to who signed what.  Nonces are derived  *)
(* from the private key (EphemeralKey::create_from_private_key), so a key  *)
(* stands for its nonces too; a signature share is its key and its ctx;    *)
(* a signature is the shares summed into it.  Hash collisions and sums     *)
(* that agree by chance are left out.                                      *)
(***************************************************************************)
EXTENDS BroadcastMsgsStore, Sequences

NewInstance(party_i, party_n, key, message) ==
    [ round |-> "Prepare", party_i |-> party_i, party_n |-> party_n,
      key |-> key, message |-> message,
      msgs1 |-> NewStore(party_i, party_n),
      msgs2 |-> NewStore(party_i, party_n),
      msgs_queue |-> << >>, ctx |-> None, result |-> None ]

\* The bodies of the two rounds, and a broadcast carrying one.
Round1Body(key, message) == [kind |-> "Round1", key |-> key, message |-> message]
Share(key, ctx)          == [kind |-> "Round2", key |-> key, ctx |-> ctx]
Broadcast(sender, body)  == [sender |-> sender, receiver |-> None, body |-> body]

\* Mutant: the own key behind the received ones, whatever its index.
PksOwnLast(inst) ==
    [ i \in 1..inst.party_n |->
        IF i = inst.party_n THEN inst.key ELSE inst.msgs1.msgs[i].key ]

(***************************************************************************)
(* Round1::proceed.  The keys are the received ones in slot order with the *)
(* party's own inserted at its index; a peer's `message` is not looked at. *)
(***************************************************************************)
Pks(inst) ==
    [ i \in 1..inst.party_n |->
        IF i = inst.party_i THEN inst.key
        ELSE inst.msgs1.msgs[PartyJ(inst.party_i, i)].key ]

SigningContext(inst) == [pks |-> Pks(inst), message |-> inst.message]

(***************************************************************************)
(* Round2::proceed.  Sum the own and the received shares and verify: the   *)
(* sum is a signature under ctx when it is made of every signer's share of *)
(* that ctx.  (The keys of a signing are distinct, so sets lose nothing.)  *)
(***************************************************************************)
SummedShares(inst) ==
    { Share(inst.key, inst.ctx) } \cup
    { inst.msgs2.msgs[k] : k \in DOMAIN inst.msgs2.msgs }

\* Mutant: Round2 without its assert!.
VerifiesAnything(shares, ctx) == TRUE

Verifies(shares, ctx) ==
    shares = { Share(ctx.pks[i], ctx) : i \in DOMAIN ctx.pks }

(* proceed_round.  One operator per arm of the match that advances, and    *)
(* one per round it can be in; the arms of Prepare and Round1 try again in *)
(* the round they lead to.                                                 *)
(***************************************************************************)
\* Mutant: a round worth a blocking thread, and so a stopwatch.
IsExpensiveAlways(round) == TRUE

\* The three is_expensive(), which every round answers with false.
IsExpensive(round) == FALSE

StoreWantsMore(store) == IF store = None THEN FALSE ELSE WantsMore(store)

\* Mutant: Prepare forgets to push its message.
FromPrepareSilent(inst) == [inst EXCEPT !.round = "Round1"]

FromPrepare(inst) ==
    [ inst EXCEPT
        !.round = "Round1",
        !.msgs_queue =
            Append(@, Broadcast(inst.party_i, Round1Body(inst.key, inst.message))) ]

FromRound1(inst) ==
    LET c == SigningContext(inst)
    IN  [ inst EXCEPT
            !.round = "Round2",
            !.msgs1 = None,
            !.ctx = c,
            !.msgs_queue =
                Append(@, Broadcast(inst.party_i, Share(inst.key, c))) ]

\* A sum that does not verify is a panic of assert!, with the round and the
\* store already moved out of the instance.
FromRound2(inst) ==
    LET shares == SummedShares(inst)
        valid  == Verifies(shares, inst.ctx)
    IN  [ inst EXCEPT
            !.round  = IF valid THEN "Finished" ELSE "Gone",
            !.msgs2  = None,
            !.ctx    = None,
            !.result = IF valid THEN [ctx |-> inst.ctx, shares |-> shares]
                       ELSE None ]

Ready(round, store, may_block) ==
    ~StoreWantsMore(store) /\ (~IsExpensive(round) \/ may_block)

InRound2(inst, may_block) ==
    IF Ready("Round2", inst.msgs2, may_block) THEN FromRound2(inst) ELSE inst

InRound1(inst, may_block) ==
    IF Ready("Round1", inst.msgs1, may_block)
    THEN InRound2(FromRound1(inst), may_block) ELSE inst

InPrepare(inst, may_block) ==
    IF ~IsExpensive("Prepare") \/ may_block
    THEN InRound1(FromPrepare(inst), may_block) ELSE inst

ProceedRound(inst, may_block) ==
    CASE inst.round = "Prepare" -> InPrepare(inst, may_block)
      [] inst.round = "Round1"  -> InRound1(inst, may_block)
      [] inst.round = "Round2"  -> InRound2(inst, may_block)
      [] OTHER                  -> inst

(***************************************************************************)
(* The StateMachine trait.                                                 *)
(***************************************************************************)
\* The store a message goes to.
StoreFor(inst, msg) ==
    IF msg.body.kind = "Round1" THEN inst.msgs1 ELSE inst.msgs2

\* The instance with the message pushed into its store.
WithMsg(inst, msg) ==
    IF msg.body.kind = "Round1"
    THEN [inst EXCEPT !.msgs1 = PushMsg(@, msg)]
    ELSE [inst EXCEPT !.msgs2 = PushMsg(@, msg)]

Accepts(inst, msg) ==
    /\ StoreFor(inst, msg) # None
    /\ PushResult(StoreFor(inst, msg), msg) = "Ok"

HandleIncoming(inst, msg) ==
    IF Accepts(inst, msg) THEN ProceedRound(WithMsg(inst, msg), FALSE) ELSE inst

\* What handle_incoming returns, when the sum of Round2 does not make it panic.
HandleResult(inst, msg) ==
    IF      StoreFor(inst, msg) = None THEN "OutOfOrderMsg"
    ELSE IF ~Accepts(inst, msg)        THEN "HandleMsg"
    ELSE "Ok"

\* A panic in proceed_round leaves Gone behind.
Panicked(inst) == inst.round = "Gone"

\* Mutant: wants_to_proceed without the Prepare arm.
WantsToProceedLater(inst) ==
    \/ inst.round = "Round1" /\ ~StoreWantsMore(inst.msgs1)
    \/ inst.round = "Round2" /\ ~StoreWantsMore(inst.msgs2)

WantsToProceed(inst) ==
    \/ inst.round = "Prepare"
    \/ inst.round = "Round1" /\ ~StoreWantsMore(inst.msgs1)
    \/ inst.round = "Round2" /\ ~StoreWantsMore(inst.msgs2)

Proceed(inst) == ProceedRound(inst, TRUE)

\* Mutant: no round has a timeout.
HasNoTimeout(inst) == FALSE

\* round_timeout is Some(5 s) in Round2 only.
HasTimeout(inst) == inst.round = "Round2"

\* round_timeout_reached in Round2: PartiesDidntRevealItsSeed { party_ind }.
TimeoutBlame(inst) == Blame(inst.msgs2).guilty

\* One turn of the executor's loop up to its last send (async_protocol.rs):
\* handle_incoming, and proceed_if_needed for what it left to compute.
Turn(inst, msg) ==
    LET h == HandleIncoming(inst, msg) IN IF WantsToProceed(h) THEN Proceed(h) ELSE h

IsFinished(inst) == inst.round = "Finished"

\* pick_output of a finished instance returns its result and leaves Gone.
PickOutput(inst) == [inst EXCEPT !.round = "Gone", !.result = None]

CurrentRound(inst) ==
    CASE inst.round = "Prepare" -> 0
      [] inst.round = "Round1"  -> 1
      [] inst.round = "Round2"  -> 2
      [] OTHER                  -> 3

IsCritical(error) == error \in {"ProceedRound", "OutOfOrderMsg", "DoublePickResult"}
=============================================================================
