------------------------- MODULE AsyncProtocolProps -------------------------
(* What the executor and the instance it runs must satisfy together. *)
EXTENDS AsyncProtocol

Messages == {R1(p, s) : p \in 1..N, s \in {"this", "other"}} \cup
            {R2(p, s) : p \in 1..N, s \in {"this", "other"}}

Store == [ party_i : {Self},
           msgs : [1..(N - 1) -> {m.body : m \in Messages} \cup {None}],
           msgs_left : 0..(N - 1) ]

\* The signature of this signing.
Result == [ctx |-> Ctx(Message), shares |-> {Share(p, Ctx(Message)) : p \in 1..N}]

Instances ==
    [ round : {"Prepare", "Round1", "Round2", "Finished", "Gone"},
      party_i : {Self}, party_n : {N}, key : {Self}, message : {Message},
      msgs1 : Store \cup {None}, msgs2 : Store \cup {None},
      msgs_queue : Seq({R1(Self, "this"), R2(Self, "this")}),
      ctx : {None, Ctx(Message)}, result : {None, Result} ]

\* None stands for Rust's None: it is no body, no store and no instance.
ASSUME NoneAssumption ==
    /\ None \notin {m.body : m \in Messages}
    /\ None \notin Store
    /\ None \notin Instances

Results ==
    [tag : {"ProceedPanicked", "TaskPanicked", "Recv"}] \cup
    [tag : {"Ok"}, result : {Result}] \cup
    [tag : {"HandleIncoming"}, error : {"OutOfOrderMsg"}] \cup
    [tag : {"HandleIncomingTimeout"}, blamed : SUBSET Peers]

\* Type invariant of the executor and its instance.
TypeOK ==
    /\ pc \in {"start", "proceed", "blocking", "flush", "receive", "reply", "done"}
    /\ state \in Instances \cup {None}
    /\ task \in Instances \cup {None}
    /\ deadline \in BOOLEAN
    /\ current_round \in {None} \cup 0..3
    /\ incoming \in Seq(arrived) /\ Len(incoming) <= Capacity
    /\ lagged \in BOOLEAN
    /\ outgoing \in Seq({R1(Self, "this"), R2(Self, "this")})
    /\ outcome \in Results \cup {None}
    /\ arrived \subseteq Messages

\* The instance is in exactly one place until run() returns: no step can find
\* it missing (InternalError::MissingState), although proceed_if_needed moves
\* it out and back.
NeverMissing ==
    /\ pc \notin {"blocking", "done"} => state # None /\ task = None
    /\ pc = "blocking" => task # None /\ state = None

\* While run() waits for a message the deadline belongs to the round the
\* instance is in: set in Round2, not set in Round1, whatever the number of
\* rounds the last message advanced.  (round_timeout_reached panics otherwise,
\* or the session waits for ever in Round2.)
DeadlineOfThisRound ==
    pc = "receive" =>
        /\ current_round = CurrentRound(state)
        /\ deadline <=> state.round = "Round2"

\* run() waits only when it has to: everything produced is sent and the round
\* really lacks a message.  A queue drained too early, or a round left
\* complete but not proceeded, would wait for an answer nobody owes.
WaitsForSomething ==
    pc = "receive" =>
        /\ state.msgs_queue = << >>
        /\ state.round \in {"Round1", "Round2"}
        /\ WantsMore(IF state.round = "Round1" THEN state.msgs1 ELSE state.msgs2)

\* The barrier of MuSig2: the own share leaves only after the own nonces did,
\* and only when the nonces of every other party are in; nothing is sent twice.
ShareAfterAllNonces ==
    /\ outgoing \in { << >>, <<R1(Self, "this")>>,
                      <<R1(Self, "this"), R2(Self, "this")>> }
    /\ Len(outgoing) = 2 =>
         \A p \in Peers : \E s \in {"this", "other"} : R1(p, s) \in arrived

\* A session that times out blames exactly the parties no share has come from.
BlamesTheSilent ==
    pc = "done" /\ outcome.tag = "HandleIncomingTimeout" =>
        outcome.blamed = {p \in Peers : \A s \in {"this", "other"} : R2(p, s) \notin arrived}

\* A returned signature is made of every party's share of this very message
\* and key list, also when shares of another signing came in between.
SignatureIsOfThisSigning ==
    pc = "done" /\ outcome.tag = "Ok" =>
        /\ outcome.result.ctx = Ctx(Message)
        /\ \A p \in Peers : R2(p, "this") \in arrived

\* Liveness: with every party's nonces in, run() returns: by a signature, by
\* the Round2 deadline or by an error.
NoncesInThenReturns ==
    (\A p \in Peers : R1(p, "this") \in arrived) ~> (pc = "done")

\* What state_machine.rs says of handle_incoming: an unexpected message is the
\* example of a non-critical error, after which the protocol must continue.
UnexpectedIsNotCritical ==
    pc = "done" /\ outcome.tag = "HandleIncoming" => outcome.error # "OutOfOrderMsg"
=============================================================================
