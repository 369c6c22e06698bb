# Musig2: a TLA+ model of the two-round signing

The program (`src/`) is a command-line node that signs messages together with
its peers under an aggregated Schnorr key (MuSig2). A user types `sign <message>`
on one node; that node calls the others over libp2p, and each of them runs a
two-round protocol: everybody broadcasts nonces, then everybody broadcasts a
share of the signature, then everybody sums the shares and verifies the sum.

This directory holds the TLA+ model of that program, the TLC instances that
check it, and the proofs TLAPS checks. `PROJECT.json` gives, for every
definition, the lines of the source it stands for.

Contents: [1 Inventory](#1-inventory) - [2 Plan](#2-plan) -
[3 Modules and code](#3-modules-and-code) - [4 Runs](#4-runs) -
[5 Fairness](#5-fairness) - [6 Proofs](#6-proofs) -
[7 Disagreements with the docs](#7-disagreements-with-the-docs) -
[8 What is not modelled](#8-what-is-not-modelled)

## 1 Inventory

Paths are below `src/src/cli/`.

| Component | State | Operations | What makes it correct |
|---|---|---|---|
| Message store `party/broadcast.rs` | owner index, a Vec of n-1 optional bodies, a counter of what is missing | `push_msg`, `wants_more`, `contains_msg_from`, `blame`, `finish`, the index of the result | counter and slots agree; party index and slot agree in every operation; the first body of a party is never replaced; nothing is handed over with a hole in it |
| Signing state machine `party/musig2_instance.rs`, `party/rounds.rs`, `party/traits/` | the round (Prepare, Round1, Round2, Finished, Gone), one store per round, the queue of messages to send | `handle_incoming`, `proceed`, `wants_to_proceed`, `round_timeout`, `round_timeout_reached`, `pick_output`, ... | a share only after the nonces of all; all parties aggregate the same ordered keys; only a verified sum is a result; messages that are early are kept |
| Async executor `party/async_protocol.rs`, `party/watcher.rs` | the state machine (moved away while it computes), current round, deadline, the two channel ends | `run`: `refresh_timer`, `proceed_if_needed`, `send_outgoing`, `finish_if_possible`, `handle_incoming` | the state is never missing when used; the deadline is that of the present round; it waits only for messages somebody still owes; it blames the right parties |
| Sessions `party/session.rs`, `party/musig2_party.rs` | one task per sign command and node, a subscription to the node's channel, a sender for what goes out | `start_musig2`, `coop_sign`, `run_session`, the relay of in- and outgoing messages | sessions of one command end with the same signature or an error; sessions that run side by side never mix into a wrong signature |
| Node loop `node.rs`, `p2p/msg.rs`, `mod.rs`, `main.rs` | the swarm, the member list and indices, four internal channels | the `select!` of `run`: stdin commands, network events, messages of the party, calls | all nodes agree on the members and the order of keys; a message reaches every session that is subscribed |
| Network behaviour `p2p/behaviour.rs`, `p2p/transport.rs` | floodsub and mdns of libp2p | decode and forward what arrives | each message at most once, in any order, maybe never |
| MuSig2 arithmetic `protocals/` | keys, nonces, shares | key aggregation, nonce aggregation, `sign`, `sign_prime`, `sign_double_prime`, `verify` | the sum of honest shares verifies whatever the parity of R |
| Simulations, benchmark `party/sim/` | the parties of one signing in one process, the messages between them | `add_party` and `run` of the synchronous and the asynchronous driver, the stopwatch of the first | both end when the parties do; in lock step no party gets ahead; results come in the order of the parties; the shared channel is long enough |

**Interactions.** The node owns a tokio broadcast channel of 50 messages. Every
session subscribes to it when it starts (never earlier), so it gets a copy of all
that the node receives from then on. What a session sends goes into a second
broadcast channel, which the node reads and publishes to floodsub. `CoopSign` is the call that makes the other nodes start
their own session for a command. Inside a session the executor owns the state
machine and moves it to a blocking thread for each computation.

**What is hard.** Messages carry no session: two commands at the same time
share all their traffic. Shares may come before the last nonces. Only Round2 has
a deadline. The channel drops its oldest message when a session is slow. A
session that subscribes late has missed what came before. A node lists only the peers it dialed
itself, and a session keeps the list of the moment it started, so two sessions of one command may
count different signers. The executor moves its
own state in and out across an await. A sum that does not verify is a panic of
the task. Nothing is persisted, and nobody tells the others about a crash. The
list with lines is under `hazards` in `PROJECT.json`.

## 2 Plan

Done, in this order (the store first, because both rounds rest on it, then the
executor, where the interleavings are, then all nodes together, then what surrounds them):

1. `BroadcastMsgsStore`, `StoreMachine`, `Mailbox` - the store, and its
   specification by party; proved for every n.
2. `Musig2Instance` - the state machine as operators.
3. `AsyncProtocol` - the executor and its environment.
4. `Signing`, `MultiSig` - sessions on all nodes, each with the member list it
   started with, and what they are for.
5. `Musig2Crypto`, `KeyCodec`, `CryptoRun` - the arithmetic the other modules
   abstract from, over a small curve, with keys and shares as the bytes messages carry.
6. `InstanceLemmas`, `AsyncProtocolProofs` - the executor for every number of
   parties and every capacity of its channel.
7. `Node`, `Calls` - the select loop with its channels, connection events, the
   member list and what a command sets off; `MusigMessage`, the bytes a command signs.
8. `Simulation`, `AsyncSimulation` - the two drivers that run parties in one process.
9. `SigningProofs` - the sessions of all nodes together: the types and `Unanimity` for
   every number of nodes and commands and every member list, and with one list for all the step
   simulation for `MultiSig` and who may fail and be blamed; the barrier, waiting and blame of the executor in
   `AsyncProtocolProofs`.
10. `NodeProofs` - the main tasks of all nodes: member lists and indices, what stops a node, and
    the step simulation for `Calls`, for every number of nodes, connections and commands.
11. `AsyncSimulationProofs` - the order of the answers and the backlog of the shared channel.
12. `SimulationProofs` - the lock step, for any number of parties in any order.
13. `CryptoProofs` - the arithmetic on every curve: induction, sums and folds, one signer, what verifies, what fails.

To do:

14. `BroadcastChannel` - tokio's broadcast channel by positions (as in
    `AsyncSimulation`), and the counting form used in `AsyncProtocol`, `Signing` and `Node` shown
    to implement it; a receiver reads a subsequence of what was sent.

## 3 Modules and code

**`BroadcastMsgsStore`** (`party/broadcast.rs`). The struct as a record, every
method as an operator; slot `k` is element `k-1` of the Vec. The operators
translate between party and slot separately (`PartyJ`, `SlotParty`, the index),
as the code does, because that is where they could disagree. `StoreErr` is a
string; `push_msg` is the pair `PushResult`, `PushMsg`.

**`StoreMachine`** runs one store through any sequence of calls, **`Mailbox`**
is what the store promises told by party and without slots or a counter, and
`StoreMachine` implements it (`ImplementsMailbox`).

**`Musig2Instance`** (`party/musig2_instance.rs`, `party/rounds.rs`). Every
`&mut self` method is an operator from the instance to the instance it leaves.
`proceed_round` calls itself after Prepare and Round1; `InPrepare`, `InRound1`
and `InRound2` are its three depths, so one call can pass several rounds as in
the code. A panic of the `assert!` in Round2 leaves the round `Gone`, which is
what `mem::replace` left there before.

The cryptography is who signed what: nonces are derived from the private key
(`create_from_private_key`), so a key stands for its nonces as well; a share is
a key and the context it signs, i.e. the ordered keys and the message; a sum
verifies exactly when it holds the share of every key of its context. Hash
collisions and accidental sums are left out.

**`AsyncProtocol`** (`party/async_protocol.rs`). One action for each stretch of
`run` between two awaits:

| Action | Code |
|---|---|
| `Start` | the first `refresh_timer` |
| `ProceedIfNeeded`, `BlockingDone` | `proceed_if_needed`: take the state and spawn, put it back |
| `Flush` | `send_outgoing`, `refresh_timer`, `finish_if_possible` |
| `Receive`, `ReceiveLagged`, `Timeout` | `handle_incoming` and its three ways on |
| `Reply` | `send_outgoing`, `refresh_timer` after a message |

`Arrive` is the environment: tokio's broadcast channel with its bound. A receiver
that is overtaken loses the oldest message, and its next `recv` says `Lagged`. A
peer's share of this signing can come only after this party's nonces went out,
since the peer needs them; a share or nonces of another signing can come at any
time. Two awaits that cannot be told apart from outside are one step: sending
several messages of a queue (`Outgoing` puts each on a broadcast channel and
never waits), and `timeout_at`, which looks at the stream before the timer.

**`Signing`** (`party/session.rs`, `party/musig2_party.rs`, `node.rs`) has such an
executor for every node and command, at the grain of one loop turn
(`Receive`, then `Flush`). `StartMusig2` is `handle_sign` on the initiator and
the call on the others; `Deliver` hands a published message to all live sessions
of a node, of which each drops what carries its own index (`Skip`: the filter of
`incoming`); `Crash` takes a node away with its sessions. `Called` is the set of
calls the network does not lose. `Peers` gives each session the list its
node had when it started; n and the index come from it as in `start_musig2`.

**`MultiSig`** is what it is for: nonces of all, then shares of all, then a
signature. `Signing` implements it (`ImplementsMultiSig`) when all sessions have the same list.

**`Musig2Crypto`** (`protocals/musig2.rs`, `protocals/key.rs`) is the arithmetic
itself: key aggregation with its hashed coefficients, the two nonces each party derives from
its key, `compute_global_params`, the share with its sign for an odd R, the
sum, `verify`. libsecp256k1 is replaced by a curve of the same form over a small
field with a prime number of points (`CurveAssumption` checks it), so that a point can be
written as the multiple of the generator it is, while its coordinates are those of the curve: x is
hashed and the parity of y decides the sign. The hash is a constant. **`KeyCodec`** is
what becomes of a key on the wire: the tag and two words of `serialize`, `parse` with its
checks (but not of the tag), the vectors of nonces, and the list of keys `Round1::proceed` makes
of what it received, from which a key that does not parse is left out with a warning. **`CryptoRun`** lets one to three parties
compute a signing in the order of `rounds.rs`, through these bytes. This is what stands behind `Verifies` of
`Musig2Instance`: a sum of the shares of all signers verifies, and nothing else does.

**`Node`** (`node.rs`, the lists of `party/musig2_party.rs`, `inject_event` of `p2p/behaviour.rs`) has one
action per branch of the `select!`:

| Action | Branch |
|---|---|
| `Input`, `EndOfInput` | a line from stdin, or none: `expect`, and `strip_prefix(..).unwrap()` on a command without its blank |
| `ConnectionEstablished`, `ConnectionClosed` | the swarm's events: `add_party`, `remove_party`, `remove_peer_id` |
| `CallPeers` | a call on `rx_inter`: `handle_sign` |
| `AsyncResponse` | a message of a session on `rx_party`: `publish_msg` |

Around it `Dial`, `Lose` and `Flood` are libp2p as the program uses it: floodsub dials whom mdns has found,
both ends possibly at the same time, connections break, a call is forwarded from node to node and handed over
once. `NewSession` makes the sorted list and the index of that moment and formats the message (**`MusigMessage`**:
32 bytes, cut or padded with zeros in front). A panic of the main task takes the node down. What a session
does afterwards is `Signing`; here it only sends its two messages. **`Calls`** is what a command sets
off, without connections and queues: its own session, then at most one on each other node. `Node` implements it.

**`Simulation`** (`party/sim/simulation.rs`) is the loop of `run` party by party and message by message, with
`msgs_pull` and its frozen copy; of the benchmark it keeps which rounds have a measurement. **`AsyncSimulation`**
(`party/sim/async_simulation.rs`) has a task per party, one channel by positions for all of them (each also gets
its own messages), and a caller that adds parties, calls `run` and awaits the tasks one after the other.

`AsyncProtocolProps`, `SigningProps`, `NodeProps`, `SimulationProps` and `AsyncSimulationProps` hold the properties; `MC...` the
constants of the instances; `...Lemmas` and `...Proofs` what is proved (section 6). An operator whose comment starts with *Mutant* is a
wrong version of the definition after it. Nothing uses it; it documents which
slip the property it is paired with in `PROJECT.json` is there to catch.

## 4 Runs

| Run | Instance | Shows |
|---|---|---|
| `store` | n = 4, every owner, 2 bodies | the counter, the slots and blame agree after any calls; the store is a `Mailbox` |
| `executor` | second of 3 parties, one peer also in another signing, channel of 3 | the properties of `AsyncProtocolProps` with messages at any point between the awaits |
| `signing_one` | 3 nodes, 1 command, channel of 4 | one signing: `Unanimity`, `NobodyLeftWaiting`, `OnlyTimeoutsFail`, `BlamesUndelivered`, and it implements `MultiSig` |
| `signing_two` | 2 nodes, 2 commands of different messages, at the second of which node 2 lists nobody, channel of 1 | sessions mix their traffic and disagree on n and the indices, and still `Unanimity` holds of whatever signature comes out |
| `signing_live` | 2 nodes, 1 command, 1 crash, channel of 2, calls and messages that may never arrive | a session that has all nonces ends whatever is lost (`Round2Ends`); everybody signs when nothing is (`QuietRunSigns`) |
| `crypto` | up to 3 parties, 8 private keys, a curve of 31 points over 43 elements, a message that is a scalar and one that is not | the sum of the shares is the signature of a single signer with the aggregated key, `verify` accepts it and no other scalar, and a party fails only at the edges |
| `node_members` | 3 nodes, 3 connections, 1 lost, a command at any moment | `ListsWhomItDialed`, `NobodyTwice`, `SameSignersSameOrder`, and it implements `Calls` |
| `node_loop` | 2 nodes with a command each, other lines, the end of stdin, a connection that comes and goes, channels of 2 | `OnlyInputStopsANode`, `SignsTheFirstBytes`, `CallIsAnswered` |
| `simulation` | 2 or 3 parties in any order, 2 messages, `run` called up to twice | `LockStep`, `PanicsOnTwoMessages`, `OnlyPrepareIsMeasured`, `FirstRunEnds` |
| `async_simulation` | 2 parties in any order, 2 messages, channel of 2, `run` called up to twice | `AnswersInOrder`, `BacklogBounded`, `RunReturns` |
| `executor_unexpected`, `signing_peers` | as `executor`; 3 nodes of which two know only the third | a statement of the docs that the code does not satisfy (section 7) |

**Bounds.** Four parties give an owner at each end and in the middle and two
neighbours on one side; the slot arithmetic has no further case, and the proofs
hold for every n. Two bodies tell a replaced body from a kept one. In the
executor, the second of three parties has a peer on either side, so its own key
goes in the middle of the list; of the five messages that can come for it the
channel holds three, so both overrun and no overrun happen. Three nodes are
the least for which the shares of one peer can come before the nonces of another,
the case where one message passes two rounds. In `signing_one` the channel holds
all that can come (two messages of each of two peers), which is the situation of
the program, whose 50 places no single signing fills: an overrun is not among
the errors that `OnlyTimeoutsFail` has to allow. In `signing_two` the channel
holds a single message, so that a session that reads each at once gets all of them and any other
misses some: both are common there, and the instance stays small; all four sessions
can start, be missed by the network or be late, and any of them can take
messages of any other. Its crash is left to `signing_live`. The smallest instance is used for liveness, where TLC is slow;
its channel holds just what one signing sends.

In `crypto` every list of up to three out of 8 keys is tried, equal ones included; R has an odd y
in about half of them, and in a few a partial sum is infinity and a party fails. The group is smaller than the
field, as it is for secp256k1, so that some points have an x coordinate that is no scalar (there
with probability 2^-128) and a 32 byte message need not be one either.

In `node_members` three connections are enough for a pair to be connected in both directions while a third
node is there, and for a node to list the two others in either order; the session's own messages are left out (`Sends` = 0). `node_loop`
has them, with channels of exactly the room two sessions need (one message each stands for the
two, a channel of 2 for the 50 of the program). `Width` is 2 bytes there and the two texts are longer and
begin alike; `OnlyTheNumberIsSigned` is the general case. `async_simulation` overruns a channel of 2 with two parties;
`BacklogBounded` does not depend on its capacity and says what capacity is enough.

A run may really stop (all sessions done, or waiting for what never comes), so no run
checks deadlock; `WaitsForSomething`, `NobodyLeftWaiting` and the liveness
properties say when waiting is right.

**The properties that say most.** `DeadlineOfThisRound`: while the executor waits the
deadline is set in Round2 and not in Round1, however many rounds the last message
passed. `WaitsForSomething`: it never waits for an answer nobody owes.
`BlamesUndelivered`: a timeout names exactly the parties whose share has not
reached the node, including what is unread in the channel. `Unanimity`: a signature is
of the message of its own command under as many distinct keys as the session counts signers, and every node
whose key is in it published its share of exactly that. `NobodyLeftWaiting`: as soon as one party has the
signature nobody is left in the untimed Round1. `ListsWhomItDialed`: a node that has handled its events lists exactly
the peers it dialed, each once, whoever dialed it and however often connections broke. `OnlyInputStopsANode`: with
room for what all sessions send, none of the `expect`s and `unwrap`s of the loop fires but those on stdin.
`BacklogBounded`: in the shared channel nobody is ever 2N messages behind.

## 5 Fairness

`AsyncProtocol`: weak fairness of the executor's own steps - tokio polls
a task that is ready, the blocking pool runs what it was given, a timer
fires. Nothing obliges a peer to send. `Signing`: the same for each session
(`Fairness`), and nothing of the network or of the user.

`Node`: each branch of the `select!` is taken if it stays ready, because `select!` starts polling at a random
branch; nobody has to type, and the network owes nothing. `CallIsAnswered` is about calls that did arrive.
`Simulation`: `run` is a loop without a wait. `AsyncSimulation`: the runtime polls the tasks and the one that
awaits `run`; the caller need not add a party or call `run`. `FirstRunEnds` and `RunReturns` rest on these.

No specification makes the network fair: in `signing_live` as elsewhere a call or a message may be lost for good.
`Round2Ends` is checked under just that and needs the timer only.
`QuietRunSigns` needs more, because a lost message may leave a signing
unfinished, and says so itself: its hypothesis `Reliable` is that calls and published messages arrive
eventually. It also supposes (`Quiet`) that no node crashes, that no session fails by its
deadline, and that no message reached a node before its session was there; each of these
really stops a signing in the program, since sessions do not get what was
received before they subscribed.

## 6 Proofs

The first part of `InstanceLemmas` states what each operator of the store keeps or returns; the
theorems of `StoreMachineProofs` hold for every number of parties and every set of
bodies, from `NAssumption` (n is positive) and `BodyAssumption` (None is no body):

| Theorem | Property |
|---|---|
| `TypeCorrect` | `TypeOK` |
| `CounterExact` | `CountExact`: `msgs_left` is the number of empty slots |
| `NoHoleHandedOut` | `NoHoles`: what `finish` returns has a body in every slot |
| `BlameIsExact` | `BlameExact`: blame names as many parties as it counts, none of them the owner or heard already |
| `FirstBodyKept` | `FirstBodyStays`: no call replaces or drops a body |
| `IndexesFromZero` | (not among the runs) the index numbers parties from zero: i is the body of party i + 1 |
| `StoreIsMailbox` | `ImplementsMailbox`: every step is a step of `Mailbox` |

The invariant they rest on, `IInv`, adds to the types that the counter is the
cardinality of the set of empty slots, and that the messages handed over are those of
the store as it was when it was consumed. The counter has to be in it: `finish`
looks at the counter only, so that its result has no hole follows from the
equality and not from any type. Filling a slot removes one element from the set of
empty ones (`PushFillsOne`), the only place where cardinality is argued about. Blame
and the refinement rest on the bijection between the slots and the
other parties (`SlotOfParty`, `PartyOfSlot`).

The second part does the same for `Musig2Instance`: each operator, `HandleIncoming` and `Proceed`
included, keeps an instance in order (`InstOK`), given that what it is told really was
published. `InstOK` says that a filled slot holds the body that came from the slot's party and that every
message of a kind that was heard is in its store; what is queued and what has been sent; and for each round
what the context is made of (`KeysFrom`) and where the shares of a result come from (`SharesFrom`). It
supposes nothing of the senders: they may disagree on n, on the indices and on the message, as sessions with
different member lists do. Four modules build on it.

The theorems of `AsyncProtocolProofs` hold for every number of parties, every
`Self`, every set of streams of the peers and every capacity:

| Theorem | Property |
|---|---|
| `TypeCorrect` | `TypeOK` |
| `InstanceIsThere` | `NeverMissing` |
| `DeadlineIsCurrent` | `DeadlineOfThisRound` |
| `SignatureIsOurs` | `SignatureIsOfThisSigning` |
| `WaitsForAReason` | `WaitsForSomething` |
| `BarrierHolds` | `ShareAfterAllNonces` |
| `BlameIsExact` | `BlamesTheSilent` |

Assumed are `PartyAssumption`, `MessageAssumption` (the two signings differ in their message),
`StreamsAssumption`, `CapacityAssumption` and `NoneAssumption` (None is no body, store or
instance; TLA+ has no other way to say that `None` differs from a record). The parts of the
invariant are:

* `Places`: the instance is in `state` or in the blocking
  task, never in both or, before the end, in neither, and it is in order.
* `Timer`: once `run` has started,
  the deadline is set exactly if the round last seen is 2. This is
  what `refresh_timer` keeps although it sets the deadline only on a change, and it does not follow from
  `DeadlineOfThisRound`, which speaks of the moment of waiting alone.
* `Waiting`: before it flushes and while it waits, `proceed` has nothing left to do (`Settled`), and while
  it waits the queue is empty. The reason is that one `proceed` passes as many rounds as it can.
* `InOrder`: what has left is nothing, the nonces, or the nonces and the share, the share only when the nonces
  of all others are here (`OneContext`: each peer has one key, so there is one context).
* `NothingLost`: without an overrun each message that arrived is unread or heard. It is
  what makes the blame exact; `Heard` counts a message that was refused as a duplicate too.
* `Network` and `Ended`: where messages come from, and what `run` may have returned.

The theorems of `SigningProofs` are about all nodes at once, with any number of them, any commands, any
capacity, any crashes. The first two hold for any member lists, i.e. also for sessions that count different
signers and use different indices:

| Theorem | Property | Under |
|---|---|---|
| `TypeCorrect` | `TypeOK` | |
| `OnlyUnanimous` | `Unanimity` | |
| `OneKeyList` | `SameKeyList` | `OneList` |
| `NobodyWaits` | `NobodyLeftWaiting` | `OneList`, `OneEach` |
| `Refines` | `ImplementsMultiSig` | `OneList`, N >= 2 |
| `FailsOnlyLate` | `OnlyTimeoutsFail` | `OneList`, `OneCommand`, `Room` |
| `BlameIsFair` | `BlamesUndelivered` | `OneList`, `OneCommand`, `Room` |

`OneList`: every session lists all other nodes, the situation the docs describe; `signing_peers` shows what happens without
it. `OneEach`: different commands have different messages (a message carries no session, so the
sessions of two equal commands on one node are indistinguishable). `OneCommand` and `Room` (a channel for 2(N - 1)
messages, all that one signing can send to a node) are the conditions under which nothing is out of
order and nothing is overrun: the 50 places of the program are enough for 26 nodes. N >= 2: a node without peers puts its
nonces and its share out in one flush, which is two steps of `MultiSig`. The instances `signing_one`
and `signing_two` satisfy the hypotheses of the theorems whose properties they check.
Besides the assumptions on the constants, `NoneAssumption` says again that None is no body and no store.

The invariant is `IInv`: for each session `InstOK` relative to the messages that came to its node
and those it has sent itself (`SessionOK`), where its executor is (`Phase`), and, for a signature, that its
keys and shares came in and its own share went out (`Ended`). From this `Unanimity` follows
because a share or nonces under a key are sent by the session of the node with this key only (`OwnMessages`), and because a
sum with a share missing for some key of its context does not verify; distinct keys follow
from each session having one index. A list of keys is not enough, it has to be tied to where
each key came from, since the keys of a context are those of the senders that
happened to use the indices 1 to n. For `Refines` it takes in addition that a session puts out at most
one message per flush (`Single`) and that all have shared when one has signed (`Behind`). For the last two theorems a second
invariant, `OneInv`, is needed: a live session has no message on its channel that it has heard
already, has heard every share that is not on it, and was never overrun (`Attentive`). That a channel never
overflows (`RoomLeft`) is the pigeonhole principle: the unread messages are different, and
there are only two of each other node. TLC has checked `IInv` and `OneInv` on the signing instances
before they were proved.

The theorems of `CryptoProofs` hold on every curve that `CurveAssumption` allows (y^2 = x^3 + b over a prime field, a group of prime
order in which a point is the multiple of a generator), for any number of parties, private keys, message and hash:

| Theorem | Property | Under |
|---|---|---|
| `OnlyEdgesFail` | `FailsOnlyAtEdges` | `HashIsScalar` |
| `SignsAsOne` | `OneSigner` | `HashIsScalar` |
| `VerifiesTheSum` | `OnlyTheSumVerifies` | `HashIsScalar` |
| `OneEncoding` | (not among the runs) `parse` gives a point for its own serialized form and for no other bytes of that tag | |

`HashIsScalar`: a hash is a scalar other than zero. The code parses its digests as private keys (an `expect` in the key
aggregation, an error elsewhere; `verify` reduces its challenge instead), which makes a difference
with probability 2^-128; the hash of the run `crypto` satisfies it. `WordAssumption` and `ErrAssumption` say that
a word has room for coordinates and scalars, and that an error is neither a number nor a share.

What a party computes are sums over sequences of any length, so the proofs need induction. The induction theorems
of the library take a predicate as a parameter, which the provers cannot instantiate. `Induction` is therefore stated over a
set and derived from the pigeonhole principle (FS_Injection): if a number were missing from the set, counting on would be an injection
of the elements below it into themselves, and so onto, although nothing counts on to 0. From it follow `Least`, Euclid's lemma (`PrimeDivides`), so that scalars have no
zero divisors; that FoldLeft has its partial results (`FoldExists`, `AddFold`), although its definition recurses over sets of positions; and that a sum does not
depend on where the own term is added (`SumOfOthers`). Scalars are compared as integers up to
multiples of Q (`Same`), because the code and the single signer reduce at different places. A party's sum in the code is an error
as soon as it meets zero or infinity on the way (`AddAll`), and that depends on the order; its value, if it has one, does not.
So parties may fail alone, but those that go on have the same aggregated key, R and challenge (`ParamsAre`). For `OnlyTheSumVerifies` the sum of the
shares is c times the aggregated secret plus the nonces with the sign of R, and a second scalar with the same
multiple of the generator is the same scalar. The run has only two steps; the invariant `CryptoInv` says what each has computed.

The theorems of `NodeProofs` are about the main tasks of all nodes, with any number of nodes, any lines typed, and
connections that are made, crossed and lost in any order:

| Theorem | Property | Under |
|---|---|---|
| `MembersAreTheDialed` | `ListsWhomItDialed` | |
| `SignersAreCountedOnce` | `NobodyTwice` | |
| `IndicesAgree` | `SameSignersSameOrder` | |
| `CallsAreImplemented` | `ImplementsCalls` | |
| `OnlyInputStops` | `OnlyInputStopsANode` | `Room` |
| `OnlyTheNumberIsSigned` | `SignsTheFirstBytes` | |
| `BytesAreANumber`, `FullWidth`, `OnlyTheFirstBytes`, `ZerosInFront` | (not among the runs) what `format_musig_msg` does to any command, for every width | |

`Room`: there are finitely many commands, and each of the loop's channels has the capacity for all of them, one call or
`Sends` messages per command. It is what a loop needs that may be held up until every session has sent all it has; with
the 50 places of the program it holds for 25 commands. `node_loop` checks the same property with channels of exactly this
size, and its mutant shows that one place less is not enough. `NoneAssumption` says that None, of a node
that runs, is no reason to panic.

The invariant `IInv` has two halves, which no step disturbs both (`Apart`). `Lists` relates three views of a connection
that a node dialed: what is connected, what the node has been told, i.e. lists, and what its swarm has still to tell it
(`Link`, and `InTurn` for the order). `ListsWhomItDialed` speaks only of nodes without pending events and is not inductive:
a list is right because the event that repairs it is on its way. It needs that a connection is dialed by its
listed end only, and that floodsub does not dial a second time while a report of the first is pending; then
an address is added once (`EventKeepsLists`), and `RemoveFirst` finds what it is to remove (`ClosedIsListed`), so that
neither `unwrap()` panics. `Typed`, `Commands` and `Answers` follow a command: it is read once, there is one call of it
(`OneCall`), the caller has its session before the call is out, and a node has either heard nothing of it, or has the call
unread, or has one session for it. `Answers` is what lets `CallsAreImplemented` count at most one session, and, with
the pigeonhole principle, `OnlyInputStops` conclude that unread calls fit (`FloodIsRoomy`); for the other channel
`RoomInv` bounds what is unread by what all sessions have sent (`SentOut`).
That sessions of one number sign the same bytes takes that a session keeps the message of its command (`SignsItsCommand`), that
numbers written in base 256 with equally many digits agree only if the digits do (`SameDigits`), and that zeros in front do not count (`MessageNumber`).
The sort is `Sorted`, defined by the order it establishes: `SortedRight` proves that such an order exists, from the rank of
each element, and `OneOrder` that there is only one. TLC has checked `IInv` and `RoomInv` on the node instances
before they were proved.

The theorems of `AsyncSimulationProofs` hold for any number of parties, whatever they are given to sign, any capacity and
any number of calls of `run`, with parties that are added late or never:

| Theorem | Property | Under |
|---|---|---|
| `InOrderOfAdding` | `AnswersInOrder` | |
| `NobodyFarBehind` | `BacklogBounded` | |
| `NeverOvertaken` | (not among the runs) no waiting party is overtaken | `Capacity >= 2N - 1` |

The first is about every return of `run`: one entry for each party added so far, what its task ended with
or an error. It rests on `Caller`: what `run` has of results and what it still awaits are together the parties in their order,
and a task that is done keeps its outcome. The backlog is not inductive, it is about who has sent what: `Once` says that the
channel never carries two messages of one kind from one party, which a flush keeps because a queue holds only what has
not left (`QueueIsFresh`, from `InstOK`). So there are at most 2N messages (`LogFits`, by counting), and a party that has
read none of them cannot have made its share, having heard no nonces (`NothingReadNoShare`; alone it would not
wait, `NobodyWaitsAlone`). With the 32 places of the program `NeverOvertaken` covers 16 parties. `NoneAssumption`: None is no
body, no store and no list of handles.

The theorems of `SimulationProofs` hold for any number of parties, in any order and with any messages, and any number of
calls of `run`:

| Theorem | Property |
|---|---|
| `InLockStep` | `LockStep` |
| `PanicsExactly` | `PanicsOnTwoMessages` |
| `PrepareAloneMeasured` | `OnlyPrepareIsMeasured` |

Once the parties are in the vector (`Plans`), what `run` does is determined: the nonces leave in the order of the
vector, then the shares. So a state is described by how far in this one sequence of 2n messages each party has been handed
them (`View`), and `IInv` names the stages of the loop: before it, the first lap, between two laps, handing out nonces,
handing out shares, over, panicked. `LockStep` is not inductive. Within a lap one party is handed up to n messages before the next one gets any;
that it gets no more than one round ahead follows from where its prefix ends: a party that has at most the nonces has not
finished, and one that has all of them is in Round2 at least (`RoundWithin`, `TwoRounds`). That all are in one round when a lap is over
follows from their having been handed the same prefix (`RoundOf`), and that a lap does not end half-way through a round from the vector
being frozen while it is handed out. That nobody is refused follows from `NotHeard`, the other half of `View`:
a message not handed over yet was not heard. A party leaves a round exactly with the last message that it lacks,
which takes that the n indices are all of 1 to n (`EverybodyThere`, the pigeonhole principle). `FinishedAgree`
and `SameAgree` tie the panic of the last round to messages that differ, whoever is handed the share first. `NoneAssumption`:
None is no body and no store. TLC has checked `IInv` with two and three parties before it was proved.

Only model-checked is liveness, which with fairness and ENABLED is beyond the proof system: `Round2Ends`, `QuietRunSigns`,
`CallIsAnswered`, `FirstRunEnds`, `RunReturns` and `NoncesInThenReturns`. Every other property of a passing run is a theorem.

## 7 Disagreements with the docs

Shown by a run that TLC finds violated:

* `executor_unexpected`: an unexpected message is the example of a non-critical error
  (`state_machine.rs:32`), but `OutOfOrderMsg` aborts the session. It takes a second
  command on the same nodes.
* `signing_peers`: "each peer that has established a connection with the current node
  will participate in the musig2" (`node.rs:131`). Each session counts the peers of its own node
  and takes whoever has an index in that range. Where 1 and 3 know only 2, and 2
  forwards their messages, 1 and 3 end with a signature of the two of them, without 2.

Read off properties that hold:

* The index of `BroadcastMsgs` takes `i - 1` for party i (`IndexesFromZero`), its doc says
  "Takes party index i ... (1 <= i <= n)" (`broadcast.rs:20`).
* `current_round` is documented to be increased by 1 (`state_machine.rs:105`); one
  call passes up to three rounds (`InPrepare`, and `DeadlineOfThisRound`, which allows for it).
* `start_musig2` is said to "get all connected peers" (`node.rs:64`); it gets those this node
  dialed (`ListsWhomItDialed`), not those that dialed it.
* `Simulation::run` is documented to return outputs or an error (`simulation.rs:100`); called a second time
  it never returns, because a party that was picked is Gone, which is neither finished nor
  willing to proceed. `FirstRunEnds` therefore speaks of the first call; `AsyncSimulation` answers
  a second one with an error for each party (`AnswersInOrder`).
* `AsyncSession::run` is documented to continue until each party has finished
  (`session.rs:59`). It returns when its own party has.

## 8 What is not modelled

In `protocals/`: hex strings, the 33 byte form of a key and the 64 bytes of a `Signature`, which no
signing uses; the hash, which is a constant. In `party/`: `Musig2Party::add_instance`, `contains_msg_from(0)` and the rest that
has no caller; the benchmark's times; a `run()` future of a simulation that is dropped half-way.
In `p2p/`: discovery itself, expiry from the partial view and the transport, which are libp2p's.
Command-line parsing, configuration and key files are clap's or plain I/O. `FromRound1` and `FromRound2` leave out
the errors that `rounds.rs` passes on with `?`: they need a sum that is infinity or a number that is zero or no scalar, which
honest keys give with negligible probability; `crypto` says exactly when. Errors of closed
channels (`Error::Send`, `Error::RecvEof`) need the node to be gone
while its session still runs. Wording, logging and the JSON encoding of messages are left out.
