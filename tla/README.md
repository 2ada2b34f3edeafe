# Formal models of sark

sark is the HTTP layer of the dope stack: HTTP/1, HTTP/2 and HTTP/3 servers and
clients, WebSocket and gRPC, all of them single-threaded state machines that an
event loop drives. Nothing in it takes a lock; what makes it hard is that every
machine is entered again and again, from the decoder, from the application and
from the transport, in an order the peer largely decides, and that each entry may
stop half way for want of credit, output room or a queue slot and be retried later.

This directory models the parts where that matters most, checks them with TLC on
small instances and proves the central results with TLAPS for all instances.

## 1. Inventory

The workspace is a set of Rust crates. Line references are in `PROJECT.json`
(`map`); a component's `note` there says how much of it is covered.

| component | state it keeps | operations | what must be right |
|---|---|---|---|
| `h2/src/flow.rs` windows | per direction and stream a window; held-back credit; reserved credit | spend, reserve, accept, cancel, credit, adjust | conservation; never past the peer's limit; no wrap of the unchecked i32/u32 arithmetic |
| `h2/src/conn/machine/decoder` DATA path | receive windows, pending WINDOW_UPDATEs | deliver, refuse, discard for a past stream | every outcome returns the connection's credit |
| `h2/src/conn/machine/streams`, `ops/state.rs` send path | send windows, waiting streams, retained DATA | send, poll wake, settle, cancel, SETTINGS | exact reservations, no lost wake |
| `h2/src/stream` lifecycle | RFC 9113 state | send, recv, late effect of a retained head | directions independent |
| `h2/src/conn/registry`, `ingress/events.rs`, `ready` | slab of records, index, event queue, wake queue, reset chain, one retained head, duplex holds | one per frame kind, event take, response, cancel, drain | all of these describe the same streams; slots neither leak nor are reused early |
| `h2/src/conn/outputs` | byte ring, ledger of retained frames, account of bytes | copy, retain, cancel, clear, select, commit | frames whole and in order; exact account over the wrap |
| `core/src/manifold/schedule` | seven lanes, policy bits, budget, permits | insert, transition, remove, wake, drive | no lost wake, one turn a round, no starvation |
| `core/src/deadline` | three phase lanes, a wake, noted progress and one heap key per exchange | ten transitions, schedule, cancel, cancel one, poll | expiries at the real instant and in order although renewal is lazy |
| `core/src/duplex`, `core/src/body`, `core/src/decode`, `core/src/life` | session machines, body budgets, decode progress, typestates | | on the plan, see section 2 |
| `h2` connection phases, HPACK, server runtime, client role | | | partly (GOAWAY); rest on the plan |
| `h3/src/qpack`, `h3/src/conn/io` around it | both dynamic tables, the ledger of outstanding sections with its frontier of buckets, deferred replies, blocked streams, feedback | encode, publish, decode, acknowledge, cancel, increment, wake | both ends mean the same fields; the blocked-stream limit holds; nobody waits for what has come |
| `fiber/src/client`, `client/src/protocol` | pool of connections, ready list, waiters, dials, leases, lanes of replies, retry state | claim, dial, submit, reply, fail, expire, retire, redirect | what a failed call reports as safe to replay is; no connection or caller is forgotten |
| `ws/src/inbound`, `ws/src/server` | assembled fragments, awaited bound, accumulator, pending output, phase | chunk, send, end of input, timeout | messages and answers exactly as the frames mean, whatever the cuts |
| `grpc/src/client` session | table of calls, places and budget of replies, pending event, queued requests | start, send, finish, drive, poll, cancel, one per event | stream, record and place agree; replies whole and in order; ingress never stops for good |
| `h1`, `h3` frames and server, `ws` client, `grpc` server and manifold | protocol sessions | | on the plan |
| `http`, `json`, `gen`, `grpc-build`, `sark` | none between calls | parsing, formatting, code generation, re-exports | not modelled |

How the parts meet. The transport hands bytes to the h2 decoder, which moves
stream records of the registry, gives credit back through the flow windows and
queues events. The application takes events, answers through the registry and
the send path; DATA is copied to the output's ring or retained in its ledger,
then the scheduler chooses which stream may produce next. When the transport has
taken a retained frame the reservation is settled; when a stream is retired it is
cancelled, which reopens the connection window for the others. Deadlines are
moved by the exchange's life events and polled by the event loop. On the client
side a fiber claims a connection of the pool or dials one, submits, and decides by
the failure whether it may try again; a gRPC session keeps its calls over an h2
connection, fed by its events and driven through the same scheduler. HTTP/3 replaces
HPACK by QPACK, whose two ends meet on streams that QUIC does not order.

Hard behaviours: frames for streams that are already gone; windows that SETTINGS
makes negative while DATA is reserved; a RST_STREAM that does not fit the output;
a response head that waits in the encoder while its stream moves on; slots named
from four places at once; wakes that arrive while a drive is running; partial
writes; position arithmetic that wraps; deadlines that sit in the heap under an
old key; field sections that overtake the insertions they need; a retry that races a
late submission; a frame looked at five times before it is whole; an event that waits
for one call's room while the slot of its stream already belongs to another. Each is a hazard of `PROJECT.json` with the properties aimed at it.

## 2. Plan

Done, in this order: flow arithmetic and receive side with proof; stream lifecycle
with proof; registry; send side; output; scheduler; deadlines with proof; QPACK from
encoder to decoder; the client's pool, leases and retries; the WebSocket server; the
gRPC client's calls; then the proofs of the scheduler, the send side, the client, the
output and the registry, on a library of lemmas about queues.

Next, most important first:

1. Proofs: the gRPC client's `PlacesExact`, its budget half first, with the sums over
   places restated over `Queues`.
2. `H2Timers`: the controller of `h2/src/server/task/timers.rs` (raw-head timer,
   head admission, critical turns) on top of `CoreDeadline`.
3. `H2Conn`: connection phases, preface, SETTINGS acknowledgement, drain of a
   quiet connection, the rapid-reset budget; then the composition
   registry + send side, so that a cancelled record and its retained DATA are one
   behaviour.
4. `CoreDuplex` and body credit: input before FIN, one FIN, nothing after finish,
   budget returned when a body is dropped half read.
5. `H1Session`; the gRPC server's exchanges; the gRPC manifold's cancellation queue.

Abstract specifications: `H2Credit` (what a flow-controlled sender promises its
peer), `H2Wire` (an output queue), `CoreTimers` (eager timers).

## 3. Modules and the code

**H2Flow** holds the arithmetic of `flow.rs` as operators; a send window is the
pair `value`/`committed` of the code. `Initial`, `MaxWindow` stand for 65535 and
2^31-1.

**H2RecvFlow** puts the server's receive windows against the peer's belief, with
DATA, WINDOW_UPDATE and SETTINGS in flight between them. One action per outcome of
the DATA path (`DataIdle`, `DataConnStall`, `DataPast`, `DataRefused`,
`DataStreamStall`, `DataAccepted`), plus opening, local end and local reset. The
peer may overrun its windows by `Overshoot`; `conduct` records whether it has.
`ConformingPeerAccepted` excludes configurations that advertise less than the
default window, which a conforming peer may exceed before it has seen SETTINGS.

**H2Stream** is the lifecycle as functions; **H2Registry** uses it. The registry's
`rec` is the slab, `index` is `by_id`, `resets` the intrusive chain, `wakes` the
wake queue, `head` the encoder's retained head, `events` the event queue, `app`
what the application still holds. A drive of the decoder is the mode `"decode"`,
during which the application does not run. Frames that meet pressure change
nothing and are retried, so their actions are disabled. Windows are reduced to
`"Stalled"`/`"Open"` here; their arithmetic is H2SendFlow's.

**H2SendFlow** is the send path: DATA copied (`Spend`) or retained (`Reserve`),
`Take` by the transport, `Discard` and `Reset`, SETTINGS in both directions of
change, connection and stream WINDOW_UPDATEs with their overflow checks, and the
connection's wake. **H2Credit** is the promise, reached with
`conn <- peerConn, stream <- peerWin`.

**Queues** is what the o3 lists and rings do that Sequences lacks (unlink, drain by a
predicate, sift in place, add up), written as functions of positions so that a proof can unfold them.
The send side, the output, the scheduler, the registry and the client use it.

**H2Outbound** is the output: a ring of unit bytes, a ledger of retained frames
with marks, positions modulo `Modulus`. `Write` is selection and commit of a full
write, `WriteShort` one of which the cursor took less, `Drain` the plain take.
**H2Wire** is the promise; the mapping `Merged` weaves the retained frames into the
ring's bytes at their marks.

**CoreSchedule** models the lanes, the policy bits and the three drives
step by step: `StartDrive`, `BeginRound`, `Turn`, `Skip`, `NoPermit`, `EndRound`.
What a turn does is the driver's business; any outcome its contract allows is
possible. Lanes are sequences (the intrusive lists are o3's).

**CoreDeadline** has the three lanes, the wake, the noted progress and the heap
key of every exchange, one action per `Transition` and per `Book` operation, and
`Renew`/`Expire` for the two results of `poll_due`. An operation on a key whose
slot is out of range or held by another exchange changes nothing in the code and
is not an action. **CoreTimers** is the promise; the mapping gives `BodyIdle` the
later of its item and the noted progress.

**H3Ledger** is the encoder's ledger as a record with functions: sections in stream
order, each in its bucket; `Advanced` is the walk of `frontier.rs` over the buckets an
advance can change. **H3QpackTable** holds both tables' arithmetic: drafting a section
with its insertions and evictions, the wrapped required count and the base, and their
decoding. **H3QpackReceiver** is the decoding half of a connection: blocked streams,
the bounded feedback, the lanes in which a stream waits to be driven again. **H3Qpack**
composes them with the QUIC streams between two ends: a client that commits a section
with its instructions at once, or a native server that defers the reply until its
instructions are published.

**ClientRetry** is the replay decision, **ClientReuse** the lease of an idle
connection; **FiberClient** composes them with the pool: directory, ready list, wait
queue, lane of replies per connection, and calls as fibers that claim or dial, submit,
read, retry, follow a redirect or are dropped. A timer may fire and a connection may
fail between any two steps. A fixed and a dynamic connector are initial states of one
specification.

**WsInbound** is the admission of a frame by looking at a growing prefix of it, and the
assembly of fragments with the text check across their boundary. **WsServer** is the
connection around it: `Chunk`, `Send`, `Eof`, `Timeout`, with frames taken from the
chunk or from the accumulator, output that is granted short, deferred or closed, and
answers that are put back when they do not fit.

**GrpcClaims** is the slab of reply places and the budget of messages. **GrpcClient**
is the session: `conn` reduces the h2 connection to its slab of streams and its events,
`calls` is the table, `ing` the assembler with its pending event. `Step` handles one
event, or one message of one, as `Turn::step` does; `Blocked` leaves it pending. Which
requests a drive sends is open. The record of a call and its stream share a slot number
but not their end: the connection frees a slot when a frame is decoded, the table when
its event is handled.

Definitions with the suffix `_Something` and a comment beginning `Defect:` are
plausible slips of the code. They are not part of any specification; each shows
that a property would notice (`mutants` in `PROJECT.json`).

## 4. Runs

| run | instance | shows |
|---|---|---|
| `recv` | 2 streams, windows that grow from 1 to 4, the largest, so that up to a byte is held back; peer may overrun by 1; fair; 206 k states | credit conserved on every DATA outcome, both ends agree, a conforming peer is accepted, never wedged, and regains credit on every open stream |
| `registry` | 1 slot, 2 ids in turn, 2 queued events, one unit of output and one reset reserve, GOAWAY, fair; 402 k states | records, index, queues and holders agree; no `unreachable!` arm; retained head exact; reserve kept; no lost wake; events ordered and silent after cancellation; ids stay spent; resets are written and slots come back |
| `send_flow` | 2 streams, window 2 of at most 3, one SETTINGS, 2 queued frames; 2.9 M states | reservations exact through every retirement, both ends agree, no lost connection wake, the peer is never overrun (refinement) |
| `outbound` | 5 frames of 2 owners, limit 4, positions modulo 7, fair | account exact over the wrap, frames whole and in order (refinement), everything is delivered |
| `schedule` | 2 streams, 1 permit a drive, connection, egress and one stream's credit scarce, fair; 106 k states | a wake at any moment reaches its waiters; one turn per round; every ready stream gets its turn, every wait ends |
| `deadline` | 1 exchange, all phases, clock to 4, fair | heap key never stale, lazy equals eager (refinement), every expiry comes |
| `qpack` | 3 streams, 3 sections, a table of 2 entries whose count wraps, 1 blocked stream, 1 abort, feedback of 2; client and native server | the ledger's frontier is exact, neither end accuses the other and every reference finds its entry, a quiet connection has nothing undone |
| `fiber` | 2 calls (one idempotent, one following redirects), 1 connection slot, lane of 2, 2 faults; fixed and dynamic, with and without reuse; 1.6 M states | what a failed call reports as uncommitted is; the ready list is exact; no caller, dial or connection is forgotten; a connection is never used past its lease |
| `ws` | every stream of 3 frames out of 6 kinds, or 2 with one that ends the connection, every cut into chunks, output of 2 sizes; openings good, bad, cut short and longer than an opening may be; 154 k states | an opening gets the answer it deserves, handler and peer get exactly what the committed frames mean, the awaited bound is the awaited frame's, nothing is stranded |
| `grpc` | 2 calls of every shape, 2 slots, room for 1 result, 1 event, 1 message and 2 requests, 4 frames of the peer; 2.3 M states | streams, records, places and budget agree, a reply is what the peer sent, and ingress stops only where a caller has something to take |
| `grpc_orphan` | the same, expected to fail | `CapacityReturns` is violated: a finding, see below |
| `grpc_reset` | the same, expected to fail | `ResetsStayLocal` is violated: a finding, see below |

Why the bounds are enough to be interesting. A window of 4 has a refill threshold of 2 and grows from 1 by SETTINGS
and the connection's first WINDOW_UPDATE, so credit is held back, returned in part, moved
in flight and overrun; the theorems of section 5 hold for windows of any size. Two streams
suffice for what is shared (connection window, lanes), and one slot for reuse: the second
stream can only get what the first left. What streams of the registry have in common while
they are open together (index, wake queue, chain of resets, event queue, output reserve) is
left to the theorems of `H2RegistryProof`, which hold for any number of slots; TLC adds the
liveness, which is a matter of one slot. In the same way `schedule` asks for liveness in
small drives, and `CoreScheduleProof` covers any permits, all three drives and records that
are requeued between drives. One unit of
ordinary output makes every frame meet pressure. Five frames over positions modulo
7 pass the wrap. A clock to 4 with windows of 1 and 2 lets a body make progress,
be renewed at its old key and expire later; the order across exchanges is a theorem.
A QPACK table of two entries evicts at the third insertion and its counts wrap modulo 4;
the frontier's counts of four bits pass several bucket boundaries. One connection slot
makes two calls compete, pipeline and wait; one place in every gRPC queue makes each
undelivered reply stop the other call's.

Cuts. In `registry` a stream that runs out of credit has a plain body and no session, and
meets no GOAWAY (`PlainStalls`). In `recv` the search ends behind a peer that broke a rule
once what it had in flight is decoded (`BreachIsLast`). Named bounds: `Overshoot`, `MaxId`, `MaxActive`, `MaxResets`,
`EventCap`, `MaxQueue`, `MaxLen`, `MaxSettings`, `MaxFrames`, `MaxTime`,
`MaxSections`, `MaxAborts`, `MaxFaults`, `MaxHops`, `Asks`. Deadlock
checking is off where a bound ends the behaviour or the peer may simply go quiet;
the scheduler's run keeps it on.

Fairness, and why the code gives it.

- `H2RecvFlow`: a readable connection is decoded and the transport delivers both
  directions (weak fairness for decoding and each delivery).
- `H2Registry`: the decoder's drive ends (weak); a server turn lets the application
  take events, sessions release what they hold and the transport drain, again and
  again although the decoder may disable each for a while (strong).
- `H2Outbound`: a writable transport takes at least a frame header's worth
  (weak, of `Write(HeadLen)`).
- `CoreSchedule`: a drive that was started runs to its end, and the loop starts
  another (weak); the carrier replenishes what it exhausted (weak) and `resume`
  collects the wake (strong). Re-insertion by the driver is left out of the fair
  specification: an application may renew itself for ever.
- `CoreDeadline`: the loop polls while the earliest key has passed (weak).

An observation rather than a defect: with one permit per drive and egress that is
scarce every time, control turns may use up the room before data is looked at.
`EveryTurnComes` therefore excepts streams while egress is shut.

Where the gRPC client departs from its tests. Two runs are expected to fail; each is a
finding of `PROJECT.json`.

- `grpc_reset`, `ResetsStayLocal`. grpc/tests/grpc_response_completion.rs:58 expects
  "stream-local resets". RST_STREAM frees the stream when it is decoded
  (h2/src/conn/machine/decoder/data.rs:100), but the record and its queued requests go
  when the event is handled (receive/turn.rs:307). While that event waits behind one
  whose delivery has no room, a drive gives the call a turn; its send fails, the reset
  in `settle` (state/output/driver.rs:246) fails as well, and the drive as a whole
  returns the error: to the event loop, for the connection, or to another call that was
  sending, which is cancelled (`DriveFails`).
- `grpc_orphan`, `CapacityReturns`. grpc/tests/grpc_calls_retire.rs:195 says of a reply
  that comes before its request ends: "early unary response and open request are reclaimed
  together". When the peer has also reset the call, its record is gone:
  `request::Session::finish` and `bidi::Session::finish` (call/request.rs:87,
  call/bidi.rs:121) fail, and drop the only handle of the call on the way out. The
  place with its terminal delivery is then out of reach for the life of the connection
  (`SendFails`, reply `"Lost"`).

What `grpc` checks is exact about them. `PlacesExact` lets a place be without an owner in
that one case only: the whole handle went in a failed finish after the terminal delivery
was made; no cancellation, reset, GOAWAY or refused start leaves one behind. `NeverStuck`
looks at each step in which ingress stops at an event: some delivery must be there that its
owner can poll, or such a lost one. An event that waits is looked at again when a reply is
polled or cancelled through `State`, and otherwise by the next turn of the event loop
(`Resume`): the cancellations of `state/mod.rs:243`, `282` and `313` do not look themselves.

## 5. Proofs

All are checked to the last leaf, from the named assumptions of the modules only
(`FlowAssumption`, `RecvAssumption`, `DeadlineAssumption`, `SendAssumption`,
`ScheduleAssumption`, `ClientAssumption`, `OutboundAssumption`, `RegistryAssumption`: types
and ranges of the constants). Where an invariant of a run is not inductive, the strengthened one (`IInv` of
the proof module) was first checked by TLC on the run's instance.

**H2RecvFlowProof.** `Conservation`, `Agreement`, `Accepted`, `Unwedged`, `Typed`
for every set of streams, every target and every peer. None is inductive alone: a
stream enters `CreditConserved` when it opens, so the invariant `IInv` also says
that unopened streams have the advertised window and nothing held back (`View`);
and that a peer has stayed within its windows shows only while its own counters
are non-negative (`PeerConforms`). `NeverWedged` follows from the views and the
threshold: held back is less than half a window rounded up, so at least one unit
is left.

**CoreDeadlineProof.** `Implements`: the lazy agenda implements the eager timers,
for any exchanges, windows and delays, with `KeysExact`, `ProgressKept` and `Typed`.
All operations that re-key the heap are first shown to be moves of one exchange
(`OperationMoves`), which keep the invariant (`MovesKeeps`) and are eager changes
(`MovesChange`). The invariant adds `Recent`: neither the idle deadline nor noted
progress is more than one window ahead. Without it `BodyProgress`, which refuses to
note an instant that is not later than the noted one, could not be shown to move
the idle instant to exactly now plus the window. `ExpireIsEager` needs that the
minimum of a lane precedes everything in it and that only the idle deadline can be
due later than its item says.

**QueuesProof** has no theorem about the system, only the lemmas the next five share:
what `Unlink`, `Append`, `Tail`, `Drop`, `Sifted` and `\o` do to the elements, the order, the
distinctness and the sums of a queue. Induction over a queue is done with sets: `NatInduct`
and `QueueInduct` say that a set of queues that holds the empty one and is closed under
`Append` holds all, and each use names its set. `RunExists` is the existence of the
recursive functions behind `Sums`, `Drop`, `Sifted` and `Woven`, from which their recursion
equations follow.

**CoreScheduleProof.** `NobodyWaitsInVain` and `NoSecondTurn` for any streams, limits and
permits, from `ScheduleInvariant`. A wake is owed lane by lane (`LanesOwed`), which every
move between lanes must keep; `TypeOK` alone does not say which lane stands for which
resource. That a round serves nobody twice is about the part of the data lane that lies
before the tail the round remembers: `PassOrder` says the tail is still in the lane and
that nobody up to it has been served, although turns put streams back behind it and wakes
add to the same lane; `HeadsReady` that a control turn the round announced still has its
stream.

**H2SendFlowProof.** `WindowsExact`, `ConnWakeOwed`, and the refinement `NeverOverrun` to
`H2Credit`. The invariant is a ledger over sums along the queue: for the connection and
for each active stream, committed credit is the peer's window less what is copied plus what the
acknowledgements on the way will move, and value is that less what is retained. The
totals do not show that a frame still fits when it arrives, since a SETTINGS behind it may
take the window below zero; the invariant therefore has `Fits`, a statement for every
place of the queue, and lemmas on how `Fits` survives appending, sending and cancelling
in the middle. A stream that is gone has no account left but may still have copied
frames queued, so `Fits` is kept for every stream; one not opened yet is named by no frame.

**FiberClientProof.** `SafetyKept`, `ReadyKept`, `NobodyLost` and the action property
`LeaseHonoured`, for any calls, connections, lane depth and lease. One invariant serves
all: each connection's record is consistent by itself (`SlotOK`, `LeaseOK`: what its
admission may be given what it carries and was told) and each call's (`CallsOK`: what it
knows of its own commitment); and they name each other: `LanesOK` (a place in a lane and
the call that reads it), `DialsOK` (a dialled connection and its call), `WaitsOK`,
`ReadyOK`. The operations of the pool are first shown to change one connection and the
queues in a stated way (`Touch`, `Calm`, `Offered`, `Thinned`); the actions are
compositions of them.

**H2RegistryProof.** First the stream lifecycle alone. `RetainedHeadExact`: whatever is
received while a head waits, it stays legal and its late effect is that of sending it then.
`DirectionsCommute`: the two ends of a stream may act in either order.
`ClosedNeedsBothEnds`. Then, from one inductive invariant (`RegistryInvariant`), every safety
property of the registry run: `StoreIsConsistent`, `OwnersAreExact`, `HeadEffectIsExact`,
`ReserveIsKept`, `NoWakeIsLost`, `EventsAreExact` and the action property `SpentStaysSpent`,
for any ids, slots and limits, and without the cut (`PlainStalls`) that keeps the run small.
That a cancelled exchange's events go without disturbing the others rests on `SiftedDrop`:
turning the queue around in place, as `Events::cancel` does, is dropping them.
The parts of `IInv`, and why the properties are not inductive without them:

- `Slab`: slots are reused, so no id may name two records, closed ones included, and none is
  above the highest opened; `Booked`: the index, the count of active records and the chain of
  resets each hold exactly the records of their kinds.
- `Told`: an event that waits is of a stream there was, and carries the key of its record if
  there still is one. Without it an event could be taken for one of the next stream in the
  slot, and `EventsExact` would not survive an insertion.
- `Owned`: the phase that owns a slot against the events queued and the application's exchange;
  a record in its initial phase has no event and an exchange nobody has seen, which is what
  lets the first event be queued. `Silent`: ids not opened yet are unseen, and what was
  cancelled has neither an active record nor an event.
- `Headed`: the retained head's stream is active, its exchange still waits for it, and it is
  legal to send in the state the stream is in now; that receiving keeps it legal is
  `RetainedHeadExact`.
- `Waked`: who waits for a wake has an id already opened, so that a new stream inherits none.
- `Reserved`: output is blocked exactly while the chain of resets is not empty, and nothing is
  decoded meanwhile; `ReserveKept` alone does not say why a decoder finds the reserve whole.

Most actions change one slot, and one of five lemmas says what that keeps (`StepKeep`,
`StepRemove`, `StepReset`, `StepOwner`, `StepInsert`); `FlushFact` says what a flush of the
chain of resets leaves, however much of it finds output. There is one lemma per action, then `FrameStep` and `AppStep`.
`SpentStaysSpent` compares a state and the next: a step only raises the highest id
opened, and whatever becomes active was active or is above it (`Forward`).

**H2OutboundProof.** `AccountExact` and the refinement `WireKept` to `H2Wire`, for any
modulus above the storage, any limits, lengths and prefixes. `Placed` says that distances
from the ring's position to the marks ascend along the ledger and stay within the ring;
that this survives the wrap is modular arithmetic (`Closer`: moving on by n brings every
mark that is at least n ahead exactly n closer), and it is where `Modulus` must exceed the
storage. `OwnIds`, one id per frame wherever it waits, is what makes a withdrawal take
whole frames. The lemmas on `Woven` then say what the wire order becomes when the ring
grows (`GrowWire`), a frame is retained (`RetainWire`), bytes leave (`CutWire`), the front
of the ledger leaves with the bytes before it (`TakeWire`), or frames are withdrawn
(`WovenDrop`), and each action is one step of `H2Wire`.

Only model-checked: all liveness (`CreditReturns`, `Delivered`, `EveryTurnComes`,
`EveryWaitEnds`, `EveryExpiryComes` and the registry's `ClosedStreamsGo`: fairness and ENABLED
are beyond the prover), and QPACK, the WebSocket server and the gRPC client. The meaning
these three are compared with is a recursion over what the peer sent, and their operations
use operators of the community modules that come without lemmas (folds, `SelectSeq`, sums
over sets). A proof would first restate them over `Queues`, as was done for the output and
the registry.

## 6. Not modelled

Bytes and wording: frame layouts, HPACK/QPACK string coding, HTTP/1 text, JSON,
formatting and logging. Allocation, buffer pools and the o3 containers (slab,
intrusive lists, heap) are external and modelled by what they promise. Typestates
that the Rust compiler enforces are left to it. PUSH_PROMISE exists as states of the
lifecycle only; the server never sends it. Padding is part of a DATA frame's length.
QPACK: static and never-indexed fields, duplicate instructions (the decoder reads them, the encoder never sends one), a capacity that
changes. Client: storage and identities running out, the drain on shutdown, origins.
WebSocket: the client, sessions over the duplex carrier, masking, a handler other than an
echo. gRPC: the server, the manifold, deadlines, message coding and status mapping; the
bytes of a message (the budget counts messages), and a message that arrives whole only over
several DATA frames.
The components still on the plan are listed in section 2 and, with reasons, in
`PROJECT.json`.
