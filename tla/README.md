# wgpu-remote in TLA+

wgpu-remote lets a program use a GPU that sits in another process or on another
machine. The program calls an API shaped like wgpu's; a client library turns the
calls into framed messages on a QUIC stream; a server carries them out on a real
wgpu device. Nearly every call returns before the server has heard of it, so the
program's correctness rests on order: ids are minted by the client, creations,
writes, submissions and destructions are sent without waiting for an answer, and
an error is supposed to surface on a later call.

This directory specifies the parts of the crate in which that can go wrong,
checks them with TLC on small instances and proves, with TLAPS for every instance,
the invariants those runs check and that the detailed modules implement the
abstract ones. In what follows `P` stands for
`src/crates/wgpu-remote/src`.

## 1. The system

### Components

| Component (code) | State | Operations | Talks to |
|---|---|---|---|
| Client call layer (`P/client/client.rs`) | `Client`: request id counter, `OnceCell<Arc<Mux>>`; `Mux`: pending map of oneshots, writer inbox, two tasks | `request`, `send` (hot and cold), `Mux::open`, drop; loops of the writer and reader tasks | the connection; every facade call goes through it |
| Server stream handler (`P/server/handler.rs`) | none beyond the frame at hand | `run_connection` (a task per stream), `handle_stream` (read, decode, dispatch, encode, write) | the engine |
| Server engine (`P/server/engine.rs`, `tables.rs`) | device, queue, resource tables behind one mutex | `dispatch` of every action: create, derive, destroy, write, map for read, submit and replay | wgpu |
| Facade handles and ids (`P/client/instance.rs`, `ids.rs`, `resources.rs`) | one `IdMinter` per device; reference-counted handles | create, write, read, submit; drop of the last handle ships `Destroy` | the call layer |
| Command recording (`P/client/encoder.rs`, replay in `engine.rs`) | the command list of each encoder and pass | record, begin and end a pass, finish, submit; replay | facade, engine |
| Drop-in buffers (`P/dispatch.rs`, over `resources.rs`) | map slot of each buffer, shared with its map tasks and write views | `map_async`, `get_mapped_range`, `unmap`, drops, `write_buffer` | facade, wgpu's front end |
| Drop-in queue, encoders and passes (`P/dispatch.rs`) | shared encoder recording, a pass's own list, error handler | the same as the facade's, and calls that are reported or panic | facade, wgpu's front end |
| Drop-in instance, adapter, device (`P/dispatch.rs`) | handles | translate a descriptor and forward it | facade |
| Key and certificate store (`P/transport/pki.rs`, start of `P/bin/wgpu-remote-server.rs`) | the CA's two files, `--cert-out`, the pair a process holds | probe, load, generate, save, issue, `init-ca` | file system, other processes |
| Transports and accept loops (`P/transport/`, the server binary), entry points (`P/lib.rs`) | listening endpoint, incoming connections, connection tasks | bind, dial, accept with its handshake, spawn a connection, leave the loop | QUIC, iroh |
| Frame codec (`P/protocol/codec.rs`, `read_frame` in `P/transport/mod.rs`) | the frame being written, the frame being read | encode, write, read, decode with a size limit | call layer, handler |
| Protocol types, descriptor translation, demo, tests | none | data definitions, field copies | |

Interaction is of four kinds: messages on an ordered stream (call layer and
handler, window-limited in both directions); shared memory between tasks of the
client (`pending`, the inbox, a buffer's map slot, an encoder's recording);
shared memory between handlers of the server (the tables behind their mutex, the
device's queue); and drops that act (`Destroy` of a handle, flush of a view, a
pass's commands, the abort of the writer). Server processes that are started one
after another, or at once, meet in files and in the port.

### What is hard, and what makes each part correct

* **Call layer.** Callers, writer, reader and handler interleave freely and any
  of them may end at any time. Correct means: an answer reaches the request it
  answers; no frame is dispatched twice; what was handed over earlier is
  dispatched earlier; a request that waits is answered or failed.
* **Engine.** Handlers of several sessions share the tables, and most operations
  take the lock, do something and take it again. Correct means: each session is
  answered as if it were alone with a server that carries out one frame at a
  time; nobody keeps the lock who cannot go on; a submission is all or nothing.
* **Ids and handles.** The client invents ids and the server believes them; every
  device starts again at 1, and the server never cleans up. Correct means: an id
  stands for the resource its own device created, and for nothing once dropped.
* **Mapped buffers.** A map is answered in a task that races with unmap, drop
  and later maps; a write too large for a frame is lost without a word. Correct means: a view shows what the user's calls left, and a
  map is there from the call until unmap.
* **Recording.** Recordings name resources without holding them; a pass reaches
  its encoder only when it is dropped. Correct means: what the device executes is
  what the user said, in that order, and a resource that is kept is found.
* **Key store.** A start probes two files, reads or writes them in several steps
  and may die between any two; others may be started meanwhile. Correct means: a
  certificate that was announced is the one every later server can prove, and the
  one clients find in `--cert-out` is the listener's.
* **Accept loops.** `accept` awaits a handshake before it takes the next
  connection, and clients refuse, fall silent or leave. Correct means: who trusts
  the server is served in turn, and nobody's failure ends another's connection.
* **Codec.** The stream has no frames, is finished when its half is dropped, and
  breaks anywhere, and the other end need not be this code. Correct means: whole
  frames, in order, all of them unless the stream breaks; both ends agree on what
  is too large; and a reader stops at what it cannot decode.

`PROJECT.json` lists each hazard with its source line and the properties that
guard it.

## 2. The modules

| Module | Role |
|---|---|
| `RpcSpec` | Abstract: an at-most-once, first-in-first-out remote call. |
| `Mux` (`MuxMC`) | `client.rs` against `handler.rs`. Implements `RpcSpec`. |
| `MappedBuffer` | One drop-in buffer: handle, map slot, map tasks, views, its actions on the stream, the server's side of each. |
| `Facade` | What users of the facade ask: ids, handles, the frames they issue. |
| `Alone` | Abstract, extends `Facade`: every session alone with a server that carries out a frame at a time. |
| `Engine` (`EngineMC`) | Extends `Facade`: the server's handlers step by step. Implements `Alone`. |
| `Sessions` (`SessionsMC`) | Devices one after the other, reconnections and restarts, against tables that keep everything. |
| `Tape` | Abstract: an encoder is a tape of commands, executed as said. |
| `Recording` (`RecordingMC`) | Encoders and passes down to replay. Implements `Tape`. |
| `Link` | Abstract: one direction of a stream, for frames. |
| `Framing` (`FramingMC`) | The codec and the loops around it over a stream of bytes. Implements `Link`. |
| `KeyStore` | Server processes up to their accept loops, and the files they share. |
| `Serving` (`ServingMC`) | Extends `KeyStore`: clients that pin and dial, the accept loops. |
| `QueueFacts`, `MuxProofs`, `MappedBufferProofs`, `EngineProofs`, `RecordingProofs`, `FramingProofs`, `ServingProofs`, `SessionsProofs` | Theorems and their lemmas. |

The layers are stacked by what the lower one has been shown to promise. `Serving`
says which connections come to be and how they end, from outside a connection.
`Framing` establishes that a stream carries whole frames in order and loses only
a suffix, and that only when it breaks; so `Mux` puts frames on the wire whole
and lets `Disconnect` cut the wire between two of them. (An aborted writer leaves
half a frame and the end of the stream behind it; the receiver takes that for the
end alone, which is `DropMux`.) `Mux`
establishes that a session's frames are dispatched in the order in which they
were issued and at most once; so `Engine` represents a session's stream by the
one frame its handler takes next, and `MappedBuffer` and `Recording` use one
ordered sequence `wire`. `Engine` establishes that handlers do not interfere as
long as sessions create different kinds; so `Recording` and `MappedBuffer` let
the server carry out a frame in one step. Where the lower layer breaks its
promise (the violation runs below) the upper results do not apply.

An operator named `<Action>_<fault>` is that action with a plausible mistake. No
specification uses it; `PROJECT.json` names, for each property, such an operator
whose substitution makes TLC find the property violated.

### Mux

A task's `request` is `Mint` (the id and `encode_frame`), `OpenMux`
(`get_or_try_init`), `Register` (`pending.insert`), `PushRequest` (`inbox.send`
or its failure) and `Resume` (`resp_rx.await`); `Cancel` drops the future at an
await. `send` is `Mint` followed by `SendHot`, or by `SendCold` and `SendSpawn`,
whose task clones the `OnceCell` and then works on the shared mux (`ColdShared`)
or on a stream of its own (`ColdOwn`, `AuxDispatch`). `WriterWrite`,
`WriterExit`, `ReaderDeliver`, `ReaderExit` are the two loops; `HandlerDispatch`,
`HandlerReply`, `HandlerReplyLost`, `HandlerEof` the server's. `Disconnect` fails
the connection, of whose traffic a prefix still arrives; `DropMux` is
`Drop for Mux`. An action's payload is a model value; the answer to a request is
the request itself, so a mixed-up answer shows. `issued`, `served` and `stamp`
are history: the order of handing over, of dispatch, and what had been handed
over when a call began.

The two ends may be of different versions: an action in `Skewed` is one whose
frame, or whose answer, the other end does not decode. Either error ends the loop
that meets it: `HandlerDispatch` then ends the handler, `ReaderExit` the reader,
and `AuxDispatch` never serves the frame.

`HelloFirst` says how the layer is used. The facade always awaits `Hello`
(`P/client/instance.rs:49-74`) before anything else, so the stream is open before
the first `send`; a program that holds a `Client` need not.

### MappedBuffer

The buffer has `Size` cells, each write stores its own number, so contents tell
writes apart. A map task is `Ask` (its frame is pushed), the server's `ServeMap`,
`Keep` (the slot is overwritten whatever it holds) and `Callback` (and the end of
the task, which may drop the last clone of the handle). `GetMappedRange`,
`FillView`, `DropView`, `Unmap`, `DropHandle`, `WriteBuffer` and `MapAsync` are
the user's, with the checks wgpu's front end makes before it calls the drop-in as
guards. `told` is what the user's calls, in their order, leave in the buffer.
`Send` is `Client::send`: a `write_buffer` or staging of more than `room` cells
does not fit a frame, and nothing is sent while the connection goes on; `lost`, a
history, are the cells whose latest write went that way. `room` is any of `Rooms`.
`WholeMaps` and `PatientUnmap` restrict the user, see the runs.

### Facade, Alone, Engine

`Facade` has what a session knows: the last id of each kind, live handles, and
the frame under way. All ten kinds the tables hold are there, with what the
creation of each names and which arguments are refused. Creations of a kind in
`Large`, writes and submissions may not fit a frame: `Unsent`, the caller goes on
as if they had been sent. `Engine` cuts a handler
where another may come in: taking or releasing the lock, a call of the device
outside it, an await. Creations without references are `Build`, `Insert`;
others `Resolve`, `BuildLocked` (lock held across the device's call), `Insert`
(lock taken again). Writes are `Stage`, `Flush`; for textures the lock is held
over both. A read is `Snapshot`, `CopyOut`; a submission is one `Replay` per
recording and `SubmitAll`, which also answers a recording that does not decode
(the recordings in front of it have been replayed by then). A panic is the death of the handler and, with the lock
held, poison. `contents` and `staged` are wgpu's: contents of every object, and
queue writes held back until the next submission.

Sessions neither end nor come back there; that is `Sessions`.

`Alone` is mapped to by `INSTANCE ... WITH`: a session's store is what its own
names stand for in the tables once the staged writes are carried out; a frame is
done when it is answered or, for a write, staged.

### Sessions

A device is a number. `Connect` is a new client with its first device,
`RequestDevice` another over the same client; both get a minter of their own
(`NewDevice`). `Create` names handles the user holds and gives a handle whether
its frame is sent, does not fit, or is going to be refused; `Use` stands for every
other call, `Drop` for the drop of the last handle. `Disconnect` leaves a part of
the stream with the server, whose handler takes it in its own time (`Dispatch`);
`Restart` empties everything at the server. What a frame does to the tables is
`Effect`. Contents are left out, a thing in the tables is the number of the device
that created it, so a thing of another device shows. `failed` is history: which
creations failed, or rest on one that did. Only `Destroyable` kinds leave the
tables (`P/server/engine.rs:146-149`, against `:285`). Calls after a `Disconnect`
do nothing and are left out. `Careful` restricts the users: a client comes to a
server that has dispatched all that former streams held, and a device is
requested when the one before it has no handles left.

### Recording, Tape

`Record`, `BeginPass`, `RecordInPass`, `EndPass` (the pass's drop pushes its list
behind its encoder's), `Finish` (`mem::take`), `Abandon`, `Submit` (a frame over
the limit does not encode and is lost without a word), `Clone`, `DropHandle`.
`Unsupported` is reported to the error handler and left out, or panics where
there is none; `Unwired` panics always. `ServeSubmit` replays all recordings
before it submits any; `Discard` is the reader that finds no waiter for the
answer to a `send`. Encoders in `Borrowing` have passes that borrow them, as the
facade's types enforce and wgpu's do by default; the passes of the others forgot
the borrow (`forget_lifetime`). Resources in `Kept` are those whose user holds a
handle until everything that names them is submitted.

`Tape` promises order only for encoders with the borrow; for the others, that
what is closed stays as it is, which is all the code defines.

### Framing, Link

One direction of a stream; `role` says whether the sender is a client's writer
task (frames queue up in `inbox`, and one that does not encode is its caller's
error) or a handler (one answer at a time, and one that does not encode ends the
handler, which drops the stream). `Offer` is `encode_frame`, `TakeJob` and
`WritePart` the writer's `recv` and the pieces in which `write_all` gets rid of a
frame, `DropStream` the drop of the sending half at any of these points, which
finishes the stream. `Fill` is a step of `read_exact`, first of the length, then
of the body; `Receive` is `read_frame`'s return with `decode_frame`, `Eof` the end
met instead. A `foreign` sender writes whatever bytes it likes (`ForeignWrite`),
and bodies in `Junk` do not decode. `Cut` loses the connection with any suffix of what is on its way.
Bytes are digits to a base; a length has four of them (`Width`), as
`to_be_bytes` (`Prefix`) writes and `from_be_bytes` (`Length`) reads them, and
bodies are chosen so that they could be taken for lengths. `Up` says when nothing
may be lost: the stream is open, or was finished with nothing left to write.

### KeyStore, Serving

A process is started in one of four modes (`Start`) and passes through its start
one access of a file at a time: `Probe` (each `exists`), `LoadCert` and `LoadKey`
(the certificate is taken as it is, the key must parse), `Generate`, `SaveCert`
and `SaveKey` (`fs::write` truncates, then fills), `Bind` (issues the leaf in
memory; the port may be taken), `WriteOut` (`--cert-out`, truncated, then
filled), `EngineReady`. `Die` may come at any of these points, which stands for
crashes, kills and I/O errors alike; files keep what they have. A torn key keeps
every later start from loading, until somebody removes the files (`CleanUp`). A
pair, the certificate made with it and the identity it proves are one number, so
a mismatch is two different numbers.

A client copies a certificate (`Copy`), dials by address and name (`DialQuic`) or
by id (`DialIroh`), and may leave or fall silent (`Leave`). A process in its loop
takes the oldest incoming connection (`Take`) and awaits its handshake in `hand`:
`HandshakeDone` if the client finds the name and the signer it wants, otherwise
`QuicFails`, which prints and goes on, or `IrohFails`, which leaves the loop and
with it the process. A silent client's handshake fails of the idle timeout.
`Disconnect` is what a process takes along when it ends. `Careful` restricts the
operator, see section 4.

## 3. The runs

Passing runs:

| Run | Question | Answer |
|---|---|---|
| `mux_facade` | Used as the facade uses it, is the call layer the remote call of `RpcSpec`? | `ImplementsRpc`: through every failure, cancellation and drop. `FollowUpSees`: a follow-up is dispatched after everything handed over before it began. `NoLostWaiter`: a waiting request keeps its entry in `pending` while the reader runs, and its frame or answer is on the way while nothing failed. |
| `mux_direct` | And with sends before any request, oversized and fatal frames? | Answers are not mixed up (`AnsweredFromOwnCall`), nothing is dispatched twice (`ServedOnce`), a registered request ends while the reader runs (`ResolvedWhileReaderRuns`, liveness), queued frames are dispatched unless something broke (`QueuedIsServed`, liveness); an action whose frame or answer does not decode ends the loop that meets it, and the requests behind it fail. |
| `map_patient` | Maps from offset 0, unmapped after their callback: is everything right? | `HeldFromMapUntilUnmap`, `ViewShowsBuffer`, `StoreCatchesUp` (what was staged and written reaches the server in call order; what did not fit a frame is missing from its own cells only), `NothingAfterDestroy`. |
| `engine_apart` | Two devices that create different kinds: does either notice the other? | `ImplementsAlone`: no, short of the poisoned lock. `HolderGoesOn` (no handler keeps the lock that waits for something), `WritesAreFlushed`. |
| `rec_scoped` | Is what the device executes what was said? | `ImplementsTape`; `KeptIsThere` and `KeptIsExecuted`: what a user keeps is found by whatever names it and its submissions are never refused. |
| `framing` | Do frames survive the stream of bytes? | `ImplementsLink`: in order, once, as they were sent, whole. `FramesArrive` (liveness): all of them unless the stream breaks. `ReadsToTheEnd`: the receiver never gives up a stream that is whole, the largest frame allowed included. `ReadsAsWritten`: whoever writes the bytes, a reader returns the frames that they are, and before the stream ends it stops only at one that does not decode. |
| `sessions` | What does a device find in tables that still have those of others? | `FindsOwn`: under every name it gives, what it created. `CaughtUp`: the server has what the device holds and none of the buffers it dropped. `DroppedIsFreed` (liveness): a dropped buffer goes while the connection lasts. |
| `serving` | What do clients of servers that crash, restart and compete get? | `AnnouncedStays`: each CA server proves the announced certificate. `OutIsListener`: the certificate in `--cert-out` is that of the one that listens. `OthersDoNotMatter`: no client's handshake ends another's connection over QUIC. `ServedInTurn` (liveness): a client that trusts its server is served, whoever stands in front of it. |

Violation runs, each a disagreement between the code and what its comments
promise; `PROJECT.json` quotes both under `findings`:

| Run | Property | What TLC shows |
|---|---|---|
| `mux_late` | `EveryRequestEnds` | The reader exits and clears `pending`; the writer, idle, notices nothing. A request that registers now is in a map nobody clears again and waits for ever. Holds under all the fairness the runtime gives. |
| `mux_cold` | `FollowUpSees` | Two sends before the stream is open: the clone of an empty `OnceCell` is a new cell, each send opens its own stream and the second is dispatched first. |
| `map_offset` | `ViewShowsBuffer` | A read map that does not begin at 0 is sliced with absolute offsets: `get_mapped_range` panics or shows other bytes. |
| `rec_dropped` | `RefusalSurfaces` | A buffer is dropped between record and submit; the whole submission is refused and the refusal is discarded by the reader. |

### Bounds

* `mux_*`: two tasks, one frame in each window (so both directions block),
  3 calls without oversized frames in `mux_facade`, 2 calls with every kind in
  the others. A fault needs a call and one that overtakes, blocks or answers in
  its place; the third call adds an old one whose answer or entry is still about.
  Tasks are symmetric in `mux_facade` only: the others have liveness or are
  small. What may not decode (`Skewed`) is `Hello` in `mux_facade`, which always
  comes first, a request and a send in `mux_direct`, and nothing in the violation
  runs, which do without.
* `map_*`: 3 cells where offsets matter for writes (2 in the violation run),
  two maps (one in flight while another is asked for), three writes or fills,
  two views (disjoint, one behind the other). A frame takes 2 or 3 cells in
  `map_patient`: with 2 a whole staging or write is lost and its parts go through,
  with 3 everything fits.
* `engine_*`: two sessions, one id of each kind, contents 0 and 1. One session
  has storage and submits up to two recordings of one command, the other a
  module, pipelines and the layouts derived from them; between them they take
  every path of the lock. A module's source may be too large for a frame. A
  refused binding under the lock needs a bind group, which neither creates; the
  proofs of section 5 cover it.
* `rec_*`: an encoder with the borrow (3 commands) and one without (2), two
  passes, one call of each sort, a buffer that is cloned and kept, one that may
  be dropped at any time and a texture view (whose `Destroy` the server ignores);
  two frames under way, submissions of more than three commands too large.
  Passes are symmetric.

* `framing`: bytes of two values, lengths of four of them, a limit of 2 and bodies
  of 0 to 3 bytes, so the limit, the size above it and lengths the prefix could
  also say are all there; a window smaller than the largest frame, so no frame
  need ever be on the wire whole; three frames, so one stands behind a broken one
  and one before it. A foreign sender writes up to 10 bytes: an empty frame and
  one of the limit, in either order, or a length over the limit with something
  behind it; one body of two bytes does not decode.
* `sessions`: three devices, so that one can meet what its predecessor's
  predecessor left; a buffer, a module that may fail, and a group that names both,
  an id each: a device that creates fewer kinds than another is one that mints
  fewer ids. Three frames on a stream: a creation, its use and its drop.
* `serving`: two processes at a time, all four modes, two pairs and two
  connections. A race needs two processes; restarts are not bounded, only the
  pairs they generate are, and the second pair is the one that must not replace
  the first. A connection needs one other before it, beside it or after it.

`CHECK_DEADLOCK FALSE` everywhere: bounded calls run out, and the program may
rest whenever its user does.

### Fairness

The `FairSpec` of `Mux` assumes weak fairness of each
task's own continuation, of the writer, of the reader and of the handler: the
async runtimes poll a task again once it is ready, and the QUIC stream delivers
while the connection is up. Nothing obliges a caller to call, cancel or drop, nor
the network to fail or a spawned cold task to be scheduled in time. `Framing` assumes
the same of the task that writes, the one that reads and the stream between them,
not of a drop or a loss. `Sessions` assumes that a stream's handler goes on with
the frames it has. `Serving` assumes that each process goes on with its
start and its loop, and that a handshake ends: QUIC's idle timeout (iroh's too)
ends one that hears nothing. Nobody has to start a server, to dial, to stay or to
crash.

## 4. What holds only under a condition

| Result | Condition | Without it |
|---|---|---|
| order of dispatch, `RpcSpec` | a request opens the stream (`HelloFirst`) | `mux_cold` |
| a request ends | it registers while the reader runs | `mux_late` |
| map held from map to unmap | unmap after the callback (`PatientUnmap`) | with `PatientUnmap` false TLC finds `HeldFromMapUntilUnmap` violated: `unmap` leaves a running map task alone, and it stores its bytes (`dispatch.rs:414`) in a buffer that is no longer mapped, or over those of a later map |
| views show the buffer | maps from offset 0 (`WholeMaps`), unmap after the callback | `map_offset` |
| views and server hold what the calls say, in a given cell | its latest write fitted a frame of 64 MiB (`lost`) | `write_buffer` and the staging that `unmap` ships do not encode, `send` returns without a word (`client.rs:204`) and the connection stays up: the server keeps the older bytes, and a later view shows them |
| sessions do not notice each other | no kind in common (`Apart`, `NoKindInCommon`) | `ImplementsAlone` is violated: two devices mint the same ids into one set of tables, and the later creation replaces the earlier one's object |
| a device finds its own things | `Careful` in `Sessions`; creations that succeed | with `Careful` false TLC finds `FindsOwn` and `CaughtUp` violated: the old stream's handler still creates and destroys while the client is back, or two devices of one client are in use; a creation that fails leaves what an earlier session has under the name, so that the next reference uses it and does not meet the `UnknownResource` that `client.rs:195-196` promises |
| no handler dies of another's call | no invalid call | a validation error panics with the tables locked, and the handlers of other sessions die of the poisoned lock |
| the certificate in `--cert-out` is the listener's | the processes that write it share one `--bind` address | two self-signed servers on different ports that both keep the default `./server-cert.der` overwrite each other's; they are outside the model, where a second server of that mode finds the port taken |
| an announced certificate stays | `Careful`: no two processes at the CA's files at once, `init-ca` not over a pair | with `Careful` false TLC finds `AnnouncedStays` violated: `init-ca` replaces a pair that clients have pinned and a server has loaded; two first starts generate a pair each, and may leave the certificate of one beside the key of the other, which `load` does not compare |
| nobody's handshake ends another's connection | QUIC | `serve_iroh` breaks out of its loop on any error of `accept` |
| submissions are carried out | what they name is kept, and they fit a frame | `rec_dropped` |

## 5. What is proved

Every theorem holds for all values of the constants that satisfy the module's
assumptions (`MuxAssumption`, `MappedBufferAssumption`, `FacadeAssumption`,
`RecordingAssumption`, `FramingAssumption`, `KeyStoreAssumption`,
`ServingAssumption`, `SessionsAssumption`: ranges of bounds, that markers differ
from values, and that the largest body's length fits its four bytes;
`SomeProcess`: there is one). The shape is always the same: `Init => IInv`, one
lemma per action or group of actions for `IInv /\ [Next]_vars => IInv'`, and a
`PTL` step. A refinement adds that the first states are first states of the
abstract module and that, from the invariant, every step is one of its steps or
changes nothing of it.

* **`MuxProofs`.** `TypeCorrect`: `TypeOK /\ CallOK`, where `CallOK` ties each
  task's place to its current call and id; the one is not inductive without the
  other. `AnswersCorrect`: `AnsweredFromOwnCall`, strengthened by `Tagged`: a
  frame or answer anywhere on its way carries the action its id was minted for,
  and an answer's id has been dispatched. `OrderCorrect` under `HelloFirst`:
  `OrderInv` is `Handover` (an id is handed over once, and after all that its
  stamp counts), `NoCold` (the cold path is never entered) and `Pipeline` (what
  was dispatched is the beginning of what was issued, `Begins`; until the handler
  ends, what is on the wire follows it and, while writer and connection live, the
  inbox is the rest, `Aligned`).
  `FollowUpsCorrect` follows. `ServedOnceCorrect` holds on the cold path too:
  `OnceInv` says that a frame is at one place (to come, with a cold task, on a
  stream of its own, in the inbox, on the wire, dispatched) and there once.
  `NoLostWaiterCorrect`:
  `WaitInv` speaks of a task's current call where `NoLostWaiter` speaks of any
  open one, and needs `OneReply` (the handler has at most one answer in hand, so
  writing it is delivering it). `StepFlight` follows one frame or answer through
  every step, on the shared stream or one of its own. `RpcCorrect`, the
  refinement, takes all of these and `StartInv`: a call that is not handed over yet
  is open and not answered (`StartIsUnanswered`), so handing it over, late or not
  at all, is what `RpcSpec` allows.
* **`MappedBufferProofs`.** `TypeCorrect`: with `Sized`, the length of contents,
  staging, fetched bytes and views. `NothingAfterDestroyCorrect`: `StreamInv`
  says that a `Destroy` is on the stream only when the handle is gone and no task
  runs, and then stands last, and that each map on it is that of one waiting task;
  `Fresh`, that maps not yet made have no task. `HeldCorrect` under `PatientUnmap`:
  `SlotInv` says that only the latest map has a task, and only while its range is
  held, and that the slot holds what that map put there. `StoreCorrect` needs
  neither that condition nor maps from offset 0: `Settled` follows one cell, which,
  unless its latest write was lost, is what the calls say in the newest write under
  way that covers it or, without one, at the server; a lost write changes neither
  (`SettledLost`). `ContentInv` puts the staging and the open views of a write map
  in front of that. `ViewCorrect` under `PatientUnmap` and `WholeMaps`:
  `ViewInv` adds that no write stands behind a map on the stream (`MapsLast`), so
  what a read map fetched stays what the calls say (`Fetched`).
* **`EngineProofs`.** `TypeOKCorrect`: `FacadeInv` (frames name only what their
  session may know), `ServerType` and `Busy` (a handler in the middle has a frame
  of the right sort), and `ContentsInv`: the contents are a recursive function of
  the commands of a submission, and keep their type by induction over these
  (`RunKeeps`, `RunAllKeeps`). `HolderCorrect`, `FlushedCorrect`. `AloneCorrect`,
  under `NoKindInCommon`, is the refinement. Its invariant `AloneInv` has `OwnInv`
  (every entry stands under a name its creator can mint, so what a handler resolves
  is its session's; with no kind in common that is no more than a lemma), `OwnNames` (an
  entry stands under its object's own name, so no two names share contents),
  `FramesInv` and `MadeInv` (an object whose creation is not carried out yet is in no table and
  still zeroed), `StagedInv` (writes held back are those of sessions about to
  flush, so a read that takes no flush has nothing to wait for) and `Looked` (what
  a handler resolved some steps ago is what its names stand for now). `Now` is what the device holds
  once the staged writes are carried out; `View`, what a session sees of it. The
  heart are four facts about `View`: a command on names does to a view what it
  does, on objects, to them (`ViewOfCommand`), so a recording does
  (`ViewOfRecording`), so a submission does (`ViewOfSubmission`), by induction
  over both; and it does nothing to the views of others (`ViewOfOthers`). The
  lemmas `Step...` then take the actions one by one.
* **`RecordingProofs`.** `TypeCorrect`, split into `EncoderOK` (how phase,
  recording, command buffer and passes fit) and `RestOK`. `KeptCorrect`:
  `KeptIsThere` is inductive as it stands, a chain of three: before submission a
  handle stands for it, while one does the resource is known and no `Destroy` is
  under way, and what is under way stands before the `Destroy`. `KeptExecuted`:
  the action property `KeptIsExecuted` follows from it. `TapeCorrect`, the
  refinement: `TapeIs` says what stands on the tape of an encoder, by its phase;
  the submissions under way (`Submissions`, a recursion over the stream) grow and
  shrink at the ends they should, by induction; `OnlyBuffersGo` and `KeptIsThere`
  account for every refusal.
* **`FramingProofs`.** One invariant for senders that are this code. `Laid` puts all frames that were accepted
  one behind another; `Carried` says that what the receiver has read of its frame,
  what is on its way and what is left of the writer's frame are consecutive parts
  of that, `Queues` that the inbox and what was received are the frames after and
  before, `Ends` how the two ends stop. It is inductive since a length that was
  written is the one that is read (`PrefixIsRead`, division with remainder), and
  so the receiver never takes anything but a length for one. `TypeCorrect`,
  `ReadsToTheEndCorrect` and the refinement `LinkCorrect` are read off it.
  `ReadsAsWrittenCorrect` needs none of that, and no honest sender: what was
  written is what was received, one frame behind the other, and what is under way.
* **`ServingProofs`.** One invariant, `Inv`, in two halves. Of `KeyStore`:
  `Placed` (which mode a process is in and what it already holds, at each point of
  its start), `PortInv` (the port has one holder, and only one that holds it
  writes `--cert-out`) and, under `Careful`, `FilesInv` (one process is at the
  CA's files; a whole key has its certificate beside it and is the one announced;
  who writes the files has found no key). Of `Serving`: `ServeTypeOK` and `OwnInv`
  (no two processes have a connection in common, and none that has ended).
  `TypeCorrect`, `AnnouncedCorrect` under `Careful`, `OutCorrect` and `OthersCorrect` follow; the last is an action property.
* **`SessionsProofs`.** `TypeCorrect` for any users. Under `Careful`, `Inv` says of
  the one stream with frames what `FindsOwn` and `CaughtUp` say of its end:
  `FramesFind` and `HandlesFind`, for every frame under way and for the next one,
  that the creation of what it names is in front of it or done, and nothing in
  between touches the name (`Own`); `DroppedGoes`, that the `Destroy` of what was
  dropped is under way or done (`Gone`); `Known`, that names are minted before they
  are used, so a creation disturbs nobody. Each fact moves along with the stream
  (`OwnAppend`, `OwnTail`, `GoneTail`). `FindsOwnCorrect` and `CaughtUpCorrect` are
  its cases of a frame at the head and of an empty stream.
* **`QueueFacts`.** Head, tail, append, parts and joins of sequences, and
  induction. The library's induction theorems take an operator, which the provers
  cannot instantiate; here the property of the numbers is the set of those that
  have it, and `NatInd` follows from the library's fact that a well-founded order
  has minimal elements. `Recursion` and `Following` then say that a function
  defined step by step along a sequence exists, is the one computed, and stays
  where its steps keep it.

Only model-checked: the liveness properties (`ResolvedWhileReaderRuns`,
`QueuedIsServed`, `FramesArrive`, `DroppedIsFreed`, `ServedInTurn`) and the
refutation of `EveryRequestEnds`, since fairness and `ENABLED` are out of the
prover's reach; and the other refutations, which are single behaviours. Every
other property of a passing run is stated by a theorem.

## 6. What is not modelled, or not promised

* What shaders compute, textures' layout, the wording of errors, limits and
  adapter information: data that no property here tells apart.
* QUIC, TLS, iroh and wgpu: external, modelled only as the code relies on them
  (an ordered stream with a window that may fail; validation errors that panic
  when no handler is installed; queue writes held back until a submission).
* Contents across sessions: `Engine` has them, and no end of a session; `Sessions`
  has the end, and no contents. What a first device wrote to a buffer is not seen
  by a second one, since its creation replaces the buffer.
* Sessions in use at the same time that mint the same ids: `Engine` has them, but
  the code does not keep them apart yet (`README.md:329` of the repository) and
  nothing is claimed of them.
* A mismatch of protocol versions is answered with an error and served on
  (`P/server/engine.rs:116-129`); an `Ack` here, since only the client looks at
  the answer.
* Drop-in instance, adapter and device: constant answers, callbacks and error
  scopes that do nothing, and descriptors that are translated and forwarded.
  Descriptor translation, protocol types, the re-exports of `P/lib.rs`, the demo
  and the tests: no state of their own.
* A client that is dropped loses what its writer still has in the inbox
  (`DropMux`): it is in the model, and `QueuedIsServed` excepts it, since the code
  promises no flush.
* The disk under the key store: `save` does not sync, so a power failure may lose
  more than `Die` does.
* Printing the address, the wait for a public one, iroh's address book and relays,
  the parsing of the server's command line.
* bincode: a body is what it decodes to, or does not encode, or does not decode
  (`Skewed` in `Mux`, `Junk` in `Framing`, `unsupported` recordings in `Engine`).
* A bound on what a reader reserves. `codec.rs:4-5` caps frames "to limit
  adversarial allocation", but `read_frame` (`P/transport/mod.rs:28-29`) reserves
  any length of four bytes before `decode_frame` compares it. `Framing` has both
  steps in that order, and states no bound, since the code keeps none.

## 7. Plan

Done, in this order because each rests on the one before: `RpcSpec` and `Mux`;
`MappedBuffer`; `Facade`, `Alone` and `Engine`; `Tape` and `Recording`; the
proofs beside each.

Then `KeyStore` and `Serving`, which stand apart from the rest, `Link` and
`Framing` underneath it, and `Sessions` across time.

The proofs came in the same order: types and invariants, then the refinements
`ImplementsRpc`, `ImplementsTape`, `ImplementsLink` and `ImplementsAlone`.

Next are:

1. `AloneCorrect` from less than `NoKindInCommon`: two sessions notice each other
   only through ids that both mint.
2. A connection between `Sessions` and `Engine`: what a device reads in tables
   that still have an earlier one's objects.

## 8. Using it

In this directory, `tlc -config <run>.cfg <module>` with the module that
`PROJECT.json` gives for the run, and `tlapm <Name>Proofs.tla` for the proofs.
The longest run, `engine_apart`, takes two to three minutes with two workers,
`serving` about two, the others one at most.
