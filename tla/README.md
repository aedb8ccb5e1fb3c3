# secure-send-cli in TLA+

secure-send-cli moves one file, or several files and folders as one ZIP, from
one computer to another over a WebRTC data channel. The two programs find each
other either through public Nostr relays and a rotating PIN, or by two codes
that people carry from one terminal to the other. This directory holds TLA+
specifications of the program, the TLC configurations that check them on small
instances, and proofs of the most important properties for every value of the
constants. Everything is written from the code under `src/`; where the code and
its documentation disagree, the specification follows the code and the
disagreement is a run of its own.

Contents: [the system](#the-system) · [modules](#modules) ·
[runs](#runs-and-bounds) · [fairness](#fairness) · [findings](#findings) ·
[proofs](#proofs) · [what is not modelled](#what-is-not-modelled) ·
[plan](#plan)

## The system

| Component | Source | State | Operations | What makes it correct |
|---|---|---|---|---|
| Transfer protocol | `transfer.rs` | sender: chunks and bytes sent. Receiver: announced size, index set, counters, `<dest>.part`, `<dest>` | `run_sender`: read, seal, send chunks, DONE, wait for ACK. `run_receiver`: open the part file, accept chunks, DONE, sync, rename, ACK | the destination is the old file or a whole new one; a sender that reports success is right |
| Source and ZIP streaming | `archive.rs` | the plan; a blocking thread, a channel of two chunks, the error slot | `prepare_send_source`, `collect_dir`, `plan_entries`, `write_zip`, `ChunkWriter::write/flush`, `next_chunk`, cancellation by dropping | the plan is the selection; the end of the stream is the end of the archive; full chunks before the last; bounded memory; the threads end |
| Data channel and worker | `webrtc/common.rs` | `send_allowed`, `closed`, a `Notify`, command channel, hand-over channel, UDP readers, the library's buffer and events | set-up commands, `take_data_channel`, `send`, `close`, `run_peer`, `handle_events`, `handle_messages` | no lost wakeup, gate reopens, inbound messages kept and in order, every call returns |
| ICE gathering | `webrtc/common.rs` | sockets, addresses found, candidates, routes | bind, resolve, probe each STUN server under one deadline, add candidates | candidates are addresses somebody was told, routes lead back to their socket, it ends in time |
| PIN rotation | `crypto/pin.rs` | none: a rule on wall-clock buckets, repeated in three places; a checksum | `pin_bucket`, `is_pin_bucket_active`, hints, expiration tag, age test, `generate_pin`, `is_valid_pin` | the copies of the rule agree at every instant; a slip of the finger is noticed |
| Nostr client | `signaling/nostr.rs`, steps of `webrtc/nostr_*.rs` | relays, publications under way, one subscription a side, its notifications | sign, publish to several relays with retries, subscribe, fetch, poll, read the stream | what was published is held, what is awaited is not missed |
| Nostr handshake | `webrtc/nostr_sender.rs`, `nostr_receiver.rs` | retained generations, the displayed PIN, seen claims, the lock; the receiver's hints and timer | publish, rotate, refresh, verify claims, confirm; find, ask, claim, wait | what is shown can be claimed, what was revoked cannot, one receiver at most |
| P2P signalling | same files, `webrtc/common.rs` | SDPs, queued candidates, seen events, retry intervals, windows | publish and republish a bundle, handle offer/answer/candidates, wait for the channel | descriptions once and before candidates, none forgotten, losses made up for, both sides end |
| Manual exchange | `signaling/manual.rs`, `webrtc/manual_*.rs` | `created_at`, the hour a code is obscured with, applied codes, timeouts | encode, decode, expire, paste, connect | what has not expired can be read; sides settle |
| Destination choice | `util.rs`, `transfer.rs` | the directory | `resolve_destination`, `unique_path`, part file, rename | nothing that was there is replaced unasked; files of different transfers do not mix |
| Wizard | `tui/app.rs`, `file_browser.rs`, `dir_picker.rs` | page, lists of a directory, selection, a folder's name, PIN input and fingerprint | keys | the plan can be carried out; what is shown is what is used; no cursor leaves its text |
| Transfer screen | `tui/transfer_screen.rs`, `ui/mod.rs` | event queue, status log, PIN, modal, outcome | apply events, join the task, keys | the result comes last, a question stays until it is answered |
| Cryptography | `crypto/{aes,chunk,ecdh}.rs` | none | seal, open, derive | trusted |
| Command line | `main.rs` | none | dispatch | no state |

How they interact. `main.rs` or the wizard starts one task, `send_file_nostr`,
`receive_file_nostr` or one of the manual pair. It runs handshake, signalling
(or the exchange of codes) and transfer one after another. The peer worker
`run_peer` is a task of its own, on another thread: commands reach it through a
bounded channel with a one-shot response each; it answers through two atomic
flags, a `Notify` and an unbounded queue of messages. `archive.rs` runs the zip
library on a blocking thread behind a bounded channel. Task and worker report to
the screen through one unbounded queue; the screen answers through a one-shot
channel (the question about an existing file) and the `PIN_REFRESH` permit.
Relays, STUN servers and the other peer are reached by messages only.

What is hard here. Several things are checked at one moment and used at a later
one: the bucket of a PIN before a slow publication, the existence of the
destination before a transfer, `send_allowed` before a command is queued.
Timers race late answers: the ACK, the confirm, the answer carried by hand.
Relays lose, delay and repeat, each on its own. The clocks of two machines
differ. Directories change while they are walked or browsed. Disks fail and power
goes between sync, rename and ACK. `PROJECT.json` lists these hazards at their lines, each with the
properties that would catch it going wrong.

## Modules

Names follow the source (`received_count`, `send_allowed`, `wait_for_verified_claim`'s
`seen`, ...). `PROJECT.json` maps every definition to its lines.

Some definitions have a sibling with a suffix (`Rotate_ExtendsWait`,
`Decodes_CurrentOnly`): the same operator with a plausible bug. They are used by
no specification; each property was seen to fail with one of them in place of
the real definition, listed under `mutants`.

**Transfer.**
`ChunkReceiver` is `run_receiver` against an *arbitrary* peer, a disk that may
fail at each call, an aborted task and a power failure. A file is a set of
extents (offset, length, whose plaintext); whether a message decrypts is the
Boolean `sealed`. `rpc` follows the function: opening, receiving, persisting,
renaming, acking. Power loss may undo what was not synced; since the directory is
never synced, the rename stays undoable.
`FileTransfer` extends it with `run_sender` and the channel: what was handed over
(`wire`), how much arrived and was consumed, the ACK, the state of either end.
`faults`, chosen at the start, switches faults on: a dying path, a worker that stops, disk and read
errors, an abort, slowness (a timer that fires although the answer would come).
`TransferPromise` is the abstract specification: the destination changes at most
once, to the source; success is reported only after that. `FileTransfer` is
shown to implement it (`KeepsPromise`) under the mapping at its end.

**Source and ZIP.** `SendSource` is `prepare_send_source`: from a selection of
files, folders and links to a plan. Every look at the disk is a step, and other
programs add, remove and replace files between two looks; `touched` remembers
what they changed. `Selected` is the reference the plan is compared with: all
files of the selection at one moment. `ZipStream`: the zip library splits its
writes anywhere, fails or panics; `ChunkWriter` cuts chunks; the bounded channel;
`next_chunk`, which joins the thread at the end of the stream; dropping the
stream. `ZipSource` puts them together: the source is prepared, opened or never
opened, and read.

**Data channel.** `DataChannel`: `send` is split at every point where the other
thread can see or change something (create `notified`, read `closed`, read
`send_allowed`, queue the command, await the response), the worker likewise
(store the flag, then notify). Before that the task gives its set-up commands and
takes the channel, made here or by the peer; UDP readers stop one by one, a
command to close and the last reader end the worker, which releases whoever still
waits. The rtc library is external: a counter with two marks, an event queue and
messages to read.

**Gathering.** `IceGathering` is what `WebRtcPeer::new` does before the worker
starts: which interfaces are bound, one STUN request after another from each
socket under one deadline, and the parsing of whatever arrives. A
server may resolve slowly or never, answer late, in a legacy form, or to an
earlier request; a NAT maps each socket, or each pair of socket and server, to
an address.

**PIN and handshake.** `PinBuckets` holds the bucket rule and its copies,
`PinChecksum` the checksum; `NostrHandshake` extends the first. A PIN is the number of its
minting. Sender: `MintPin`, `PublishPin`, the arms of the select loop (`Rotate`,
`Refresh`, claims, deadline), `PublishConfirm`. Each element of `Receivers` is a
run of the receiving program, with a clock that is `Skew` ahead of the sender's
or behind it. While the sender derives or publishes it polls nothing else, as in
the code, so time passes and claims pile up.

**Signalling.** `NostrClient` is the way of one event: both programs as a
`Script` of publications and waits, a publication as attempts at several relays
each of which may fail or answer in vain, a wait as subscription, fetch, stream
and (for the confirm) polls. It knows no clock. `P2PSignaling` is the other
view: from the confirm to the open channel, with windows and repetition. Every
publication is signed afresh, so events carry the number of their publication;
relays accept the events of a bundle one by one and lose up to `MaxLoss`. The
receiver's wait ends at the first offer and leaves the rest of what it fetched
unseen, as the code does.

**Manual exchange.** `ManualCodes` holds the two clock rules (age, hour);
`ManualExchange` the two programs, two clocks, and people who paste any code they
have ever seen, codes of other sessions included.

**Destination.** `Destination`: `resolve_destination` and `unique_path` of several
receivers in one directory with other programs, through part file and rename.
A write goes to the file that was opened, even if its name has been moved or
removed since. A transfer fails where `run_receiver` can: no part file, or one
that cannot be sized (`CreateFails`), chunks (`TransferFails`, whose `Cleanup` may
fail too and is ignored), flush, sync and rename (`RenameFails`), the ACK; and
Ctrl-C drops the task at any of these places (`Abort`). So part files do stay
behind, and the next transfer of that name truncates them. `met` remembers who
has written at the same time as another under its name.

**Screens.** `Wizard`: a key is an action, with the draw that follows it (a draw
clamps cursors). Paths are numbers in the order of their names; other programs
change the disk between two keys. A folder's name is a sequence of letters whose
width in bytes differs, because `name_cursor` counts bytes.
`TransferScreen`: queue, log, modal, keys, end of the task. When the task ends
the queue is drained and one more line is added, so the log may be one longer
than its capacity; the test `len == CAPACITY` then never matches again and late
reports of the worker make it grow. `Tui` is a run of the program without
arguments: the wizard, then the transfer screen or, for a manual exchange, the
plain terminal.

**Composition.** `FileTransfer` composes sender, receiver and channel; its channel
is the guarantee `DataChannel` establishes (in order, nothing lost while the
association lives, a gate that reopens) and its source is the guarantee of
`ZipSource` (full chunks, then a short one, end only at the end; `Unstable`
stands for a source that is not what was announced). `Tui` composes `Wizard` and
`TransferScreen`, `ZipSource` composes `SendSource` and `ZipStream`. `NostrHandshake`
ends where `P2PSignaling` starts, both send by `NostrClient`; `P2PSignaling` and
`ManualExchange` end where `FileTransfer` starts. `Destination` and
`ChunkReceiver` share the part file.

## Runs and bounds

The MC modules only name instances. `CHECK_DEADLOCK FALSE` is in every
configuration because the modelled functions return and the program ends: a state
without successor is the normal end. That nothing gets stuck on the way is the
matter of the liveness properties.

One run per subsystem checks everything about it, safety and liveness together;
three more show a disagreement with the documentation. Parts that do not
interact in time share a run: `MCPeer` is either the gathering or the working
peer, `MCP2PSignaling` one of three parts, chosen at the start. Type invariants
(`TypeOK`, `ReceiverTypeOK`, `TransferTypeOK`, ...) are in the modules for the
reader and for the proofs; the runs spend their time on properties that say more.

| Run | Shows | Bounds, and why they are enough |
|---|---|---|
| `receiver` | part file, index set and counters agree; `DestWhole`: the destination is the previous file or one whose every byte was written exactly once, of the announced size | files up to 3 chunks of 2 bytes and one byte beyond every limit: full, short, empty, too long, duplicate and out-of-order chunks occur, as do both modes and every fault at every step, a part file that cannot be removed included |
| `transfer` | refinement of `TransferPromise` (`KeepsPromise`); `TransferEnds`: the receiver ends, the sender ends or is stuck at DONE; without faults every source within the limits is delivered (`Delivered`) | the same sizes, announced or not, kept or not; a send buffer of 2 messages, so that three chunks and DONE meet a full buffer; `faults` is chosen at the start: all of them or none |
| `zip` | `PlanIsSelection`: of what other programs leave alone the plan has everything selected, once, and nothing else; `StreamIsSource`: the stream is that archive, whole; `BoundedMemory`; `SourceSettles` | ten nodes in a tree: nested folders, a link back to the folder above it (followed as an input, not inside a folder), a link to an empty file, two files of one name, a file whose name is not UTF-8; nine selections, two changes by other programs. Archives of 1 to 9 bytes, chunks of 2, channel of 2 as in the code: the channel fills, the rest is short or exact |
| `peer` | gathering: `RoutesReach`, `GatheredIsTold`, `GatherInTime`; working: `NoLostWakeup`, `GateReopens`, `BoundedOvershoot`, `InboundComplete`, `EveryCallReturns` | gathering: three machines of up to two sockets, the code's three servers on three hosts, the code's timeouts in units of 0.7 s, rounded up, which leaves late answers enough time to mix with the next ones. Working: marks at 1 and 2, six messages, so the gate shuts and opens repeatedly, a channel made here or by the peer, two set-up commands, two readers |
| `handshake` | `ShownCanBeClaimed`, `HonouredIsFindable`, `RevokedStaysRevoked`, `NoClaimWasted`, `ConfirmedIsLocked`; sender and claiming receivers settle (`HandshakeSettles`) | rotation and second of 2 ticks, a wait of two periods, start anywhere in the first bucket no clock reads as negative: a publication may outlast one or two rotations. One receiver with a refresh, or two receivers that race without one; both at once is twenty times the states and adds no interplay: a refresh acts on the sender alone. One receiver's clock is half a period behind, the other's as much ahead: both find some PINs and miss others |
| `signaling` | `CandidatesInTurn`, `BothSettle` on any day; `WindowsSuffice` on good days: any three lost events are made up for; `PublishedIsHeld` and `NothingSlipsPast` in the mail | any day: one candidate a side and one republication already give every order of offer, answer and candidates. Good days: an instance of its own in the code's proportions, a tick is the 5 s retry, the window 6 ticks, gathering 1. Mail: two relays, of which either side may be connected to one or both; the way is cut into legs (to the confirm, the offer, the answer, both at once) with up to two faults each, two attempts a publication and a stream of two notifications, so that a stream overflows |
| `manual` | `CodesReadable`, `ExchangeSettles` on any day; `CarriedInTime` on good days | an hour of 4 ticks, start anywhere in it, clocks up to 2 ticks apart, stale codes of both types. The window is 2 ticks and carrying takes less than 2: with `Carry = 2` it fails, as it should |
| `destination` | `ReplacedOnlyIfAsked`; `OwnUnlessShared`: what a receiver puts in place only it has written to, unless another wrote beside it under its name; `OneAcknowledges`: of those that share a part file one at most acknowledges it | two receivers of one name, three numbered variants, two steps of another program, every step of a transfer failing or aborted. Six files: a leftover and an old file at the start, one new file a receiver and one a foreign step. The receivers are interchangeable, so their permutations are a symmetry |
| `tui` | `PlanIsUsable`, `FingerprintIsCurrent`, `CursorsInside` in the wizard; `ResultComesLast`, `QuestionNeverLost` on the transfer screen | two directories, one hidden, and a file, one change by another program; folder names of two letters out of three, one of two bytes, one a space; PINs of the code's ten characters out of two, 36 of them valid; a log of 2 lines, 2 steps, 2 reports of the worker: the log overflows, every order of queue, key and end |
| `receiver_cleanup`, `transfer_done_stall`, `destination_race` | a property the documentation states and the code does not keep, see [findings](#findings) | small, the shortest counterexample suffices |

Bounds that only keep the state space finite are constants whose comment begins
with "bound": `MaxTime`, `MaxRefresh`, `MaxLoss`, `SlowBy`, `Carry`, `Numbers`,
`MaxOther`, `MaxFiles`, `MaxSteps`, `MaxNotes`, `MaxChanges`, `MaxName`,
`MaxInbox`, `Legs`. They appear in guards (time
stops; a user acts no more often) and cut no behaviour of the code short: where a
timer must be able to fire before time stops, the guard that starts it leaves
room, as in `PublishClaim`.

## Fairness

- `FairTransferSpec`: weak fairness for each task while it is not waiting, its
  stall timers included (tokio runs woken tasks), and for a working path to
  deliver. A path that dies is *not* reported to anybody: that is what the stall
  windows are for. A close need not reach the other end.
- `DataChannel!Fairness`: weak fairness of both threads. Strong fairness of taking
  a waiting command, because `select!` picks among ready arms at random, and of
  `Drain`, because the peer of a live association acknowledges. An association
  that stays silent for ever is the matter of `transfer`, where the sends of
  chunks have a timeout.
- `ZipSource!SourceSpec`: the blocking threads run (preparing, writing), and the
  transfer asks for the next chunk or gives up, since each hand-off of a chunk is
  under the stall window. Whether a source is opened at all is up to the handshake.
- `IceGathering`, `NostrClient`, `Destination` and the screens assume no fairness:
  what is claimed of them is safety, `GatherInTime` included.
- `NostrHandshake!Fairness`: clocks run, a publication returns (the client has
  timeouts), what is due is served. Strong fairness of the deadline `WaitEnds`:
  its arm is enabled again and again while rotations interrupt it, and the random
  choice of `select!` takes it in the end. No user and no relay must act.
- `P2PSignaling!Fairness` likewise, strong for the two deadlines, which
  republication interrupts, and for noticing an open channel. No relay must
  deliver and no path must come up.
- `ManualExchange!Fairness`: clocks run and timeouts fire, nothing else.

`good_day` in `P2PSignaling` and `ManualExchange`, chosen at the start, is not
fairness: it is the day on which a window must suffice. There are no errors, and
no tick passes while something can be done (`PromptTick`, `PromptStep`).
`WindowsSuffice` and `CarriedInTime` speak of good days only; that a good day
does not simply stop is the matter of `BothSettle` and `ExchangeSettles`.

## Findings

Each is one `violation` run: the property is what a comment or document of the
repository says, and TLC shows a behaviour of the code without it.

1. `receiver_cleanup`: an error of `set_len`, `flush`, `sync_all` or `rename`
   leaves `<dest>.part` behind, past the comment "on any failure path". Where the
   clean-up is called, an error of `remove_file` is ignored.
2. `transfer_done_stall`: DONE is handed over without the stall window. With a
   full buffer and a path that dies silently the sender waits for ever.
   `TransferEnds` shows this is the only way.
3. `destination_race`: a file created between the choice of the destination and
   the rename is replaced, `--overwrite` or not.

Three more divergences show in the models and have no run of their own:

- `ACK` and power (`PowerLoss`): the directory is not synced after the rename, so
  a power failure after the ACK may bring the previous destination back. What is
  there is still whole: `DestWhole` holds.
- Receivers that settled on one free name share its part file. One may acknowledge
  a file that another has truncated between its last chunk and its rename, past
  the comment "Only acknowledge after the file is fully authenticated and
  persisted" (`transfer.rs:338`); `OwnUnlessShared` has to except those that wrote
  at the same time. What remains true of them is `OneAcknowledges`.
- `StatusDone` replaces whatever line is last (`TransferScreen`), and that may be
  a line of the worker, not the step's own.

## Proofs

TLAPS proves these for every value of the constants within their assumptions.
Every invariant and every action property that a passing run checks is a
theorem, and so is the refinement; `PROJECT.json` lists them under `theorems`.
Each module of proofs covers what one or two runs look at.

- **`FileTransferProofs`**, first part, `ChunkReceiver`: `ReceiverTypes`,
  `PartAlwaysMatches`, `DestinationAlwaysWhole`, for every chunk size, every
  limit, any announced sizes and leftovers. The inductive
  invariant `ReceiverIInv` adds to the checked properties what holds in each phase
  (`PhaseInv`): before the rename nothing has reached the destination, and after
  DONE was accepted the counters equal the announced size. `DestWhole` alone is
  not inductive: that the renamed file is whole rests on the part file agreeing
  with the index set (`PartMatchesBookkeeping`) and on a counting argument: as
  many distinct indices below `ChunkCount` as there are chunks are all of them
  (`FS_Subset`), and one extent per chunk covers the file
  (`OneExtentPerChunk`). The lemmas on division are stated once.
- **`FileTransferProofs`**, second part: `TransferKeepsPromise`, the refinement:
  every step of sender, channel and receiver is a step of `TransferPromise` or a
  stutter, for every chunk size, limit, source, window and set of faults.
  `TransferIInv` joins `ReceiverIInv` with the log of the channel: `WireInv` (the
  chunks sent are the source cut in consecutive pieces, and DONE comes after the
  last, when the source has ended), `ReadInv` (the receiver has written what it
  took at the place it came from, so the file that is renamed is `InPlace` and has
  all that was sent), and `SavedInv` (whoever knows of success knows of a new
  file). `StepKinds` sorts the many ways of failing into a few kinds first. It
  assumes, as a hypothesis of the theorem, that the tokens for "no file" and "the
  old file" are not themselves contents of a file (`ContentIsNew`): TLC uses model
  values for them, of which it cannot evaluate that.
- **`ZipSourceProofs`**, first part, the stream: `StreamAlwaysSource` and
  `MemoryAlwaysBounded`, for every size of archive, chunk and channel. The
  invariant follows the bytes: what was written is what was taken, what is queued
  and what is in the chunk being filled (`CountInv`), a short chunk is the last
  (`TakenInv`, `QueueInv`), and the result is "ok" only when the planned files
  have been copied (`PlanInv`). `Total`, the sum of a sequence of lengths, is a
  recursive function; the lemmas on it (`SumsNext`, `TotalAppend`, `TotalHead`) are
  by induction over sets of numbers.
- **`ZipSourceProofs`**, second part, the walk: `PlanAlwaysSelection`, for every
  finite tree, selection and disk and any number of changes by other programs. The
  reference `Selected` is first turned from its recursion into a property of a
  path (`SelectedIs`: a route, each node in what the one before leads on to, that
  ends in a file), which needs that no route is longer than the tree is large
  (`RouteShort`). The invariant `WalkInv` then says of a walk under way: every path
  in the plan or still to be looked at is a route as far as nobody touched it
  (`LooksInv`, `EntriesInv`); every file of the selection that nobody touched is in
  the plan or lies where a look is still to come (`CoverInv`); and if the inputs
  have different names, no two looks and no look and entry lie on one way
  (`ForkInv`). The last is why a duplicate key on an undisturbed disk can only come
  from two inputs of one name. `SourceAssumption`: the tree is numbered from the
  top down, and names differ within a directory.
- **`PeerProofs`**, first part, `DataChannel`: `WakeupNeverLost`,
  `GateAlwaysReopens`, `OvershootAlwaysBounded`, `InboundAlwaysComplete`, for any
  two marks and any number of messages, commands and sockets. All rests on the
  worker's loop (`OneReport`, `ReportIsCurrent`): what one command, datagram or
  timer makes the library report is handled before the next is taken. Then the flag
  is never stale against the buffer (`ShutAboveHigh`, `OpenBelowLow`), one send at
  most is past the gate (`OnePasses`), and a task between its two checks is woken
  by what happens after the first (`WakeInv`).
- **`PeerProofs`**, second part, `IceGathering`: `RoutesAlwaysReach`,
  `GatheredAlwaysTold`, `GatherAlwaysInTime`, for any interfaces of different names,
  any servers, every mapping of the model's NATs, and any timeouts with the
  proportion the code's constants have (`TimesAssumption`: every server but the
  last can use up its resolution and its probe before the deadline). The invariant
  `GatherIInv`: sockets are known by their names (`SocketsDiffer`); the preferred
  socket has spent no more than its turns (`TimeInv`); whatever is under way or has
  arrived answers a request of the present socket, to an earlier server or to the
  host it waits for (`NetInv`); what is found is an address of the socket that
  asked, and candidates have their own route (`RouteInv`).
- **`NostrHandshakeProofs`**, first part: the copies of the bucket rule agree. A
  receiver's hints are exactly the buckets of honoured PINs
  (`HintsAreActiveBuckets`); how far a receiver's clock may be off
  (`ToleratedReadings`); the expiration tag is the instant from which a PIN is no
  longer honoured (`ExpirationEndsActivity`); an event whose PIN is honoured is
  never too old (`ActiveIsNotTooOld`). Assumption: the period is a multiple of a
  second, as in the code.
- **`NostrHandshakeProofs`**, second part: types, `ShownAlwaysClaimable`,
  `HonouredAlwaysFindable`, `NoClaimEverWasted`, `OnlyLockedIsConfirmed`, and the
  action property `RevokedNeverAccepted`, for any set of receivers, clocks, periods
  and timeouts. The invariant `IInv` records why a slow publication is harmless
  (`MintInv`: the next rotation is due at most one period after the instant the
  bucket was read), that retained generations are published and not revoked, that
  a PIN being published has been typed by nobody, and that confirms go to the
  locked receiver. `HonouredAlwaysFindable` combines it with the first part.
- **`SignalingProofs`**: `AlwaysInTurn`, for any candidates, windows, losses and
  orders of delivery: the receiver describes its connection before it handles a
  candidate and the sender keeps candidates until the answer (`TurnInv`).
  `WindowsAlwaysSuffice`, for any window with room for gathering on both sides and
  for one retry per event that may be lost (`RoomAssumption`, which 30 s, 5 s and
  5 s satisfy for three): on a good day neither side runs out of its window. The
  invariant `DayInv` keeps account of time in losses: what a side is still without
  although it was published was lost (`LossInv`), each round is published on time
  (`SenderTimes`, `ReceiverTimes`), so a side that still waits has waited no longer
  than the losses so far explain, which is within the window (`InWindow`).
  `PublishedAlwaysHeld`, for any relays, connections, retries and faults: an event
  whose publication succeeded was accepted by a relay, in the last of the
  attempts or in one before (`HeldInv`). `NothingEverSlipsPast`, for the same and
  any size of the stream: a program's subscription follows its script
  (`Subscribed`), a stream was made before every subscription, and of what the
  subscription is about, all that was looked at was handled and all that was
  delivered was handled, is in the stream, or was dropped from it (`WayInv`). That
  is where the order of the two programs' steps matters: the lemmas
  `ScriptSubscribes` and `SubscribedAtFirst` go through the script step by step.
- **`ManualExchangeProofs`**: `OfferAlwaysReadable`, `AnswerAlwaysReadable` and
  with them `CodesAlwaysReadable`, for every length of the hour, any clocks and any
  stale codes. The invariant `IInv`: a code's hour lies between the hour of its
  date and the current one (`CodesDated`), and an answer's offer was read
  unexpired (`OfferRead`). It needs that `TRANSFER_EXPIRATION_MS` is not longer
  than `BUCKET_SEC`: two constants of the code that are written apart.
  `AlwaysCarriedInTime`: on a good day nobody gives up, provided that a person
  carries an answer within the receiver's connection timeout and that the hour has
  room for that and for gathering (`PromptAssumption`). The invariant `GoodDay`
  follows one wait after another (`OnTime`): choosing ends early enough for
  answering, answering for carrying, and once a code is pasted the rest takes no
  time.
- **`DestinationProofs`**: `AlwaysAsked`, `AlwaysOwn`, `NeverTwice` and
  `DestinationTypes`, for any number of receivers, other programs and files. The
  invariant: a file has one name or is one part file, and who writes to it reaches
  it by its own part file only (`FilesInv`); what was there when a name was chosen
  cannot come back to it (`SettledInv`); beside whom nobody has written owns the
  part file of its name, and no other has it open (`OwnInv`); a file that is in
  place is no part file any more, and in place for one receiver (`OnceInv`).
  `OwnUnlessShared` alone is not inductive: it rests on nobody else having the file
  open, and that on `OnceInv`, since a receiver that opens the part file later
  must not find in it what was put in place.
- **`TuiProofs`**: what the checksum of a PIN detects: every single substitution
  (`SubstitutionDetected`), every exchange of neighbours but those sixteen places
  apart in the character set (`TranspositionDetected`); generated PINs are valid
  (`GeneratedIsValid`). And of the whole run of the TUI (`TuiSpec`):
  `FingerprintAlwaysCurrent` and `PlanAlwaysUsable`, for any disk, letters and
  keys; `CursorsAlwaysInside`, for any finite tree and letters of any width in
  bytes, where the lemmas on the fold `BytesOf` say what typing and deleting a letter
  does to the places where letters begin; `ResultAlwaysLast` and
  `QuestionAlwaysKept`, for any capacity of the log and any number of steps and
  reports. The invariant of the screen, `ScreenInv`: there is one question for a
  task that asks, either in the queue or on the screen, and none else
  (`QuestionInv`); a result is that of a task that has ended, and what the task had
  sent was drained before (`ResultInv`).

Only model-checked is the liveness: `TransferEnds`, `Delivered`, `SourceSettles`,
`EveryCallReturns`, `HandshakeSettles`, `BothSettle` and `ExchangeSettles`. The
proof system has no rule for fairness, which these rest on. So they are known for
the bounds of the runs only.

The assumptions (`ASSUME` in the modules, evaluated in every run) are of three
kinds: sizes and counts are numbers; tokens such as `NoSize` or `Nobody` are
none of the values they stand apart from; and proportions the code's constants
have (`TimesAssumption`, `RoomAssumption`, `PromptAssumption`, the bucket period).
The last are the ones to look at when a timeout is changed.

## What is not modelled

- **Cryptography.** A message is sealed under the right key for its index, or it
  is not; a claim proves knowledge of a PIN, or it does not.
- **ICE, DTLS, SCTP** are the rtc library. A path that comes up, works, dies or
  never exists is an external action; of the library's own state there is what the
  worker reads of it.
- **Strings**: `sanitize_filename`, `normalize_pin`, the packing of manual codes
  (JSON, DEFLATE, base64), event tags beyond those a filter looks at. That
  `<dest>.part` may itself be a file of the user is outside the model: the part
  file is taken to be the program's.
- **The command line**: parsing and dispatch, without state.
- The queue from the worker to `recv` is unbounded in the code and in the model:
  no bound is promised, so none is stated.
- Rendering, wording, the plain-text output, progress and logging. The state of
  the connection and its type are only displayed.

## Plan

The order the modules were written in, most important behaviour first:
`ChunkReceiver`, `FileTransfer` with `TransferPromise`, `ZipStream`,
`DataChannel`, `PinBuckets` and `NostrHandshake`, `P2PSignaling`,
`ManualExchange`, `Destination`, `TransferScreen`; then two clocks in
`NostrHandshake`, `PinChecksum`, `Wizard` and `Tui`, `SendSource` and `ZipSource`,
the set-up and end of the worker in `DataChannel`, `IceGathering`, `NostrClient`;
then the proofs of `DataChannel`, `P2PSignaling`, `NostrClient`, `FileTransfer`,
`Destination` and `Tui`; then those of `ZipStream`, the wizard's cursors,
`IceGathering`, the good days of `ManualExchange` and `P2PSignaling`, and the walk
of `SendSource`.

To come:

1. Type invariants as theorems of the modules that have them in parts of an
   inductive invariant only.
2. The guarantees `FileTransfer` takes from its neighbours, the channel and the
   source, stated as abstract specifications of their own that `DataChannel` and
   `ZipSource` implement.
