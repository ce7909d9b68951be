# A verification of unifi-protect

`unifi-protect` is a client library for the UniFi Protect controller: one
authenticated HTTP transport, one realtime events stream, pools of livestream
sessions and talkback sessions, and a reduced state store that everything else
reads. Most of its bytes are types, projections and error texts. What is hard is
the part that stays alive while the controller does not: it reconnects, it backs
off, it shares one recovery among many consumers, it mirrors a controller whose
reports are lost and late, and it can be disposed in the middle of any await.
This directory models that part, and the codecs and the capture command whose
mistakes are hard to see.

## 1. Inventory

| Component | Source | State | Operations | What is hard | What makes it correct |
|---|---|---|---|---|---|
| Connection monitor | `client/connection.ts` | phase, announced loss and state, last fault, episode track, anticipation, the recovery coroutine | stream faults, the recovery loop (wait, probe, bootstrap, relaunch), expectReboot, reboot watch, breaker rails, disposal | faults and disposal land in any await; two waits share one abort; two schedules share one generator | an outage is always being recovered, healthy is really served, the announcements are consistent, back-off is honoured, disposal ends everything |
| Managed events stream | `client/connection.ts` | current stream, its bridges | build, teardown, relaunch, disposal | a disposal inside the relaunch's own await | no socket is orphaned |
| Events stream socket | `transport/events-stream.ts` | socket, opened promise, fault rail, liveness watchdog | open, message, error, close, stall, abort, disposal | which rail reports what, exactly once | one terminal report; pre-open failures reject `opened` only |
| Transport and breaker | `transport/http.ts` | failure count, open since, pool | send (gate, dispatch, 401 relogin, book), reset, disposal | concurrent outcomes land in any order around a trip | opens at the limit, closes on an answer only, enter and exit alternate |
| Authenticated session | `transport/auth.ts` | cookie, CSRF token, credentials, relogin in flight | login, logout, relogin, handshake | logins and logouts land between the two requests of a handshake | a session is only ever the current login's |
| Managed livestream session | `client/livestream-pool.ts` | state, phase, attempts, the parked window, install latches, init cache, media clock, subscribers | attach, detach, reassess, the recovery loop, segments, closes, watchdog, teardown | six sources settle one window; sessions replace each other under the consumers | never wedged, marker exactly once, init before media, establishment ends |
| Livestream pool, subscriptions | `client/livestream-pool.ts` | keyed map, per-consumer queue | subscribe, push, next, close, dispose | ended subscription against parked consumer | no segment lost, duplicated or delivered after the end |
| Livestream session socket | `transport/livestream-session.ts` | negotiation, socket, decoder, watchdog | connect, frames, close, abort | abort during negotiation; frames cut anywhere, desynchronised by a bad header | nothing held after a release; segments whole, in order, none invented |
| Talkback session | `transport/talkback-session.ts` | socket, buffer ceiling, fault, drains | connect, send, close | a drain races a fault, its signal and its source | a drain ends with its session, whatever its source does |
| State store, observers | `state/store.ts` | state, observers, adoption episodes, the refresh loop | dispatch, observe, refresh, disposal | a snapshot asked for before a patch and answered after it; a wake against a park | the store comes to mirror the controller; no observer sleeps past a change |
| Reducer | `protocol/reducer.ts` | none | bootstrap, add, patch, remove | identity is the change signal | a reference changes exactly with its value, at every depth |
| Selectors | `state/selectors.ts` | content memos | by id, collections, adopted ids | a memo that outlives its content | the same content comes back as the same array |
| Event classification | `protocol/events.ts` | none | classify, subjects | overlapping kinds | state is never taken for activity, an authentication never for an access |
| Packet codec | `protocol/packet.ts` | none | decode, encode | two frames, each damaged in its own way | a packet as it was sent, or nothing |
| Init segment parser | `protocol/init-segment.ts` | none | describe | boxes cut anywhere, sizes of three kinds, a bit reader | an init cut short is described as the tracks it holds whole |
| Failure classification | `transport/failure.ts`, `connection-fault.ts`, `errors.ts` | none | walk a cause chain, classify, level | the event's own error says nothing | the cause the network raised is the one told |
| Composition root | `client/client.ts` | the parts | connect, disposal, the two sinks, `events()`, `rawPackets()` | failures half way through connect; overlapping disposals | what was built is torn down, in order; the firehoses follow the state |
| Event bus, clock, settings | `event-bus.ts`, `clock.ts`, `settings.ts` | listeners, timers | on, once, stream, emit; delay | a listener that throws | the emitter and the other listeners are not affected |
| Connector, WebSocket endpoint | `transport/connector.ts`, `ws*.ts` | the socket, two records of failure | connect, release | the record of a dial against that of a connection | the release leaves no socket |
| Capture command | `util/cli/commands/capture.ts`, `util/cli/scrub.ts`, `util/cli/manifest.ts` | a window over two rails | capture | two rails judged by one another; a document scrubbed of identities in any spelling | all evidence kept, one stand-in to one identity |
| Other commands, diagnostics, logging, devices, types, build | see `PROJECT.json` | - | I/O, projections, tooling | - | - |

How they interact. The composition root hands the monitor four closures: a
probe and a bootstrap that go through the transport, a relaunch and a disposal
of the events stream. The transport calls the authenticated session back on a
401 and stamps its headers on every request. The breaker's two rails and the
events stream's fault rail call the monitor; the store's refresh and the
monitor's bootstrap dispatch to the store, whose `nvr.upSince` the monitor
observes. The events stream dispatches every packet to the store. The livestream
pool keeps one managed session per (camera, channel) and replaces its socket
sessions; it shares with the rest only the negotiation through the transport. A
capture opens both firehoses of the client, judges every frame of one by what it
knows from the other, and writes what it kept.
Everything runs in one event loop: an await is the only place another component
can act, so an action is the code between two awaits.

`PROJECT.json` lists every component with what is and is not modelled, and under
`hazards` what is hard to test in this code, each at its line.

## 2. What is modelled

| Module | Code | Role |
|---|---|---|
| `ConnectionView` | what `ConnectionMonitor`'s consumers are promised | abstract specification |
| `ConnectionMonitor` | `client/connection.ts` | detailed specification, implements `ConnectionView` |
| `MCConnectionMonitor` | - | the instances TLC checks |
| `ConnectionMonitorProofs` | - | theorems, for every schedule, hint and boot time |
| `LivestreamRecovery` | `ManagedSession` and the default policy of `client/livestream-pool.ts` | detailed specification |
| `MCLivestreamRecovery` | - | the instances TLC checks |
| `Transport` | `transport/http.ts` | sends, breaker, pool reset; has no next-state relation of its own |
| `AuthSession` | `transport/auth.ts`, composed with `Transport` | logins, logout, relogin over one breaker |
| `AuthSessionProofs` | - | theorems, for every limit and any number of requests and logins |
| `LivestreamProofs` | - | theorems about `LivestreamRecovery`, for every curve, bound, policy and format |
| `Reducer` | `protocol/reducer.ts` | operators over records with identities |
| `PacketEvents` | `protocol/events.ts` | the taxonomy, used by `StateStore` and `PacketCodec` |
| `StateStore` | `state/store.ts`, `state/selectors.ts`, over `Reducer` | the store between its controller and its consumers |
| `MCStateStore`, `StateStoreProofs` | - | instances; theorems about the observers, adoption and references, for every selector, device and controller |
| `FailureRules` | `transport/failure.ts`, `transport/connection-fault.ts`, `transport/ws.ts` | what a failure is, and what a teardown is called |
| `OwnedSocket` | the lifecycle of `events-stream.ts`, `livestream-session.ts`, `talkback-session.ts`, over `connector.ts` | abstract specification of an owned socket |
| `OwnedSocketProofs` | - | theorems, for every set of causes |
| `TalkbackSends` | `TalkbackSession.send` | drains over an `OwnedSocket` |
| `InitSegment` | `protocol/init-segment.ts` | boxes, tracks, codecs |
| `FrameDecoder` | the decoder of `livestream-session.ts` | frames into segments |
| `PacketCodec` | `protocol/packet.ts` | frames into packets |
| `MediaSockets` | the three owners with what they carry | composition; implements `OwnedSocket` |
| `MCMediaSockets`, `MediaSocketsProofs` | - | instances; the refinement, and a theorem about what is told of packets |
| `PoolSubscriptions` | the pool and subscriptions of `client/livestream-pool.ts` | sharing, queues, iteration |
| `ClientRails` | the sinks and firehoses of `client/client.ts`, over `event-bus.ts` | fan-out and iteration |
| `ProtectClient` | `client/client.ts` | connect and disposal, composed with the two above |
| `Json`, `SchemaDiff`, `SchemaManifest`, `Scrub`, `CaptureWindow`, `CaptureBundle` | `util/cli/manifest.ts`, `util/cli/scrub.ts`, `util/cli/commands/capture.ts` | operators over the documents of a capture |
| `MCProtectClient` | - | instances of the client and of a capture over it |
| `PoolSubscriptionsProofs`, `ProtectClientProofs` | - | theorems, for any number of subscribers, sessions, segments, frames and disposals |

An action is the code one event loop turn runs, up to the await it parks on,
with every synchronous call it makes. Variables are named after the private
fields they model; each declaration says which. History variables say so
(`refusals`, `sends`, `told`, `fanned`, `used`). In front of an operator stand
the mutants of it, marked `Mutant:`; nothing but the mutation runs uses them.

### ConnectionMonitor

`loop` is where the coroutine of `#recover` and `#attemptRecovery` is parked:
`waiting` (the delay), `verifying` (the probe), `bootstrapping` (the fetch),
`closing` (the teardown's await in `relaunch`), `opening` (`opened`), and
`woken`, `opened`, `returning` for the promise jobs between an event and the code
that answers it. `phase`, `announcedLoss`, `episodeTrack`, `lastFault`,
`reported` are the monitor's fields; `stream` and `sockets` are the managed
stream's. `wait` is the last wait the generator `#recoveryDelays` yielded, with
the schedule and the rung it came from.

| Action | Code |
|---|---|
| `StreamDies`, `FrameUndecodable` | the fault rail of `EventStream` into `#onStreamFault` |
| `WaitElapses`, `WaitAborted` | the delay in `#recover`, and both aborts of it |
| `VerifySucceeds`, `RequestFails`, `BootstrapSucceeds` | `#attemptRecovery` up to the relaunch |
| `RelaunchBuilds`, `OpenAborted`, `StreamOpens`, `StreamNeverOpens`, `StreamReleased` | `ManagedEventStream.relaunch`, teardown, `opened` |
| `OnRecovered`, `RecoverReturns` | the end of the attempt, of the loop, and its `finally` |
| `ExpectReboot`, `AnticipationExpires`, `StoreRefreshes`, `WatchReboots` | reboot anticipation and detection |
| `OnThrottle`, `Dispose` | the breaker's rails; `Symbol.asyncDispose` |
| `ControllerTurns` | the controller: up, or failing with one class of answer |

A failure is told apart by what clears it (`lossClassOf`) and whether it is a
refusal. Time is the firing of timers: a wait has a length that properties
compare, and elapses at any moment. `WatchReboots` handles the newest of the
boot times its observer may have queued. An emission is part of its action, so
a listener that calls back into the monitor within it is not modelled.

### LivestreamRecovery

`loop` is `#runEpisode` (none, parked on a window, or settled and about to go
on); `session` the current underlying session; `install` the three latches of
`#install`; `cache` the init cache; `watching` and `silence` the media watchdog;
`urgency` what each consumer's closure returns now. `elapsed` is the time an
establishing episode has waited; it adds up whole windows, so a window that a
reassessment ends counts nothing (only a recovery's window is reassessed).

| Action | Code |
|---|---|
| `Attach`, `Detach`, `PoolDisposed`, `Reassess`, `UrgencyMoves` | the consumers and the pool |
| `Resume`, `WindowElapses` | the loop past its window, the window's timer |
| `InitArrives`, `MediaArrives` | `#onSegment` with the codec gate, the recovery's media and the fan-out |
| `SessionDies` | `#onSessionError`, `#onSessionClosed` |
| `WatchdogPass` | one pass of `#runWatchdog` |

`Decisions` is what the policy may return: the default policy's decision as the
code computes it and, with `CustomPolicy`, a wait or a give-up as well; with
`UrgencyThrows` a consumer's closure may throw wherever the code reads one.

### Transport and AuthSession

`call` holds each send in flight: its marks (`probe`, `retry`), whether its
caller cancelled it and whether its pool was destroyed under it. `hand` holds
each handshake: every `login` has one, and all relogins share one, whose `done`
state holds the outcome until each request that awaits it resumed, which is what
`#reauthInFlight` does. A status is one of seven kinds, the finest the code
tells apart: `controllerServing`, `isTransientStatus` and `rejectedSignIn` cut
them differently. The pool's own retries are part of one answer.

Two things the code does are visible in the model and worth knowing. A `login`
whose root or whose post fails without an answer leaves the previous session's
cookie in place beside the new credentials (`HandshakeFails` changes no session
variable). And a `login` does not coalesce with a relogin of the same
credentials, so of those two the one that ends last decides the cookie:
`SessionEndsOnOwnAccount` protects a login from the handshakes of other logins
only. No property claims more than that.

### StateStore

`truth` is the controller (external), `wire` the packets of its events stream,
`fetch` the bootstraps asked for, `state`, `engaged`, `disposed` and `observers`
the store's private fields, `memo` the slot of the content memo behind
`adoptedIds`, and `obs` each observer with the generator that iterates it. A
record is a value and the identity it was born with: `Reducer` allocates the way
the code does, a new object only where something changed, so comparing `born` is
comparing references.

| Action | Code |
|---|---|
| `PacketArrives`, `Answered` | `classifyPacket` or a fetched bootstrap into `dispatch`: adoption episodes, fold, commit, each observer evaluated |
| `Ask`, `ControllerSnapshots`, `AskFails` | `#runRefreshLoop`, and the bootstrap of a recovery |
| `Observe`, `ObserveEnded`, `Pull`, `Wakes`, `Breaks`, `Aborts` | `observe`, `iterate`, `close` |
| `Dispose` | `Symbol.asyncDispose` |
| `Controller...`, `PacketLost` | the controller changes, a packet is lost (external) |

What a snapshot overwrites is not denied: a refresh asked for before a realtime
patch and answered after it does put the older value back. `LossHealed` states
what the code relies on instead, that a later refresh mends it.

### OwnedSocket, TalkbackSends, FrameDecoder, PacketCodec, MediaSockets

The three socket owners have one lifecycle with few differences, so it is
modelled once and `kind` says which of the three a behaviour is about. `ws` is the
WebSocket's readyState and `due` the event it still owes; `conn`, `lastDial` and
`lastConn` are the connector's; `bound`, `listening`, `live`, `released`, `watch`
are the owner's; `told` is everything it reported, `ended` (history) what first
set its end in motion, `struck` (history) what the network raised.

| Action | Code |
|---|---|
| `Construct`, `ConstructAborted`, `Negotiated`, `NegotiationFails` | the constructors, `#connect` |
| `Opens`, `HearsError`, `HearsClose`, `HearsMessage` | the listeners `#onOpen`, `#onError`, `#onClose`, `#onMessage` |
| `CallerAborts`, `CloseCalled` | the caller's signal, `close()` |
| `WatchdogWakes`, `WatchdogTrips` | `#runWatchdog` |
| `Connected`, `DialFails`, `ConnectionErrs`, `UpgradeRefused`, `PeerCloses` | the network (external) with the connector's records |
| `Send`, `SourceSettles`, `SendAborts`, `Continues`, `CleanupSettles` | `TalkbackSession.send` and its race |
| `LivestreamMessage`, `EventsMessage` | `#onMessage` of the two that read: `Decode`, `Hears` |

`FrameDecoder` cuts a wire of atoms (two of a header, one of a payload) into
messages anywhere; `Iteration` is one turn of the loop of `#onMessage` and `Decode`
takes as many as a packet can need. The reference reads a set of frames in order,
without messages: `Segments` what they complete, `InitLeft` what they leave for a
late joiner, `MadeFrom` what a segment depends on. `InitSegment` walks boxes whose
units are single fields; the reference is the tracks each init was made of.
`PacketCodec` keeps a header's fields and each way a frame is damaged.

### PoolSubscriptions, ClientRails, ProtectClient

`pool`, `managed`, `subs` and `drains` are the pool's map, its sessions seen from
their subscribers, the subscriptions and their `#drain` generators; `hoses` are the
iterations of `events()` and `rawPackets()`; `stage` is where `connect` is parked,
`tearing` the place in `DisposalOrder` each disposal has come to, `standing` the parts
that are built. The pool's disposal closes its sessions in one turn, in parallel
in the model: what closing one changes, no other reads.

| Action | Code |
|---|---|
| `Refuses`, `Begins`, `Authenticated`, `LoginOrFetchFails`, `ApplyFails`, `Assembles`, `StreamOpens`, `OpenFails` | `connect` and the teardown each failed stage owes |
| `Dispose`, `TearsDown` | `Symbol.asyncDispose`, one part per await |
| `StreamLost`, `Relaunches`, `RefreshDue`, `RefreshSettles` | the monitor's and the store's parts, as the client sees them |
| `Frame`, `Opens`, `AsksMore`, `Hands`, `SignalAborts`, `EndsQuietly`, `Breaks` | `rawPacketSink`, `packetSink`, the bus streams and the firehoses |
| `Subscribe`, `SubscribeAborted`, `DisposeSubscription`, `Asks`, `Looks`, `Break` | `LivestreamPool.subscribe` and a subscription |
| `FansOut`, `SessionFails` | a managed session, seen from outside: `LivestreamRecovery` is its inside |

### Json, SchemaDiff, SchemaManifest, Scrub, CaptureWindow, CaptureBundle

A capture is a function of the frames its two rails handed out, in that order, so
these modules are operators: `SchemaDiff` compares documents with the manifest,
`CaptureWindow` folds frames into a window, `CaptureBundle` assembles the bundle of
it, `Scrub` replaces what identifies. The walk of one record against its tree is a
parameter of `SchemaDiff` (`WalkNode`), so that what a window keeps can be proved
of any walk; the configurations give it the code's, `WalkTree` of `SchemaManifest`,
which also has what the manifest's loader accepts. A string is a shape (`mac`,
`email`, `ipv4`, ...), the thing it names and the spelling it is in; that is what
the scrub's expressions tell apart. A path of several keys is a shape of its own,
since the scrub's guards recognize whole strings only and its keys stay as they
are. `EvidenceIsKept` and `BundleIsPseudonymous`
are checked on the captures the behaviours of
`ProtectClient` end with, frames, relaunches and signals interleaved as they come.

## 3. Runs

| Run | Configuration | Shows |
|---|---|---|
| `monitor_safety` | `ConnectionMonitor.cfg`, 1.6 million states | every safety property of the monitor and the refinement of `ConnectionView` |
| `monitor_liveness` | `ConnectionMonitorLiveness.cfg` | recovery never gives up; disposal releases everything |
| `livestream_any_policy` | `LivestreamAnyPolicy.cfg`, 78 thousand states | what holds whatever an injected policy decides and whichever closure throws |
| `livestream_default_policy` | `LivestreamDefaultPolicy.cfg`, 45 thousand states | what the default policy adds, and liveness |
| `livestream_throwing_urgency` | `LivestreamThrowingUrgency.cfg` | the first finding below |
| `auth_safety` | `AuthSession.cfg`, 379 thousand states | the breaker and the session under every interleaving |
| `auth_liveness` | `AuthSessionLiveness.cfg`, 27 thousand states | every request settles |
| `store_observers` | `StateStoreObservers.cfg`, 74 thousand states | no observer misses a change, is told one twice, or sleeps past its wake |
| `store_healing` | `StateStoreHealing.cfg`, 46 thousand states | references change with values, no contradiction is kept, losses are healed |
| `media_sockets` | `MediaSockets.cfg`, 239 thousand states | the three socket owners, with their segments, packets and drains |
| `client_composition` | `ProtectClient.cfg`, 345 thousand states | connect, disposals, subscriptions, firehoses and the captures they end in |
| `client_firehose` | `ProtectClientFirehose.cfg` | the second finding below |

Deadlock checking is off in every run: after a disposal or a teardown each of
these systems rests.

The bounds, and why they are enough.

- `Streams`: two. A relaunch builds its stream only once the old one's socket
  is released, so a third identity would never be in use; `NoStreamOrphaned` is
  also proved for any number.
- Ladders: two rungs each, one of the tracks opening at zero, the refusal
  ladder crossing the network ladder, a steady wait above both, and a hint
  above the largest wait. Rungs past a ladder's end all read its steady wait, so
  counters saturate there. The properties of the waits are proved for all
  ladders.
- `BootTimes`: three values, two closer than the threshold and one beyond it.
- The liveness instance of the monitor keeps one rung, no hint and two boot
  times: what it asks concerns the order of steps and not the lengths of waits.
- Livestream: two subscribers (one and a late joiner), two formats (the same
  and a changed one), urgencies that are finite and infinite, and curves of
  three windows with the bounds in the proportions of `settings.ts`; `attempts`
  saturates where the longer curve does and `silence` at the longest finite
  threshold.
- Auth: two requests, so that one begins a relogin and another shares it or
  meets the next; two logins, so that one replaces the other; `Limit` two, so that
  the trip needs failures of two sends. Each login's snapshot is taken once
  (`used`), which bounds the logins of a behaviour. The liveness instance has one
  login. The safety properties are proved for any sets and any limit.
- Store: a device of ours that the controller may contradict itself about, one
  that comes and goes, and a collection without packets. `MaxChanges` counts the
  changes of the controller: two where healing is asked (a removal and a
  re-adoption around a snapshot), with two fetchers so that snapshots overlap;
  one where two observers iterate, since a change, its stale snapshot and the
  refresh that mends it already make three commits. `NoLostWakeup` is proved for
  any number of each.
- Sockets: three chains for a dial, two for a connection, every kind of owner with
  an owned and an injected dispatcher, a signal absent, quiet or aborted already;
  one drain, since drains share nothing. A livestream's wire has an init and two
  segments in every kind of frame; a message is any stretch of it, so every cut
  happens. At most one header is garbled: the first after the init, or the one
  that ends the first segment. An events stream carries one packet of
  every kind `PacketEvents` tells apart and one frame damaged in every way
  `PacketCodec` does, with only the last remembered: what is remembered longer
  (`seen`, `published`) is a set and its order.
- Client: two callers that dispose, two subscriptions to one key, two managed
  sessions (a stream given up and its successor) and two segments among them; two
  firehoses, one of each rail, and two frames out of six packets (declared and
  undeclared members, an addition by name, an unknown class, an unknown event
  type, a document no store folds). `OneSurfaceUsed` leaves unexplored the states
  in which the subscriptions, the rails and the store's failsafe are under way at
  once: they share no variable but `standing`, so a combination adds no behaviour
  to either. A surface at its bound (two frames; two sessions and two segments) is
  not disposed of, and one below it is, at every point; a second disposal overlaps
  the first while no surface is in use, and after the pool is gone if the sessions
  it held had fanned nothing out, which is where a second disposal of the pool
  differs from the first (a session subscribed in between). Subscriptions and
  callers are symmetric and no liveness property is checked in this run.
- Capture: one exemplar per group where the code keeps three
  (`PROTECT_CAPTURE_SNAPSHOT_EXEMPLARS`), so that a group overflows; an axis absent
  or naming a device; four candidate manifests, three of which the loader must
  refuse.

### Properties

Of the monitor: `OutageIsBeingRecovered` (a recovery runs exactly while the
phase is not healthy), `HealthyIsServed` (a monitor that reads healthy has an
open stream: the fault that lands while recovery ends is not lost),
`AnnouncedIsCurrent` (the cache that dedupes `stateChanged` hides no edge),
`NoStreamOrphaned`, `WaitsAreMeasured` (after k refusals at least rung k, no
answer parks recovery past the slowest, and a controller that stopped refusing is
probed on the prompt track), `ImplementsView`, `RecoveryNeverGivesUp` (it
probes until disposal, and reconnects a controller that stays up),
`DisposalReleasesAll`.

Of the livestream: `NeverWedged`, `TornDownIsQuiet`, `MediaAsAnnounced` (every
splice marked once, every format announced before its media),
`ProvenStreamNeverGivesUp`, `WindowWithinHeadroom`, `EstablishmentConcludes`,
`SilenceIsNoticed`, `StalledStreamReturns`.

Of the transport and the session: `OpenAtLimit`, `RailsAlternate`,
`LoggedOutStaysOut`, `SessionEndsOnOwnAccount`, `ResendIsEarned`,
`EverySendSettles`.

Of the store: `ObserverNotBehind` (whoever keeps pulling ends at the current
value and is told none twice, whichever neighbour's selector throws),
`NoLostWakeup` (a parked iterator has nothing to hand over and somebody left to
wake it), `IdentityIsChange` (at every depth a reference is new exactly when its
value is), `ContradictionNeverStored` (no order of patches, snapshots and
re-adoptions leaves a device that reads as ours and another's), `LossHealed`.

Of the sockets: `NothingHeldAfterRelease`, `OneAccount` (the end is told once, as
what first caused it, with the cause the network raised), `SegmentsExact` (the
segments out are those of the frames heard, whatever messages the wire was cut
into; a garbled header costs nothing ahead of it, and no segment whose own frames
were heard), `InitsRead` (an init is described as the tracks it was made of, one cut
short as those it holds whole), `EventsFaithful`, `DrainEnds`, `SilentSocketEnds`.

Of the client: `NothingOutlivesTheClient`, `OneSessionPerStream`,
`DeliveredInFull` (a subscriber is given the cached init and all that follows, and
its end after the last of it), `FirehoseFollowsState` (a firehose hands out each
frame once, in order, and the state already shows what `events()` tells),
`EvidenceIsKept` (a capture keeps exactly the frames and the occurrences it has a
reason to keep, and follows a device as novel exactly when a finding says why),
`BundleIsPseudonymous` (every string that identifies by its catalogued key or by
its whole shape is replaced and no other is, coordinates are zeroed, the spellings
of one thing have one stand-in and those of two have two; the manifest sees what it
has to, and every undeclared member is counted). It says where identity stays: in
the path of a finding, which joins keys, and in a version; and where form does not:
two keys of an object that scrub to one stand-in leave the later's member alone.
The document it is checked on has each of these.

`ConnectionView` is what a consumer that follows the events may rely on: one
`controllerLost` per class of loss, a `controllerRecovered` exactly for an
announced loss, and the sequences of states the phases allow. The monitor
implements it under the mapping at the end of `ConnectionMonitor`. `OwnedSocket`
is the second abstract specification: `MediaSockets` implements it with the
identity on its variables, each step one of the socket's or none.

### Assumptions on the environment

- Promise jobs of a turn run before the next socket event or timer. In the
  monitor this is the constant `TurnsDrain`; in the livestream and the session it
  is the guard `NewTurn`. It is how the event loop delivers separate events, but
  one socket read can deliver two. Where it fails, `HealthyIsServed` and
  `OutageIsBeingRecovered` fail with it (a stream that opens and dies in one turn
  is announced healthy), and a livestream's window could have its settler cleared
  by the `finally` of the previous one. Both are listed as hazards or stated in
  the theorem that needs the assumption. The store, the sockets and the client
  assume nothing of the kind: their jobs interleave with everything.
- A session sends its init before its media (`MediaFirst = FALSE`) where
  `MediaAsAnnounced` is checked: the code says the other order is not observed in
  practice and handles it, but media that comes first is then delivered behind
  the earlier session's init. The default-policy run allows it.
- A WebSocket that is still connecting fires `error` and `close` inside `close()`,
  and every other event comes in a job of its own, which is what undici does.
- A source's pull settles in a later job than the one that asked for it, and a
  source that is asked to clean up, and is not parked, does.
- A frame decoder out of step reads a payload's byte as a type; it is taken to be
  none of the nine. A byte that happens to be one would make the decoder accept a
  frame that never was, and nothing in the protocol tells.
- A subscription and a firehose have one iterator each, as `for await` makes them.
- An injected socket factory or dispatcher does not throw where the client builds.

### Fairness

- Monitor: weak fairness of the recovery coroutine's steps (timers fire, promise
  jobs run, and every request carries a deadline, so it settles), of a disposed
  stream's release and of a connecting stream's outcome, all of which belong to
  the runtime. `StreamOpens` has strong fairness: that a controller which is up
  accepts a stream when asked again and again is an assumption about it, and
  only the half of `RecoveryNeverGivesUp` that supposes such a controller
  (`RecoversOnceServed`) depends on it.
- Livestream: weak fairness of `Resume`, the window's timer and the watchdog's
  poll, all of them timers or promise jobs. `StalledStreamReturns` alone supposes
  a serving camera, in its antecedent `CameraServes`: the camera's first init and
  first media of a session are not for ever beaten by a window or by a consumer's
  reassessment.
- Session: strong fairness of each send's settling, since its deadline's timer
  fires in some turn, however many relogins of other requests end before; weak
  fairness of the promise jobs.
- Store: the refresh loop asks (its timer), an answer that was sent settles (its
  deadline), and a controller asked again and again answers again and again
  (strong fairness, an assumption `LossHealed` needs). Nothing is assumed of
  packets, of a recovery or of the consumers.
- Sockets: the drain's own jobs run, and the watchdog's delay elapses. Nothing is
  assumed of the network or of a source's next chunk.
- Client: a disposal's awaits end, and a consumer's loop takes what it is given.

### Findings

`livestream_throwing_urgency`: the watchdog reads the consumers' urgency closures
without a guard. One that throws rejects `#runWatchdog`, and the handler that
`#armWatchdog` attaches for the expected abort swallows it: the stream stays
live, unwatched and unlogged until its next reconnect, while the code calls the
watchdog always on. The same throw while a recovery consults the policy is
logged and ends the stream.

`client_firehose`: `client.ts` says `events()` and `rawPackets()` run until the
signal aborts or the client is disposed. The disposal stands down the monitor, the
pool, the store, the session and the transport, and never the bus whose streams
the firehoses iterate, so a consumer parked without a signal waits for good.

Seen while modelling, and in the models, though no run calls it a violation: a
breaker that trips after the transport's disposal, or a reset then, rebuilds a
pool that only another disposal destroys (`Book`, `ConsumerResets`, `Release`);
an address that is the key of an undeclared member inside a declared object stays
in the path of its finding, where `scrub.ts` says that none of the real values
survive (`PathText`, and the exception in `Pseudonymous`); and of two keys of one
object that scrub to one stand-in, only the later's member is written (`FromEntries`).

Seen while modelling, outside what the runs claim: two iterators over one
livestream subscription overwrite each other's wake; a message of several
segments goes out whole although a listener closed the session at its first; a
dispatcher or socket factory that throws inside `new ProtectClient` leaves what
`connect` had built.

## 4. Proofs

Everything below is checked by TLAPS for every value of the constants that
satisfies the named assumptions: the ladders are sequences of naturals bounded by
the slowest interval, the hints are naturals, the limit is positive, `None` and
`Nothing` are none of the values they are told apart from, the handshakes are
those of the logins and the relogin, a chain of causes is never empty, no session
and no segment is mistaken for their absence, urgency curves are sequences of
naturals. Of the controller the store's proofs assume what the types and docs say
(`ControllerAssumption`: a device's full record asserts its adoption, a
controller keeps its own MAC) and that it holds documents of the depth `Reducer`
models (`DocumentsAssumption`: finitely many fields, each a leaf or an
object of leaves); collections, observers and ids are any finite sets, selectors any
of the modelled shapes. Of a capture's documents they assume that the manifest's
tiers of model keys are nested and resolve (`VocabularyAssumption`, what its loader
refuses otherwise), that a bootstrap is an object of collections
(`BootstrapAssumption`), and that the walk of one record reports fields of that
record (`WalkAssumption`, which TLC evaluates with the code's walk: that a
recursion over trees does so for every tree is induction over data).

`ConnectionMonitorProofs`. Types come first (`TypeCorrect`). What concerns the
waits follows from an invariant `Scheduling`: where the coroutine waits, the
wait's schedule is the one the recorded fault calls for, its delay is the one its
rung gives, and after k refusals the rung is at least k (`WaitsAlwaysMeasured`,
which joins `RefusalsAlwaysBackOff`, `NeverParkedLong` and `ClearedRefusalPrompt`).
`AnnouncedAlwaysCurrent`, `SteadyIsClean` and `StreamsNeverOrphaned` are inductive
with the types alone. `OutagesAreRecovered` and `HealthyAlwaysServed` are not: that
a healthy monitor has an open stream holds because a fault that lands while recovery
ends must come in a later turn, so the invariant `Coordination` relates the phase,
the place the coroutine is parked and the socket's state, and is inductive under the
assumption `TurnsDrain`. The refinement `MonitorImplementsView` rests on it: an
announcement of a recovery is a step of the view only because the loop that makes it
was in an outage.

`AuthSessionProofs`. The breaker is argued about without looking at requests:
`StepsBookOnce` shows that a step of the whole system books at most one outcome,
and `OpensAtLimit` and `RailsAreEdges` need nothing else. `LogoutIsFinal` needs that
a handshake in progress has an owner (`Owned`), or a logout could be mistaken for
it. `ResendsAreEarned` needs that a relogin that ended with a yes has left the
current login's whole session and a closed breaker until every request sharing it
resumed (`Earned`), and that no other step puts a request back in flight
(`CallsInductive`). `SessionsEndOnOwnAccount` follows from the session's types.

`LivestreamProofs`. `NeverWedged` is not inductive: whether an episode is running
depends on what the last one settled as, and a settled loop may belong to a stream
that has since closed. `IInv` says of the loop what its outcome implies of the
state (`LoopFits`), of the state which regime it is in (`RegimeFits`), and of the
three latches what of the session in force was fanned out (`InstallFits`): the
marker is armed exactly while the media before it was an earlier session's, which
is why no chain of failed sessions loses or repeats it. With it, `StreamNeverWedged`
and `TeardownIsFinal` are consequences, `ToldFits` adds what the consumers were
told and gives `StreamReadsAsAnnounced` under `MediaFirst = FALSE`, and
`ProvenStreamRetried` holds of the default policy with closures that do not throw.

`OwnedSocketProofs`. `SInv` joins both properties to what makes them inductive:
an owner that negotiates has no socket (`Unbuilt`), a record of the connector is a
cause the network raised (`Records`), and nothing is told before the release
(`Untold`). The account a teardown gives is computed once (`AccountOfEnd`) and the
one teardown is one lemma (`OnCloseKeeps`), so each of the seven ways to reach it
only has to say which teardown it is. `MediaSocketsProofs` shows that the owners
with their cargo implement the lifecycle (`MediaImplementsSockets`) and inherits
both theorems, so they hold in the middle of a segment, a packet or a drain.
`EventsAreToldFaithfully` (`EventsFaithful`) puts together the codec
(`EncodedReadsBack`, `DamagedReadsAsNothing`), the taxonomy (`TakenForWhatItIs`) and
the drift book (`DriftTold`: what is published is what was seen, each once); a
packet is any record that encodes to something other than garbage
(`PacketsAssumption`), a damaged frame any with one of the ways a frame is damaged
(`DamagedAssumption`).

`SegmentsAreExact` (`SegmentsExact`) holds of any script of frames, any cut of the
wire and any set of garbled frames of the script (`GarblesAssumption`). The wire, the
listing of a set of frames and the loop of `#onMessage` are recursive functions, and
what they compute is proved without induction over data: a claim about all their
arguments is refuted at the least one where it fails (`LeastOfNaturals`), and that a
recursion defines a function at all is the same argument (`WireExists`,
`OrderExists`, `TurnsExist`). `WireRead` says which frame's atom lies where on the
wire; `InOrderGrows`, `SegmentsGrow` and their like what one more frame, later than
all others, adds to the reference; `FrameHandled` that `#handleFrame` adds just that.
The loop's invariant is `At`: it has dealt with the first q atoms of the k that have
come, the decoder is exactly what the whole frames among them that are not lost make
it (`Heard`), and a frame the loop stands in the middle of is a lost one (`Keeps`).
Each turn moves q on or leaves no whole frame behind (`OneTurn`), so after as many
turns as the packet has atoms the decoder is at rest (`DecodeRests`), which is the
inductive invariant `DecoderRests`. That a segment survives the loss of frames it was
not made from is a fact about the reference alone (`SentSegmentsOut`).

`StateStoreProofs`. `WInv` says of each observer alone what lets it sleep, and each
method of `StateObserver` keeps it (`EvaluateFits`, `CloseFits`, `IterateFits`), so
a dispatch, which touches every observer, needs no argument about the others or
about what was folded: `ObserversWake` holds for any selector and any reducer.
`ObserversKeepUp` (`ObserverNotBehind`) says what they are handed. `TInv` says that
every registered observer was `Told`: what it holds, what it drains and what is
queued has no two equal neighbours and ends at the identity it enqueued last, which
is what its selector returns now unless the selector threw at the last commit; and
that the memo is the state's while somebody watches ids. Each method keeps it
because `evaluate` compares before it enqueues, and a throwing selector is a case of
the dispatch alone.

`ContradictionIsRefused` (`ContradictionNeverStored`) is about values. `StoreInv`
says that every stored record is `Sound` (plain, and not contradicting itself under
the controller's MAC) and that an episode is open only for a device whose record was
`Corrected`; a patch judged with the stored fields (`AdoptionView`) leaves the merged
record as it was judged (`PatchedIsSound`), which is what the code rests on. It also
covers what is under way: the controller, the packets on the wire and the snapshots
in flight hold full records, or patches whose named fields are a full record's,
whatever their age and order.

`IdentityIsTheSignal` (`IdentityIsChange`) is about references, in three parts.
What a fold makes of one value (`Altered`): the object it found, or one born in it
whose value differs. It is proved for fields, records, collections and the state in
turn (`FieldMerged`, `RecordPatched`, `RecordReconciled`, `CollectionReconciled`,
`FoldRenews`), and needs that what the fold takes in was born in it throughout
(`NewlyBorn`), as a document fresh from the parser is. Then that every place of the
state is renewed so (`PlacesChange`). And that what is born now was alive nowhere
before: `Now` is a least number that is not in `Live`, so one has to exist, which
is a counting argument over everything alive (`LiveFinite`, `OneIsLeft`). `IdInv`
keeps that the state, the controller, the wire and the snapshots are made of
documents and that what observers remember is finite.

`PoolSubscriptionsProofs`. `OneSessionPerStream` is inductive once the map is read
both ways: `PoolInv` says that a key maps to a live session of that key and that
a live session is the one at its key, that none of them is without subscribers, and
that each has its history. A disposal breaks the second part for one session between
the subscriber's leaving and the teardown, which is what `HeldBut` is for.

`DeliveredInFull` is about the past of one subscriber: `DeliveryInv` says that what
it was delivered and what its queue holds (`Had`) are together exactly what is `Due`
to it of what its session fanned out since it joined, the init it was replayed
included, that a cached init is the last of its session's (`CachesFit`), and that
queues, marks and ends fit the stage of each subscription (`SubsFit`). It is kept by
each pool step with the other subscribers' entries untouched (`DeliveryStep`), by a
client step because a disposal ends every session first (`PoolDisposedDelivers`),
and `SubscribersGetAllTheyAreDue` draws the property from it. Of the values it
assumes that `NoSession` and `Detached` name no session and that the absence of an
error is no segment (`SessionAssumption`, `ErrorAssumption`).

`ProtectClientProofs`. `LifeInv` adds to the order of the parts what a disposal in
flight has behind it (`Cleared`), that only a rejected `connect` or a connected client
has one, and what stands in each stage (`StageFits`): then a second disposal finds
gone what the first took, and `PartsStandInOrder` needs no bound on how many overlap.
`Retired` keeps the sessions of a disposed pool down, since no pool step raises one
(`StaysDown`), and with it `NothingIsLeftBehind`. `FirehosesMissNothing`
(`FirehoseFollowsState`) rests on `RailsInv`: what each firehose handed out and
queued (`Given`) is, in order, what its rail `Carried` of its kind since it was opened
(`HoseFits`), and what the rail has been heard to say is what the store applied.

`CaptureKeepsItsEvidence` (`EvidenceIsKept`) is about those two rails read against
one another. A window is a function of the frames its raw rail was handed, so half
of the argument has no steps in it: after n frames a window follows the devices that
the bootstrap or one of the n frames earned a place (`FollowsEarned`), each one it
follows as novel is backed by a finding of its own (`WindowSound`), and it kept the
frames there was a reason to. `SeedFits` starts that from the bootstrap,
`BootstrapDiffed` and `EntryDiffed` saying through two flattened sequences
(`FlattenedIs`) which record a finding came from; `ConsumeFits` adds one frame,
diffed before it is judged; `WindowsFit` goes through all of them. The window and
the listing of kept frames are recursive functions; that they are defined, and what
they compute, is drawn again from the least place where a claim about them fails.
The other half is `CaptureInv`, `RailsInv` with `BesideFits`: beside each frame a
rail hands out stands how many the other had handed out by then, and never more than
it has now, so an occurrence is judged by a window the raw rail really had;
`HandedCame` adds that a rail hands out only frames that came.

`LivestreamProofs` also holds `WindowsSpareTheUrgent` (`WindowWithinHeadroom`). The
policy takes the least of the urgencies its consumers return; that a set of naturals
has a least member is not in the provers' arithmetic, so `LeastOfNaturals` draws it
from the well-foundedness of the naturals. `ConsultedFits` keeps the attempts natural
and the urgencies typed, with which the window of every consultation is within its
ceiling (`ConsultedWindow`), and only a consultation parks a recovery.

Only model-checked: every liveness property (`LossHealed` among them), since
liveness under fairness and ENABLED are out of the prover's reach, and what recursive
definitions over trees compute (`InitsRead`: the walk over an init's boxes;
`BundleIsPseudonymous`: the walk of a record and the scrub of a document), since
induction over data is.

## 5. Not modelled

- Configuration types: declarations only.
- Device projections: typed views over the store, and commands that are one
  request each through a transport that is modelled. They keep no state.
- The command-line tool but for the capture: argument parsing, tables and output,
  and commands that consume one call each.
- The manifest generator: a build-time script.
- Diagnostics and logging: read by no component. What a teardown logs is counted
  (`told.lines`), because consumers read one line per failure as a promise.
- Host parsing, headers and TLS options of the connector: pure functions of the
  configuration, none of which any state depends on.
- Selectors over collections other than the ones modelled: the same three shapes
  over other keys.
- A listener that calls back into the component that emits to it, inside the
  emission: an emission is part of its action. The hazards list where this would
  matter for the monitor.
- Two events of one socket read delivered in one turn, for the monitor and the
  livestream: see the assumptions.
- On-demand requests of the client (reboot, a bootstrap asked for by a consumer,
  a snapshot): one call each.

What a later version could add: a model of re-entrant listeners for the monitor.
