# A TLA+ model of gmv

gmv is a GB28181 video platform in Rust.  A *signalling node* (crate `session`)
speaks SIP with cameras, keeps their sessions and dialogs, and drives *media
nodes* (crate `stream`) that receive RTP and serve viewers.  The crate `shared`
holds the types the two exchange over HTTP.

This directory models what happens where concurrency, failure and recovery meet:
on the signalling node the set-up of a stream, its dialog from INVITE to BYE and
across restarts, the device registry, talks, the catalog subscription and the SIP
runtime; on the media node its registry of streams and viewers with the event
loop, and the reception of RTP.

    tlc -workers 2 -config MCStreamClose.cfg MCStreamSystem     # a run
    tlapm StreamSystemProofs.tla                                # a proof

`PROJECT.json` maps every definition to the lines it models, lists the runs, a
mutant for every property, the hazards of the code and the theorems.

## 1. Inventory

| Component | State | Operations | Interacts with |
|---|---|---|---|
| Durable dialog table (`storage/dialog_session.rs`) | one row per stream: STATE, VERSION, LOCAL_CSEQ | insert, compare-and-set transitions, CSeq reservation, touch | every SIP request, recovery |
| Stream close (`service/stream_close.rs`, `state/session.rs`) | stream table with lifecycle, generation, inflight_seq; StreamClosing deadlines | begin, retry, BYE taken/failed/done, force cleanup | registry (device online), scheduler, SIP requests |
| In-dialog requests (`gb/sip/command.rs`) | tasks that await the database and the device | BYE, INFO: reserve, send, wait, persist | dialog table, SIP stack |
| Stream set-up (`service/api_serv.rs`, `gb/sip/command.rs`) | set-up locks, stream map, device map, waiters | live, playback, download; INVITE, answer, timeout, rollback | dialog table, SSRC sequence, media node and its callbacks |
| Dialog recovery (`service/dialog_recovery.rs`, `service/hook_serv.rs`) | rows read, one task each | startup paging, `stream_unknown`, restore, orphan | dialog table, stream table, registry |
| Device registry (`register/*.rs`, `gb/sip/adapter.rs`) | sessions, association map, three timers per device | REGISTER, keepalive, transport closed, expiry, recovery from the database | everything that sends to a device |
| Catalog subscription (`gb/sip/subscription.rs`) | generation, refresh timer, retry tasks | SUBSCRIBE, refresh, NOTIFY | registry, scheduler, SIP runtime |
| Talk sessions (`service/talk*.rs`, stream `io/talk.rs`) | talk map, broadcast waiters, close deadlines | start, stop, close, BYE of the device | registry, media node |
| SIP runtime (`gb/sip/native_runtime.rs`, `runtime_cache.rs`, `auth.rs`) | command queue, association ids, waiters, credential batches and cache | send, answer, close, look up, shut down | all SIP users, the SIP stack |
| SSRC sequence (`storage/ssrc_sequence.rs`) | wrapping persistent counter | allocate | set-up |
| Media registry (stream `state/*.rs`, `io/http/*`) | streams, tokens, output counts and sessions, timers, event channel, workers | open, RTP input, play, leave, idle, input timeout, close | callbacks to the signalling node |
| Recorder, media contexts (stream `io/local/mp4.rs`, `media/mod.rs`) | when they start and end | store, run, process | media registry |
| RTP reception (stream `io/rtp_handler.rs`, `media/rtp.rs`) | TCP buffer, reordering ring, access unit under way | split, enqueue, wait for a gap, depacketize, give up | demuxer |
| Storage queue, message formats, HTTP handlers, muxers, shared types | no protocol state | conversion, pure I/O | - |

What is hard here, and what correctness means:

* *One dialog, many writers.*  A BYE task, an INFO, a BYE of the device, a force
  cleanup, a touch, a set-up and a recovery write one row, each after an await.
  The row must only move forward, and TERMINATED must mean that the device's end
  is over.
* *Closing with retries.*  At most one BYE per close, a retry whenever the device
  comes back, a deadline that ends the close, and tasks of an earlier close that
  report late.  Talks have the same protocol.
* *Crash and recovery beside live traffic.*  The startup recovery reads pages of
  rows while new INVITEs are written, and a media node may ask for the same row.
* *Associations that change hands.*  A device moves between transports, loses
  its association to another device, or is recovered from the database while it
  registers; timers that already expired, and closes of connections that were
  replaced, are handled afterwards.
* *Set-ups that share.*  Two requests for a channel must end up with one stream,
  though the lock they take may be dropped by a reset, and a stream may be
  removed while its set-up waits.
* *Waiters.*  Every caller waits on a one-shot channel in a map; answers, faults,
  deadlines, shutdown, and a caller that goes away must each find the right one.
* *Queues at their limit.*  Full channels refuse events, and a pool without a
  permit holds one that a ready timer throws away; what was lost with them must
  not be the only thing that closes a stream.
* *Loss and wrap.*  RTP is lost, repeated and reordered, TCP is cut anywhere, and
  sequence numbers, SSRCs and CSeqs meet their limits.

## 2. Modules

    DialogSession        the dialog table and its compare-and-set operations
    DialogLifecycle      abstract: a dialog only moves forward
    StreamClose          extends DialogSession: closing, requests, device changes
    StreamSystem         extends StreamClose: set-up, crash, shutdown, recovery;
                         specification and properties
    StreamInvariants     the inductive invariants
    StreamSystemProofs, StreamTableProofs
    DeviceRegistry       sessions, association map, timers, recovery; properties
    DeviceRegistryProofs
    StreamSetup          locks, maps, SSRCs, nodes, the callback's waiter, tokens
    StreamSetupProofs
    SipRuntime           command queue, owner thread, event task, credential
                         batches, waiters, shutdown
    SipRuntimeProofs
    DeviceLink           what the services of a device read of its registration
    Talk                 extends DeviceLink: talk_start, talk_close
    CatalogSubscription  extends DeviceLink: SUBSCRIBE, refresh, retries, NOTIFY
    DeviceServices       composes the two under the changes of a registration
    DeviceServicesProofs
    MediaNode            the media node's registry, events, viewers, recorder
    MediaNodeProofs
    RtpReception         TCP splitter, ring buffer, access units
    RtpReceptionProofs
    MC*                  the instances TLC checks

A definition whose comment begins with `Mutant:` is not part of the model.  It
is a plausible slip in the code next to which it stands; substituted for that
definition it makes TLC report the property that is meant to catch it.

### Streams

`dialogs[s]` is the row of stream `s`; `cas_*` and `insert_inviting` return the
table after the SQL statement, unchanged when its WHERE clause does not match.
`streams[s]` is the entry of `Cache.stream_map`, `timers` the armed
`StreamClosing(stream, generation)` keys, `nextGen` the generation counter.
Work that is suspended at an await is a record in a set: `closing` (calls of
`stream_close::begin` past `stream_close_begin`), `reqs` (BYE and INFO tasks,
with the version they reserved), `orphaning` (tasks of `force_cleanup`),
`peerByes` (tasks of `peer_dialog_terminated`), `recovering` (calls of
`recover_dialog`, with the row as it was read).  `alive` is the device's end of
the dialog and `native` what the SIP stack holds; both are external.

A handler is cut where the code awaits or where it leaves one shared map for
another: `Begin`, `BeginWaits`/`BeginForces`/`BeginArms` and `BeginSendsBye` are
the pieces of `stream_close::begin`; `Reserve`, `load_durable_dialog` with
`SendRestored` or `SendNative`, `ByeAnswered`/`InfoAnswered` and `Persist` those of
a request.  A request on a restored dialog reads the row a second time and sends
what it read later: other requests may reserve and send in between.  A database
operation may fail, and where the code ignores a result its reply may also be
lost after the write.  `Crash` and `Shutdown` empty the memory and leave the
table; `PageOwned` then takes the rows one by one.

Abstractions: the streams belong to one device.  The owner check on
SIGNAL_NODE_ID, timestamps and payload columns are left out.  The snapshot of a
page of rows is taken row by row, which allows more interleavings than the code
has.  A device session restored by `ensure_udp_device_session` is `DeviceOnline`.
The retry of all closing streams when a device comes back is one step.  The
choice of a media node and the calls to it are their outcomes.

### Device registry

`session[d]` and `netmap[a]` are `Network.session` and `Network.net_device_map`;
an association is a model value, `Tcp` those over TCP.  `heart`, `registration`
and `reconnect` are the armed timers, `due` those the scheduler has handed out
and `on_time_schedule` has not handled; `open` the associations for which the SIP
runtime knows a transport, `recovering` the recoveries that wait for the
database.  A REGISTER's Call-ID and CSeq are reduced to what
`registration_generation_changed` asks of them.  `MayRefuse` lets the scheduler
refuse to arm a timer, with the code's error paths.

A handler without an await is one action.  The database notifications are left
out; the effects on streams, talks and subscriptions are in their modules.

### Set-up

`req[r]` is a call of `play_live`, `play_back` or `download` with the await it is
at; a stream is named after the request that made it.  `locks` and `holder` tell the
entry of `stream_setup_locks` from the guard a request holds, so that
`reset_device_state` can drop one under the other.  `deviceMap` keeps the push
order, because `device_map_get_invite_info` takes the first match.  `waiter` is the
`KEY_STREAM_IN` state; a `stream_register` that finds none is lost.  A token is the
caller's (`Caller[r]`, the `gmv-token` header), in one set per stream: `off_play`
takes it from all the requests its caller made for the stream.  Of the row the model
keeps what `is_active` asks: it is active from `insert_inviting` on, ended, or an
orphan, which does not count.  Orphans come of an INVITE without an answer in time
or a rollback whose BYE fails (`InviteTimeout`), of a forced close, a recovery or
the row's expiry (`MarkOrphan`); `call` says whether the device still sends.  A
close has a first and a last step; its detail, and a recovery that meets a set-up
under way, are in the stream modules.  `OtherDevices` moves the sequence between two
set-ups, though by less than a whole round during one.  Two history variables say
which channels the properties excuse: `disturbed`, where a stream was lost while
its set-up was under way, and `hidden`, where `FindRunning` was led to a stream that
is being closed although another one plays.

### SIP runtime

`calls` are the callers with their operation, `waiters` the three native waiter
maps.  `commands` is the bounded queue to the owner thread, which serves it before
it polls the stack; `events` and `handling` are the business channel and the event
whose association has been dealt with.  `lookups` and `batch` belong to
`run_auth_batches`, `cache` to `DeviceAuthCache`.  The stack is external:
`transactions`, `transport`, `connections` and `closing` say what it has sent and
which connections exist, `closing` the ends it has yet to report.  A request's
kind decides the waiter map (`WaiterMap`) and an answer's method the maps it is
offered to (`ResponseMaps`), which are not the same thing.

### Talks and the catalog subscription

`Talk`: `req[r]` is a call of `talk_start`; the broadcast waiter is one per target,
shared by the channels that resolve to it, and `rx` is what a request has received.
A set-up that gives up looks into its buffer first and removes the waiter after it
(stage `giveUp`): an INVITE in between is `missed`.  An answer that cannot be queued
leaves its INVITE `unqueued`.  `talk`, `timer` and `byeTask` are the close protocol,
`inv` and `call` the device's INVITEs and dialogs.  `CatalogSubscription`: `sub` is
the entry of the device, `task` the loops that subscribe, `armed`, `fired` and
`refresh` a refresh on its way from timer to answer.  `Schedule` replaces a timer,
and the scheduler may refuse the new one, which the code only logs (`stalled`).
`DeviceServices` composes them: a REGISTER retries closes or, with a new generation,
resets the device, and subscribes again; it may also fail half-way when a timer is
refused (`RegisterFails`).  A keepalive binds the session or makes one from the
database (`Recovers`), retries closes and subscribes nothing (`recovered`); the end
of the session resets both services.

### Media node

`meta[s]` is the entry of `stream_metadata_map` with its gateway, `tokens` and
`sessions` the users' entries and the armed OutSession timers, `queue` the event
channel, `held` the event `hand_event` holds while it waits for a permit, `workers`
the tasks that call the signalling node.  A timer batch that is ready cancels that
wait (`TimerBranch`): the select is biased.  `conns` are the play requests.  `arm`
is `time_schedule.insert` of an input timer: with `MayRefuse` the scheduler may
refuse it, which `init_media` ignores and `handle_rtp_in_timeout` only logs.
`dropped` remembers closing events that were lost and `unarmed` streams whose timer
was refused, which is what the properties excuse.  The signalling node's answers are
those its handlers return; `KeepAlive` and `KeepMuxer` never are.

### RTP reception

A packet is its place in the stream the device sends, with the frame, marker and
kind of payload that the code tells apart.  The network side loses, repeats and
reorders datagrams or cuts TCP into chunks; the ring side has the code's slots,
count, first number, windows and gap wait; `au` is the access unit with its damage
and key-frame flags.  The time of a gap wait is open: it ends or is filled.
`collided` records that a packet came a whole ring ahead of another, or half the
sequence range late: only then may the order be lost.

## 3. What is checked

| Run | Shows |
|---|---|
| `stream_close` | one stream of a TCP device closed from every side, with failing BYEs, retries, resets and `stream_unknown`; liveness of closing |
| `restart` | a crash or shutdown anywhere over UDP, INFO and BYE before and after, recovery beside live requests; refinement of DialogLifecycle |
| `registry` | two devices competing for a TCP and a UDP association |
| `registry_recovery` | two devices that displace each other on one association, late recoveries, refused timers; liveness of devices that were detached or displaced |
| `stream_setup` | two requests of one caller for a channel, live or download, with failures at every await, callbacks that come late or never, and resets; or beside another caller's stream that is being closed, with INVITEs that time out and closes that are forced |
| `sip_runtime` | callers, commands, connections and events, or credential lookups; failed polls and shutdown; liveness of waiters and lookups |
| `device_services` | two talks with one broadcast target, or a catalog subscription, under a changing registration, with answers that cannot be queued and refused timers |
| `media_viewers` | three play requests of two viewers: counts, tokens and idle closing |
| `media_input` | silence, full channel, busy workers, refused timers; liveness of closing and of answers to viewers |
| `rtp_reception` | loss, duplicates, reordering, TCP cuts, wrap; liveness of the end |
| `wire_cseq` | *violation*: one CSeq is sent twice on a restored dialog |
| `stale_mapping` | *violation*: a connected device loses its mapping |

The properties:

* `InflightHasTask`: a closing stream has at most one BYE under way and
  `inflight_seq` names it.
* `TerminatedMeansEnded`: except for an INVITE that a shutdown failed with 503
  while the device accepted it, which the code records as TERMINATED.
* `ClosingIsCovered`, `ClosingEnds`: a close that was not restored has its
  deadline or is about to arm it, and ends.  A restored stream whose device is
  away waits for the device, by design.
* `ReservationsDistinct`, `SentCseqReserved`: a version is reserved once; a request
  on a restored dialog never carries a CSeq below its own reservation, and the table
  is never behind what was sent, so that the next life of the process goes on above
  it.  That CSeqs increase on the wire is not true: see `wire_cseq`.
* `LifecycleSpec`: the table implements DialogLifecycle.
* `MappingSound`: a message is attributed to a device only while it is connected
  by that association.
* `NoStaleDeadline`: an armed reconnect deadline belongs to the current
  detachment.
* `ExpiryCovered`, `DetachedEnds`: every session has a timer that ends it, also
  when the device was displaced and has no reconnect deadline.
* `OneStreamPerChannel`, `DeviceMapBacked`: viewers of a channel share a stream
  and the device map names streams that exist, except where the device was reset
  or hung up during a set-up: the code then drops a lock that is held, or inserts
  an entry for a stream that is gone.  There is one more way to two streams, which
  takes three viewers and which the search for an inductive invariant brought up:
  a stream stays in the device map until its close ends, so
  `device_map_get_invite_info` returns it before the one that has replaced it; a
  third viewer finds it offline and sets up another stream beside the one that
  plays.  `hidden` records it, and the property says that there is no other way.
  For downloads, which ask for a running record instead, it does not exist.
* `SsrcDistinct`: two streams on air (in the map, with an active row, or still sent
  by the device) differ in SSRC over the wrap, orphans excepted: `is_active` does not
  count them, so a device whose INVITE timed out or whose close was forced may still
  be sending under an SSRC that is given out again.
* `ViewerAdmitted`: a caller that was given a stream is let in, until a viewing under
  its token is reported off.  That report also shuts out the caller's other requests
  for the stream.
* `IdsFollowConnections`, `OpenConnectionKeepsId`: the id kept for an address pair
  is the open connection's or is about to be forgotten, and a late close takes
  away no other.
* `CallerHasWaiter`, `FinalAnswerEndsWait`, `WaitersCollected`: a listening caller
  has its waiter or its answer, a final answer ends the wait, and no waiter stays
  for ever.
* `NoForeignCredential`, `LookupsAnswered`: the stack gets the row of the device it
  asked for or a refusal, and gets something, unless a full command queue ended
  the task (which the code does, and then the whole runtime).
* `OneTalkPerChannel`, `ClosingBounded`: as for streams.
* `InviteAttended`: no set-up ends with an INVITE in its hands that it did not try to
  answer, and none is handed to a set-up that has gone.  Two INVITEs stay unanswered
  in the code: one whose answer the full command queue refuses, and one that arrives
  between `reject_buffered_broadcast_invite` and `remove_broadcast_invite_waiter`.
* `SubscriptionKeptUp`, `RefreshAhead`, `TagOfOwnDialog`: a connected device is
  subscribed or being subscribed, unless a retry loop found it away (`gaveUp`) or
  its session was recovered from the database (`recovered`); a subscription will be
  refreshed, unless a refresh found no connection or its timer was refused
  (`stalled`); late answers change no other dialog.  The exceptions are paths on
  which the code schedules nothing, and the properties say that they are all there
  are.
* `CountMatchesTokens`, `TokenCoversViewers`, `IdleCovered`: the two places that
  count viewers agree, a viewer with an open response keeps a token, and an
  unused stream has its idle event on the way, or the node lost it.
* `InputCovered`, `SilenceReleases`, `PlayAnswered`: an open stream has an input
  timer or its timeout on the way; a silent one is closed and lets
  `handle_process` go on, both unless the node lost the event or the scheduler
  refused the timer; a viewer who is asked about is answered.
* `InOrder`, `AccessUnitWhole`, `KeyFrameFirst`, `TcpPacketsWhole`,
  `EndsAfterClose`: what the demuxer is given, and that the reader ends.

Each module also states a type invariant (`TypeOK`), which is proved;
`StreamSystem`'s is also checked in `restart`.

The two disagreements.  `WireCseqIncreases`: a restored dialog's request is sent
with the CSeq the row has when it is read again, not with the one it reserved, so an
INFO and a BYE may carry the same CSeq, or a lower one after a higher, while the
project's SIP baseline asks for an increasing one.  `ConnectedIsMapped`:
`remove_device_by_inner` clears the mapping of its association without asking whose
it is, where `remove_device_mapping` is careful to.  A device that detached and
comes back by another way, or is removed, takes the mapping of the device that has
its old association.

### Bounds

* Streams: one stream suffices for every race on a row and in a close; what two
  share (generations, the retry of a device's streams) is covered by the proofs.
  In `stream_close`, `MaxGen` 2 gives out two generations: a stream closes, is
  removed or restored by `stream_unknown`, and closes again beside tasks of the first
  close; touches of the row (`MaxVersion`) are explored in `restart`, where one
  close is enough (`MaxGen` 1).  `MaxSeq` is reached, so saturation is explored;
  `MaxCseq` 2 or 3 lets a reservation meet the limit of its column; one INFO is
  enough to race with a BYE.
* Registry: two devices are the smallest number that can displace each other.
  `registry` gives them a TCP and a UDP association and generations up to 2, for
  detach and rebind, without recoveries or refusals; those are in
  `registry_recovery`, where the two devices share one UDP association and a keepalive
  recovery and a lookup overlap.  The safety properties are proved for both at once.
* Set-up: two requests race for every lock, map entry and SSRC; two SSRCs make the
  sequence wrap onto one in use; two nodes let one fail.  A third stream is needed
  for the case that `hidden` records: the run starts after a first request, which
  either failed (`RefusedInit`) or whose stream its node has given up
  (`ClosingInit`); a run of one request reaches both.  Beside the stream that is
  being closed, `Bound` keeps to live streams of a device that keeps its session, so
  that two streams can only come of what is hidden and a sequence of two values comes
  round between set-ups, not within one; there rows become orphans and their SSRC is
  given out again.  In the other case no row becomes an orphan, the first node
  answers, and resets happen during set-ups of one mode.  The two later requests
  have one caller, the first another.
* SIP runtime: a queue of one is full as soon as anything is in it; two
  connections of an address pair let a late close meet the next one; two lookups
  are a batch with a duplicate or with two devices.  `MCSipRuntime` fixes in each
  behaviour whether callers or lookups act (`focus`): they share only the queue
  and the end of the runtime, which both halves have.
* Device services: two requests and two channels of one target.  Three changes of
  the registration let the subscription lose its device and find it again; talks
  take two (`TalkChanges`), the first REGISTER and a change of any kind after it.
  Three calls, three generations and three tasks let a subscription be replaced
  twice.  `OneService` explores
  talks and the subscription one at a time, since they meet only in the
  registration; requests, channels and tasks are symmetric.
* Media node: a channel of two and one worker are full at once; two viewers and
  three requests let one viewer use two outputs while another leaves.
* RTP: a ring of 4 with numbers modulo 16 that start at 12, so that six packets
  cross the wrap and can meet in a slot; frames of one to three packets.
  `MaxChunk` 3 is less than the longest packet with its length field, so that
  chunks end inside packets and several are needed for one, and as much as the
  end of one packet and the beginning of the next.

The proofs below do not depend on these bounds.

### Fairness

* `StreamSystem`: a `begin` that has the stream runs on, and an armed deadline
  fires; tokio polls every woken task and the scheduler keeps its timers.  Nothing
  is assumed of the device, the database or of the BYE tasks.
* `DeviceRegistry`: a registration timer of a device that is not connected (so
  that nothing renews it) and a reconnect deadline expire, and the scheduler task
  handles its batch.  Nothing is assumed of devices or recoveries.
* `SipRuntime`: the owner thread, the event task and the auth task run, deadlines
  pass, the periodic cleanup runs, and a shutdown goes on to its end.  Nothing is
  assumed of the stack: it need not answer, and no poll need fail.
* `MediaNode`: timers fire, the loop and the tasks run, a call to the signalling
  node returns or times out (the HTTP client has a timeout).  Strong fairness only
  for senders that wait for room in the event channel, which serves them in order.
* `RtpReception`: the reader's thread runs.

Deadlock is not checked in the runs of the newer modules, whose requests are each
made once: such a system comes to rest.  In the stream and registry runs it is.

## 4. What is proved

All proofs hold for any sets of streams, devices and associations and any bounds.
The assumptions are those named in the modules: bounds are natural numbers, the
first CSeq fits its column, the model values for "none" are not devices,
associations or requests, TCP associations are associations.  For RTP the ring
divides the (even) range of sequence numbers and is at most half of it, as
BUFFER_SIZE and 2^16 do, and the device sends what a packetizer sends: no packet
without an RTP header (`LengthAssumption`), the packets of a frame in a row and a
fragment right after another of its NAL unit (`SenderAssumption`), and raw video
frames that end with a marker (`MarkerAssumption`, used for `KeyFrameFirst` only).

* `TypeCorrect` (StreamSystemProofs): one lemma per operation on a table, then one
  step per action.
* `TerminatedCorrect` (StreamSystemProofs).  The property is not inductive: a
  request that is about to write TERMINATED must already have ended the dialog,
  and a device that has not answered must not be able to accept after such a
  write.  `EndInv` adds that a set-up without an answer has no established row,
  no reservation and no BYE of the peer, and that whoever persists an end found
  the dialog ended.
* `InflightCorrect`, `DeadlineCorrect` (StreamSystemProofs).  A task that outlived
  its close must not pass for one of the current close; `CloseInv` adds that
  generations are handed out once.
* `LifecycleImplemented` (StreamTableProofs): StreamSystem implements
  DialogLifecycle, with the rows' states as the refinement mapping.  Every
  operation on the table leaves it alone, rewrites one row in its state or moves
  one row along `can_transition_to`; the invariant used is `TypeOK`.
* `ReservationsCorrect`, `SentCseqCorrect` (StreamTableProofs).  `ReservationInv`
  adds `RowsAreAhead`: a request that has reserved holds no version above its
  row's and no CSeq above its LOCAL_CSEQ, and a row that is absent or inviting has
  its initial numbers.  It is proved once per operation on a row: VERSION and
  LOCAL_CSEQ only grow.
* `MappingCorrect`, `DeadlinesCorrect`, `ExpiryCorrect` (DeviceRegistryProofs)
  follow from `RegistryInvariant`.  The three need each other: a displaced
  device is connected (MappingSound), therefore has no deadline that its
  generation bump could strand (NoStaleDeadline), and cancelling one deadline by
  generation cancels all of them.  Every handler binds, removes or detaches a
  device or leaves the sessions alone; each has a lemma.
* `SubscriptionCorrect`, `RefreshCorrect`, `TagCorrect`, `OneTalkCorrect`,
  `InviteCorrect`, `ClosingCorrect` (DeviceServicesProofs), for the composition of
  the two services under any registrations.  `CatalogInv`: no generation in
  use is above the last one handed out, a subscription and a task that waits have
  the number of a call, a refresh under way for the current generation is of the
  current call, and the subscription is kept up (or lost on one of the two paths
  `SubscriptionKeptUp` names) as long as the device has a session, away or not.
  `TalkInv`: a lock that was not dropped has one holder, a set-up past its check has
  found the channel free, a talk in the map is of a set-up that is over, an INVITE
  comes only after its notification.  Each service is shown to
  be untouched by the steps of the other.
* `IdsCorrect`, `OpenConnectionCorrect`, `CallerWaiterCorrect`,
  `FinalAnswerCorrect`, `CredentialCorrect` (SipRuntimeProofs).  The connection
  part says in which order opened and closed events of one address pair can be
  under way and that a closed connection never returns; it makes the id kept for a
  pair its newest connection's or one whose close is still queued.  The waiter part
  says that an operation whose answer is on its way (queued, held or being handled)
  has its waiter, or its caller is gone.  The credential part says that what is in
  a batch, in the cache or in the queue of commands is what the row of the device
  that was asked about says.
* `OneStreamCorrect`, `DeviceMapCorrect`, `ViewerCorrect` (StreamSetupProofs).
  `LockInv`: a set-up under way holds its lock, and it is the lock new requests
  get, unless the channel is disturbed; so two set-ups of a channel are never both
  under way (`OneAtATime`).  `MapInv`: which stages of a request have its stream in
  the stream map, its entry in the device map, its record and its caller's token.
  `PlayInv`: a stream that plays is in the device map or its set-up is under way,
  and a set-up that goes on to make a stream has found none that plays.  The step
  that needs all three is `FindRunning`: the first entry is a stream that plays
  (then there is no other), one that is being closed (then the channel is hidden)
  or one that is gone (then it is disturbed).
* `SsrcCorrect` (StreamSetupProofs), under the hypothesis `SequenceAhead`: the
  sequence does not come round to the value of a set-up that has no active row, which
  is between its allocation and `insert_inviting`, or after the device hung up during
  the set-up.  The code cannot do without it: `allocate` asks whether the value is
  active in the stream map or a row, and there it is in neither.  `SsrcInv` says that
  streams which claim an SSRC (set-ups, streams in the map, active rows) differ, and
  `CallInv` that a device which still sends has a row that is active or an orphan's.
* `CountCorrect`, `TokenCorrect`, `InputCorrect`, `IdleCorrect` (MediaNodeProofs).
  The four properties become inductive with the type invariant and four facts: a
  stream that was not announced is closed and has neither recorder nor tokens; the
  channel holds at most one event that starts the recorder of a stream; such an
  event is of an announced stream that has no recorder yet and, if it is open,
  stores MP4; so does a stream with a recorder.  They make sure that the recorder
  is counted once.  What a close or a session timeout takes away is shown to be the
  same in the tokens and in the counts.
* `TcpCorrect` (RtpReceptionProofs).  `WireInv`: for some j the packets 1 to j have
  been handed on and the buffer is what came of packet j + 1.  One call of
  `feed_tcp_packets` then cuts at the ends of packets j + 1 to l, where l is the
  first that is incomplete or too long (`CompleteAt`, `CutsAt`, `PieceIs`).  The
  positions and the loop are recursive functions; that they are defined, grow and
  meet is shown by taking the least place where they would not.
* `RingInOrder` (RtpReceptionProofs).  `RingInv`: every used slot holds the packet
  its sequence number names, all packets in the ring are within a ring's length of
  each other and after the last one taken, `first_read_rtp_sn` is the number after
  that one, and `queue_count` is the number of used slots.  The arithmetic is that
  of remainders: two packets less than a ring apart are in different slots, and
  `seq_before` compares numbers less than half the range apart as the packets
  compare.
* `AccessUnitsWhole` (RtpReceptionProofs).  `UnitInv`: the unit and the fragment
  under way are of one frame and have no gap between their first packet and the
  last one taken; a finished unit is sealed: nothing of its frame was lost since
  its first packet, and nothing more of it is to come unless the input is over.
* `KeyFramesFirst` (RtpReceptionProofs).  `KeyInv`: every finished unit has a key
  frame before it with no broken frame between; while no key frame is waited for
  there is one with no broken frame after it; and a frame whose only start has come
  without a gap since has its fragment under way, so that the loss of the rest will
  be seen.

What looking for these invariants brought up.  `InOrder` is false for a packet that
is delayed by half the sequence range, which `seq_before` takes for a later one;
the condition under which the order is promised did not say so, and the instance
was too small to show it.  The loss of a fragment makes the code wait for a key
frame only if it is seen while the fragment is under way: `KeyFrameFirst` is
therefore about frames of one fragmented unit, in streams whose frames end with a
marker.  A packet shorter than the RTP header at the end of a chunk is handed on
only with the next chunk, hence `LengthAssumption`.

The inductive invariants were checked by TLC on the runs' instances before they
were proved.

Only model-checked:

* All liveness (`ClosingEnds`, `DetachedEnds`, `WaitersCollected`,
  `LookupsAnswered`, `SilenceReleases`, `PlayAnswered`, `EndsAfterClose`): fairness
  and ENABLED are out of the prover's reach.

Every other property of a passing run is stated by a theorem.

## 5. Plan

Done: the modules of section 2, in the order streams, registry, media node, SIP
runtime, set-up, RTP reception, device services; the proofs of section 4, in the
order streams, registry, device services, SIP runtime, set-up, media node, RTP
reception.  What could follow is more of the code rather than more about this
part: the recovery of talk dialogs, and the storage queue with its full channel,
which `PROJECT.json` lists among the hazards without a property.

## 6. Not modelled

* Parsing and formatting of SIP, XML and SDP, HTTP handlers, FFmpeg muxers and
  container formats and the shared types have no protocol state or are byte
  formats.
* The queue of database tasks (`storage/db_task.rs`) and the SQL of the device and
  picture tables: nothing in the modelled protocols reads what they write, except
  the rows that `SipRuntime` and `StreamSetup` have.  That a full
  channel drops a device's offline notice is listed as a hazard without a property.
* The recovery of talk dialogs after a restart, which takes the steps
  `StreamSystem` has for streams; the audio frames and jitter of a talk.
* Interleavings of threads inside a handler without an await: such a handler is
  one action.
* The state map's counters and snapshot waiters, `download_stop` and
  `download_info`.
* Faults of the database are nondeterministic outcomes of its operations; its
  isolation is that of single statements.
