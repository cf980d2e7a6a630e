# Verification of the Zigbee coordinator's MAC

TLA+ models of the IEEE 802.15.4 MAC in `src/src`: the part of the coordinator
that queues frames for devices, keeps the radio's tables and parameters in step
with the MAC's own state, and talks to a USB radio over a serial line.

TLC checks the modules on small instances (`PROJECT.json`, "runs"). TLAPS proves
the theorems of the `..._proofs` modules (section 6) for every value of the
constants: any number of requests, slots, addresses, ids, parameters, failures.

## 1. The system

```
   main loop  --MLME/MCPS requests-->   MAC task (mac/service.rs)
   (main.rs)  <--confirms, indications--  |-- ManagementService --- PIB
                                          |-- DataService
                                          |     |-- DeviceQueue, one per destination
                                          |     `-- CombinedPendingTable
                                          |            `-- PendingTable (short, extended)
                                     requests | ^ responses   (channels of capacity 0)
                                              v |
                                  radio service (radio/mod.rs)
                                    request task | response task, one map under a mutex
                                     RawRadioSink | RawRadioStream (radio/raw.rs)
                                              serial line, the device
```

| component | state | operations | what is hard | what makes it correct |
|---|---|---|---|---|
| DeviceQueue | entries, state of the exchange with the device, what was last said of the pending bit | insert, remove, data request, send result, acknowledgement, poll, two kinds of timer | acknowledgements before send results, late and foreign ones; purge or expiry during an exchange; sleeping over work | a request is answered once, truthfully, after the right number of tries; the exchange belongs to the front entry |
| PendingTable | wanted values, slots with dirty flags, order of eviction, update under way | set, promote, poll, result | a slot changes while its update is under way; failures; more addresses than slots | clean slots are what the radio holds; least recently promoted is evicted |
| CombinedPendingTable | two tables, initialisation state | set, poll, results | initialisation races updates; reset with requests in the link | initialised tables know the radio's content |
| DataService | queues by destination, handles, tables | MCPS data and purge, frames, results, poll | purge against result; a queue that comes and goes; two PANs, one address | every request has one handle and one entry until its one answer |
| ManagementService, PIB | PIB, radio parameters, outgoing beacons | MLME get, set, start, reset, beacon; frames; results; poll | the PIB changes while a SetParam is under way; resets | the radio ends up with the PIB's values; beacons tell the truth |
| radio service | map of parsers, request ids, two channels | two tasks | mutex and rendezvous channels; lost requests; failing writes | a reply reaches its own request; nobody waits in a circle |
| serial framing | write buffer, read buffer | partial writes, reads, parsing | cuts anywhere, noise, a full buffer | the messages read are those written |
| MAC loop | the services | start-up, then actions and inputs by priority | two channels polled one after the other while the main loop writes to both; packets during the start-up; a packet that panics it | radio, tables and PIB agree when nothing is under way; a device that was accepted and keeps its place in the pending table is answered |
| frame codec, pack | none | pack, unpack | PANs left out of frames, other stacks' encodings, missing bytes | a frame is received as it was sent, or refused |
| main loop | position in its script | start-up requests, answers to indications | confirms are ignored; its requests interleave with packets | the node becomes coordinator of its PAN |
| executor | join handles | spawn, poll | | not modelled, see section 8 |

The hazards this code is exposed to, each with its line and the properties that
would notice it, are listed in `PROJECT.json`.

## 2. Modules

| module | models | role |
|---|---|---|
| `DeviceQueueOps` | `mac/devicequeue.rs` | the methods as operators on a queue value |
| `DeviceQueue` | a queue and what surrounds it | one action per input, timer and poll |
| `PendingTableOps` | `mac/pendingtable.rs` | the methods as operators on a table value |
| `LruSet` | | abstract specification: the most recently promoted values |
| `PendingTable` | a table and the radio's slots | implements `LruSet` |
| `..._proofs` | | inductive invariants and theorems, one module per component |
| `CombinedPendingTableOps`, `CombinedPendingTable` | `mac/combinedpendingtable.rs` | two tables, their initialisation, resets, the link |
| `DataService` | `mac/data.rs` | composes the operators of queues and tables |
| `Pib` | `ieee802154/pib.rs` | the information base as operators on a record |
| `ManagementOps` | `mac/management.rs` | the methods as operators on the PIB and the radio parameters |
| `Management` | the service, its radio parameters and the radio's | MLME requests, beacons |
| `Coordinator` | `main.rs`, the loop of `mac/service.rs` | composes `ManagementOps` and `DataService` with the main loop, the radio, a device and others that compete with it |
| `RadioService` | `radio/mod.rs`, the start-up in `mac/service.rs` | MAC task, two radio tasks, device |
| `SerialFraming` | `radio/raw.rs` | encoder, sink, stream |
| `FrameCodec` | `ieee802154/frame.rs`, `pack/pack.rs` and the derived impls | pack and unpack as operators on byte sequences, one frame from sender to receiver |
| `MC...` | | instances for TLC |

Conventions. An `Option<T>` is a set with at most one element. A sleep future is
a Boolean, TRUE once it has elapsed. A `UniqueKey` is the value of a counter. A
`HashMap` that is iterated gives its elements in any order. Outside `FrameCodec`
frames, addresses and parameter values are opaque, except for what the code
compares. Variables
commented *history* are not part of the program: they record what happened, for
the properties to compare with. Definitions next to the one they vary
(`AnyAck` before `AckIsOurs`) are its mutated forms; no specification uses them.

How actions correspond to code:

* The MAC loop (`poll_next_input`) polls the services until they return
  `Pending` and only then takes an input. `asleep` in `DeviceQueue` and
  `DataService` and `Quiet` in `Management` express this: inputs happen only
  then. A timer makes the task wake up; it does so at any time.
* `poll_next_action`, `poll_update` and `poll_action` change state even when they
  return `Pending`. An action models a whole poll, in the order of the early
  returns, and what the caller does with the result.
* In `DataService` a poll goes through the queues in any order and starts again
  after each action (`continue 'retry` and the next call); `quiet` are the queues
  that have returned `Pending` since the last one.
* `Coordinator` takes `DataService` as `Data`, with the sequence number in the
  PIB, and puts the parameter requests and beacons of the management service into
  the same link. Every step of the MAC is one turn of `process`: an action of the
  management service if it has one, else one of the data service, else an input.
  The main loop is a task of its own (async-std runs tasks on several threads), so
  it can fill both channels between the MAC's poll of `mlme_in` and that of
  `mcps_in`: `passed` says that the MAC may already have found `mlme_in` empty.
* In `RadioService` the tasks are state machines over their awaits. A channel of
  capacity 0 completes a send when the item is taken, so the sender's next state
  is set by the receiver's action. The mutex guard in the `if let` of the response
  task lives until the send inside it has completed.
* A request there is `[id, token]`: the id is what the device sees, drawn at random among
  those not in the map; the token says which request it is. Token 0 is a request of
  an earlier process whose reply the serial port still holds. The response task looks
  only at the id: such a reply is dropped (`ReadUnknown`), or taken for the answer of a
  new request that drew the same id (`ReadReply`, recorded in `mistaken`).
* The link of `Coordinator` stands for the radio service: what the MAC sends is
  written and answered. It abstracts from the rendezvous channels, of which one thing
  matters to the MAC: a send may never complete, because of the circular wait of finding
  2. `MacHangs` is that send. It is possible whenever the next poll gives the MAC a request
  (`HasRequest`) while two others are unanswered, which is what the circle takes
  (`CycleNeedsBacklog`); the MAC then does nothing more, its channels stay open and the
  main loop notices nothing.

The device and its firmware are external. They are taken to answer requests
in order, to execute a request or to report an error for it, before or after
having executed it, and, in `RadioService`, to ignore requests. The device
that joins in `Coordinator` is external too: it scans, sends its association
request to the address in the beacon it heard, and asks for its frames,
first under its extended and then under its short address. Other devices
(`OtherDevices`) associate as well, so that their marks take slots of the
pending table. What they do afterwards is left out; it would not help a
device whose mark they evicted, since a slot that becomes free is not given
to it.

## 3. Runs

| run | checks | shows |
|---|---|---|
| `device_queue` | `TypeOK`, `EachQueuedOnce`, `ExchangeOwnsFront`, `SuccessIsEarned`, `FailureIsExhausted`, `AttemptBudget`, `SleepMissesOnlyRetries`, `ResultIsFinal` | requests are neither lost nor doubled; late answers go nowhere; success was acknowledged with the frame's own number, failure took 1 + retries attempts; a sleeping task has nothing to do but a retry |
| `device_queue_retry` | `SleepMissesNothing`, violated | finding 1 |
| `pending_table` | `TypeOK`, `OrderIsPermutation`, `FreeSlotsFirst`, `SlotsHoldValues`, `OneUpdate`, `CleanMeansSynced`, `EventuallySynced`, `ImplementsLru` | the table mirrors the radio through changes and failures, and is an LRU set |
| `combined_pending_table` | `InitialisedMeansSynced`, `EventuallySynced` | the same for both tables from an unknown radio, through failing initialisations and resets |
| `data_service` | `HandlesMatchQueues`, `ShortPendingFollowsQueues`, `EveryRequestAnswered` | handles, queues and answers agree; the pending marks of short addresses are those of the queues; no client waits for ever, unless a reset dropped its request |
| `data_service_pans` | `AwaitedMeansMarked`, violated | finding 3 |
| `management` | `TypeOK`, `RequestedIsPib`, `SettledMeansApplied`, `BeaconsTellTheTruth`, `EventuallyApplied` | the radio's parameters follow the PIB; beacons say PAN coordinator only with the address of the start |
| `radio_service` | `TypeOK`, `ReplyFindsItsParser`, `EachRequestInOnePlace`, `StartUpCompletes` | replies reach their requests, until one to an earlier process meets the id of a new request; requests are conserved all the same; the start-up ends unless the device or the port fails or an earlier process's error is taken for its answer |
| `radio_wait_cycle` | `NoWaitCycle`, violated | finding 2 |
| `frame_codec` | `ReceivedAsSent`, `CutIsNoticed` | pack and unpack agree on every layout, also those only other stacks use, and on which orders fit; a cut frame is refused or has a shorter payload |
| `serial_framing` | `CutsDoNotMatter`, `SentIsDecoded`, `EndsForAReason`, `EverythingIsReturned` | framing survives cuts, noise and failed writes |
| `coordinator` | `RestMeansInStep`, `DataFollowsResponse`, `EventuallyCoordinator`, `DeviceIsAnswered` | the node becomes coordinator, whatever is received during its start-up, unless a packet panics the MAC or the circular wait catches it; at rest the radio has the PIB's parameters and the right pending marks; data sent behind an association response reaches the radio only after the device has its address, although the MAC may take the two in the wrong order; an accepted device that goes on asking gets its response, unless its mark was evicted, its response expired or was not acknowledged, or the MAC panicked or hangs |

Each property of a passing run has a mutant in `PROJECT.json`: a plausible
mistake in the mapped definition that makes TLC report the property.

### Bounds

* `device_queue`: two requests, so that one waits behind the other and can
  expire or be purged first; two sequence numbers, so that the number wraps and
  foreign acknowledgements coincide; one retry; two data requests. Three requests
  would add no new relation: every operation concerns the front, the second, or
  any other entry.
* `pending_table`: three values for two slots, five calls: enough to fill,
  evict, bring back and remove; two failures.
* `combined_pending_table`: one slot per table, two short addresses and an
  extended one; two resets, so that results of two generations mix; any initial
  content of the radio.
* `data_service`: a short and an extended destination, two requests, no retry,
  one data request, one reset, one sequence number, so that every acknowledgement
  coincides with every frame. Failing updates of the pending table are left to
  `combined_pending_table`, and retries to `device_queue`. A reset drops requests
  without a confirm, which `EveryRequestAnswered` allows for.
* `frame_codec`: two PANs, a short and an extended address, so that each pair of
  addressing modes occurs with equal and with different PANs; with and without
  sequence number; all frame types, commands and flags; for each of the two orders and
  the final CAP slot of a beacon a value inside four bits, the largest and the first beyond;
  payloads that are empty or look like a
  command. A frame is cut after any number of bytes.
* `management`: two parameters, two short addresses, four inputs (set, start,
  set, beacon), one failure. Sequence numbers are reduced to one, so that a
  missing wrap is a type error.
* `coordinator`: one device that is followed and one other; one slot per pending table,
  so that the two compete for it; slots that hold the marks of an earlier run; one scan at any
  time of the start-up or after; one association with or without fast association; one radio
  parameter (the PAN, which MLME-START sets), no retries, one sequence number. One
  disturbance (`MaxDisturbances`): a failed request, a lost frame, a transaction that
  expires, or the other device's association. One data request that comes while a frame
  waits and the radio does not have its mark (`MaxDenied`): each one makes the MAC send the
  frame to a device that does not listen, and an evicted device could go on so for ever.
  All of these cases occur: a beacon request answered by the main loop, a device
  accepted before MLME-START, a data request taken before the response that was sent first,
  data received under the short address, a device whose mark is evicted before or after it
  has asked, a MAC that hangs during the start-up script or later. Two disturbances in one behaviour (a
  failure and an eviction) are beyond the run; the two invariants are proved for any
  number of disturbances, denied requests, devices and slots, the liveness properties are not.
* `radio_service`: five requests, two of them in the start-up, bursts of three,
  two packets, two losses; four ids, one of which an earlier process may still get a reply
  for. In `radio_wait_cycle` there is none: the circle needs no such reply.
* `serial_framing`: two messages out of three (empty; filling the buffer exactly;
  larger than the buffer, with data that looks like a prefix), five kinds of
  noise, one error of the port; reads and writes of every size.

Deadlock is checked in the runs of `DeviceQueue` and `DataService`, where another
input is always possible. In the others the bounds on inputs let the system come
to rest, and the configurations say `CHECK_DEADLOCK FALSE`.

## 4. Fairness

Fairness is weak except in `Coordinator`, and assumed only where the code's
scheduling gives it:

* a task that was woken is polled (`Poll`, `PollUpdate`, `PollParam`,
  `PollOutgoing`, the steps of the two radio tasks, of the sink and of the
  stream): the executor runs on async-std, which polls woken tasks;
* a sleep elapses (`TransactionTimeout`);
* an answer in the channel is delivered (`Deliver`, `ReportResult`);
* the radio answers, with success or an error (`RadioExecutes \/ RadioFails`,
  `DeviceReplies`): assumed for the properties that say the radio follows. It is
  not assumed for `EveryRequestAnswered`, where only timers and polls are fair;
* in `Coordinator`, strong fairness of the radio's answers and the MLME and MCPS
  inputs taken together, and of the device's data requests: the MAC is ready for
  an input again and again, not all the time. `poll_next_input` prefers
  packets, so this says that packets leave room for the rest; a device that waits
  asks again, as the standard has it. The acknowledgement timeout elapses;
  transactions are not assumed to expire, so `DeviceIsAnswered` does not hold
  because everything expires in the end.

What `Coordinator`'s fairness does not say is that `radio_requests.send(..).await`
(`service.rs:233-277`) completes. With finding 2 it need not: `MacHangs` is enabled at
every such send with two requests unanswered, is not fair, and after it none of the
MAC's actions is enabled. `EventuallyCoordinator` and `DeviceIsAnswered` name it
(`stopped # {}`) among their exceptions, next to the panic. The start-up script is
exposed to it: MLME-RESET and the settings that follow make the MAC send a `SetParam` for
each parameter and the `Init` of the pending tables without waiting for answers. Nor does
the code have a timeout for a request that the device ignores: that every request is
answered, with success or not, is an assumption on the device.

`DeviceIsAnswered` has one more exception, `Evicted`. The comment "TODO2"
(`data.rs:174-176`) would promote an address on a data request; the code does not. Once
the marks of other devices have taken the device's slot, the acknowledgements of its
data requests say that nothing is pending, it stops listening, and the frame that the MAC
sends on each of them is not heard. The mark comes back only when the address is entered
anew, that is, after its queue has run empty. The run reaches this, and claims nothing
of what follows.

## 5. Findings

1. **A retry is forgotten** (`device_queue_retry`). After a missing
   acknowledgement the poll lowers `retries_left`, leaves the state `Idle` and
   returns `Pending`: the comment says "go back to idle to retry", but the frame
   is sent again only when something else polls the queue, at the latest when
   the transaction expires five minutes later.
2. **Circular wait** (`radio_wait_cycle`). The response task sends to the MAC
   while it holds the mutex of the map; the MAC sends its next request before it
   looks at responses; the request task needs the mutex. All three wait. It takes three
   requests without an answer (`CycleNeedsBacklog`), so the start-up through `SyncRadio` is
   safe (`StartUpHasNoCycle`) and the bursts of `SetParam`, `Init` and frames after it are
   not.
3. **Two PANs, one extended address** (`data_service_pans`). The pending table
   forgets the PAN of extended addresses, so one queue clears another's mark.

Observations without a run. `CapabilityInformation::pack` writes nothing, so an
association request cannot be sent by this program; it only receives them, and
`ReceivedAsSent` says so. `PIB::reset` hands the present transmit power to
`PIB::new` where that takes the maximum (`ResetPib`), so a reset after the power
was lowered lowers the maximum too. No document says what a reset should keep.
An indirect frame is sent on every data request until it expires, however often
that fails: a failed attempt uses no retry. `MacAssociationPermit` and the automatic
beacons are switched on before MLME-START, so a device can find and join
the broadcast PAN; its response is made in the PAN of the moment, and if MLME-START
came in between, the device asks for it in vain (`DeviceIsAnswered` therefore
speaks of devices accepted in the started PAN). Every device gets the short
address 0x4567. A data request from a device whose address the pending table had no room for is
answered with a frame it does not listen for, and does not bring the address back (section 4).
Request ids are drawn without regard to earlier processes, so a reply that the serial port
still holds can answer a new request, whose own reply then finds no parser or that of a later
request. `TryInto<RadioRxMode>` tests a shifted value (`radio/mod.rs:123`),
in code that nothing calls.

## 6. Proofs

| module | theorem | statement |
|---|---|---|
| `PendingTable_proofs` | `TypeCorrect` | `Spec => []TypeOK` |
| | `Synced` | `Spec => []CleanMeansSynced` |
| | `OneUpdateAtATime` | `Spec => []OneUpdate` |
| | `EvictOnlyWhenFull` | `Spec => []FreeSlotsFirst` |
| | `OrderStaysPermutation` | `Spec => []OrderIsPermutation` |
| | `NoStaleSlot` | `Spec => []SlotsHoldValues` |
| | `RefinesLru` | `Spec => ImplementsLru`, a refinement |
| `DeviceQueue_proofs` | `TypeCorrect` | `Spec => []TypeOK` |
| | `NoneLostOrDoubled` | `Spec => []EachQueuedOnce` |
| | `FrontIsOwned` | `Spec => []ExchangeOwnsFront` |
| | `NoFalseSuccess` | `Spec => []SuccessIsEarned` |
| | `NoEarlyFailure` | `Spec => []FailureIsExhausted` |
| | `RetriesAreCounted` | `Spec => []AttemptBudget` |
| | `SleepIsSafe` | `Spec => []SleepMissesOnlyRetries` |
| | `OutcomesAreFinal` | `Spec => ResultIsFinal`, an action property |
| `CombinedPendingTable_proofs` | `InitialisedIsSynced` | `Spec => []InitialisedMeansSynced` |
| `DataService_proofs` | `BooksAgree` | `Spec => []HandlesMatchQueues` |
| | `PendingBitsAreRight` | `Spec => []ShortPendingFollowsQueues` |
| `Coordinator_proofs` | `DataIsHeldBack` | `Spec => []DataFollowsResponse` |
| | `RestIsInStep` | `Spec => []RestMeansInStep` |
| `Management_proofs` | `TypeCorrect` | `Spec => []TypeOK` |
| | `AsksWhatPibSays` | `Spec => []RequestedIsPib` |
| | `SettledIsApplied` | `Spec => []SettledMeansApplied` |
| | `BeaconsAreTrue` | `Spec => []BeaconsTellTheTruth` |
| `RadioService_proofs` | `TypeCorrect` | `Spec => []TypeOK` |
| | `RepliesAreMatched` | `Spec => []ReplyFindsItsParser` |
| | `RequestsAreConserved` | `Spec => []EachRequestInOnePlace` |
| | `StartUpHasNoCycle` | `Spec => [](Starting => NoWaitCycle)` |
| | `CycleNeedsBacklog` | `Spec => [](~NoWaitCycle => issued >= Cardinality(answered) + 3)` |
| `FrameCodec_proofs` | `FramesAreReceived` | `Spec => []ReceivedAsSent` |
| | `CutsAreNoticed` | `Spec => []CutIsNoticed` |

The assumptions are the named `ASSUME`s of the modules: the bounds are natural
numbers, there is at least one slot and one sequence number, and, where it
matters, that values of different Rust types differ (the sentinels among the short
addresses in `ManagementAssumption`, the three forms of `Option<FullAddress>` in
`CombinedPendingTableAssumption` and `DataServiceAssumption`); `FrameCodecAssumption`
gives the integers their width, an extended address its eight bytes and an optional
sequence number at most one value. Each module proves
that its invariant (`IndInv`; `DataInv` and `RestInv` in `Coordinator_proofs`, `CodecInv`
in `FrameCodec_proofs`) holds in
`Init` and is kept by every action, one lemma per action or kind of action, on
lemmas that say what each operator of the `...Ops` module does to the fields of its
argument. The parts of the invariants are operators of explicit arguments,
so the lemmas serve for the state before a step and after it. All of the
invariants were invariants of TLC runs before they were proved, except `CodecInv`, which
quantifies over any bytes.

**Pending table.** `IndInv` is `TypeOK /\ TableInv(t) /\ OneUpdate /\
CleanMeansSynced`. `CleanMeansSynced` alone is not inductive: when a result
arrives, the slot of the update becomes subject to it, and only `OneUpdate`
knows that the value which was sent is still the slot's value unless the slot is
dirty again. `TableInv` (the order is a permutation, free slots first, every
slot holds one inserted value, no value twice) is about the table alone; it
is needed because `promote` writes the slot at the head of the order and
`remove` the slot that `get_index` finds. It is proved operator by operator:
`OthersShape`, `PromoteShape` and `DemoteShape` say what the moves do to the order,
`OverwriteInv`, `PromoteSlotInv`, `FreeSlotInv` and `SetValueInv` that each
operation keeps `TableInv`. `LeastElementExists` (as in every module that needs it, from
the library's theorems on well-founded orders) is for `get_index` and for the first
dirty slot.

`RefinesLru` maps a table to the sequence of the values in its slots, in the order of
eviction (`Cached`). `FreeSlotsFirst` makes the slots without a value a beginning of
the order, so the mapping is a shift by their number (`LastFree`), and what a
promotion or a demotion does to the order becomes what `Touch` and `Filter` do to the
sequence. Neither an update nor its result touches the order or a value, so they are
stuttering steps.

**Device queue.** `IndInv` is `TypeOK /\ QueueInv(q, log) /\ History(log) /\
SleepMissesOnlyRetries`. That an acknowledgement or a send result which comes late
harms nobody follows from `Owned`: the state's key and sequence number are
those of the latest transmission of the entry at the front. A `Sending` state
whose `ack_requested` is gone is the delicate one, since the acknowledgement came
before the send result: `Exchange` says that the payload it keeps is one the frame
was acknowledged with. `Justified` carries what a `HaveResult` state may say until
it is reported, with `Budget` for failures: attempts and retries add up to
`MaxFrameRetries`, plus one while the front entry's attempt is under way. `Queued`
(each request once) is what makes the removal of a key the removal of one entry.

**Combined pending table.** The link orders everything by key (`LinkInv`): keys
increase along requests and along results, and results are older than requests.
Before the initialisation has succeeded no update is sent, and the `Init` request
the tables wait for is the youngest request of all, so that requests which older
tables left in the link are worked on before the radio clears its slots
(`Initialising`). From then on every request in the link is one a table waits for
(`AwaitedBy`), with the slot's value unless the slot is dirty again
(`Tracked`). This is the order that makes a reset safe: a radio that worked on two
requests at once would break it.

**Data service.** `HandlesMatchQueues` speaks of MCPS requests only; the invariant
(`Queues`, `Handles`) adds that a queue holds no key twice, that each of its
keys, those of association responses included, is a request made for the queue's
own destination and not answered yet, and that the handles are exactly those of
the open requests. So the key a poll reports is in one queue, and purging it or
reporting it takes it from all of them. `ShortPendingFollowsQueues` is about a
service that sleeps; what holds at all times is `Marks`, that the tables say of an
address what its queue has last reported, and nothing of an address without
a queue: a poll returns `Empty` only after a queue has reported that nothing is
pending. `Quiet` adds that a queue which returned `Pending` since the last
action is up to date. Extended addresses are excluded, as they share a mark
between PANs (section 5). The lemmas say of every operation of a queue which
keys it leaves (`Same`, `DropKeys`, `InsertKeys`, `PollShape`), and of every
operation of the tables which addresses it leaves marked (`SameMarks`,
`SetAddressMarks`).

**Coordinator.** The proof is about the composed specification: neither service's
theorem can be used, since their link here also carries the other's messages,
and the queues hold what the main loop sends. `DataInv` follows the data behind a
response from the main loop to the link: everything the main loop sends is for the
one short address and indirect (`MainInv`, `RequestsInv`), so it is in the queue of
that address as an indirect entry (`EntryInv`); such an entry is sent only from a
queue that was asked (`Polled`), and that queue is asked only by a device which
knows the address (`QueueInv`). A device never forgets its address, so this
stays true of what is in the link (`SentInv`).

`RestInv` adds what makes the MAC's rest a rest of the radio too. `ParamsInv` and
`TablesInv` are the arguments of `Management_proofs` and
`CombinedPendingTable_proofs` for one link with increasing keys (`LinkInv`), on
which a reset leaves messages of services that are gone: the last message for a
parameter is the one the parameter waits for, and an `Init` that the tables wait for
has no update and no other `Init` behind it. Since the radio may do what it then
reports as failed, a slot or a parameter is in step only if it is clean and nothing is
under way. `MarkInv` says that the table of short addresses has the device's address
exactly if the address's queue has last reported so, and `QuietInv` that a MAC that sleeps
has no parameter to send, no slot to write and no queue with something else to
report. With nothing left in the link these four give `RestMeansInStep`.

**Management.** The same order of keys, but per parameter: the request a
parameter waits for is the last one for that parameter, and its result counts only
if none is left (`Tracked`). A parameter that is clean and has nothing under way
has no request in the link at all; after a reset, which replaces the
parameters, everything is dirty again. `RequestedIsPib` needs the PIB to keep its
fields (`PibInv`), and `BeaconsTellTheTruth` that the address of the coordinator
changes only with `started` (`CoordinatorInv`) and that the MAC takes no request
while a beacon waits (`OneBeacon`).

**Radio service.** `Control` ties the control states of the two tasks to what
they hold; `MapInv` says that the map has one parser for an id and one for a
request; `WireInv` that the write in progress, the buffer, the wire to the
device and the replies on the wire back hold disjoint sets of registered requests,
each once, unless a request's answer was mistaken; `MistakenInv` that such a request has
been given its answer and that an earlier process's reply was the first to be mistaken, since
a reply differs from the parser under its id only if its own parser is gone; `Places` that the requests made so far are the disjoint union of
those in the channel, in the hands of the request task, in the map, in the channel
to the MAC and answered; `StartUpInv` that there is one request at a time until the
start-up ends. Only `Places` is conditional on the MAC being alive: a MAC that has
panicked drops its end of the channels. `Places` does not depend on the replies being the right ones,
so requests are conserved in any case, and counting them (`PlacesCounted`) gives
`CycleNeedsBacklog`.

**Frame codec.** `CodecInv` says that the wire holds the bytes of the frame
(`IsPacked`: the program's, or another stack's, which may leave PANs uncompressed and set
bits that `unpack` ignores), all of them or, after a cut, all but the last `k` (`Lost`), and that
a result is what `unpack` makes of the wire. The steps are short; the work is in the
lemmas about the parsers, one for each, from bytes and integers over addresses,
capabilities, beacons and commands to the frame. Each has the same form (`Reads`): given
the packed bytes followed by others, of which the last `k` are missing, a parser returns
the value they were packed from and leaves the others with the same `k` missing, or it
returns `NotEnoughData` and `k` is not 0. So whole frames (`k = 0`) and cut ones are
one argument. Only a payload takes whatever is left (`TypeReads`). Fields that share an integer
are told apart by `ControlBits`, `SuperframeBits`, `CapabilityBits` and `StatusBits`. The
program's own association request, which `pack` writes without its capabilities (section
5), is the one exception: `RequestRefused` says that `unpack` finds the byte missing.

Only model-checked, and why:

* liveness (`EventuallySynced`, `EventuallyApplied`, `EveryRequestAnswered`,
  `StartUpCompletes`, `EverythingIsReturned`, `EventuallyCoordinator`,
  `DeviceIsAnswered`): fairness and `ENABLED` are out of the prover's reach;
* `SerialFraming`: what it is compared with is defined by recursion over the bytes of the
  line, and what that gives for every line needs induction over data.

## 7. Plan

Done: the device queue, the tables, the data service, management and PIB, the
radio service, the framing, the frame codec, the composed MAC and main loop;
the proofs of the pending tables, the device queue, the data service, management,
the radio service, the coordinator and the frame codec.

## 8. Not modelled

* The generation of code by the derive macro (what the derived impls do is part
  of `FrameCodec`), and the slice target, which only tests use.
* The packet capture and the opening of the port in `main`.
* The executor: it polls every join handle whenever it is woken, and all tasks
  are spawned before it runs. (A task spawned while the last other one finishes would
  be left without a waker; nothing spawns then.)
* `WakerStore` and `UniqueKey`: their effect is what `asleep` and the key
  counters stand for. A waker that is not registered would show as a task
  asleep over work; the models take registration for granted except where a
  poll returns `Pending` after changing its own state.
* A read of 0 bytes from a port that was unplugged, which the stream repeats
  without end, and a device that never answers a `SetParam`: the code has no
  timeout for it.
* In `Coordinator`, what devices other than the one that is followed do after their
  association request.
* `radio_backed_param.rs`, which no module declares, and `old_src`, the previous
  implementation, which is not built.
