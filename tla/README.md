# TLA+ models of the goldfish device code

TLA+ models, model-checking configurations and machine-checked proofs for the
hardware abstraction layers of the Android emulator ("goldfish"/"ranchu").

* `X.tla`: a component, its actions and properties.
* `MCX.tla`, `MCX*.cfg`: instances for TLC (`tlc -config MCX.cfg MCX`).
  `MCDevice` holds the instances of all parts beside the radio.
* `XProofs.tla`: theorems about the component (`tlapm XProofs.tla`). The parts
  beside the radio share three of these: `HalProofs` (audio, sensors, camera),
  `NetworkProofs` (DHCP, Wi-Fi HAL, GNSS) and `ServiceProofs` (fingerprint,
  Wi-Fi forwarder); `RilEventProofs` has the wake lock too.
* `PROJECT.json`: which definition models which lines, the runs, the mutants
  that show each property can fail, the hazards and the theorems.

Names are those of the C and C++ code wherever TLA+ allows it.

## 1. The system

The repository is a set of independent processes on one virtual device. Each
talks to the emulator through a character device or a qemu pipe, and to the
Android framework through HIDL or a C HAL table.

| Part | State | Operations | Hard behaviour |
|---|---|---|---|
| AT channel (`radio/ril/atchannel.c`) | the pending response, command and write mutex, condition variable, reader flag | `at_send_command*`, `at_handshake`, `readerLoop`, `at_open`, `at_close` | several senders, unsolicited lines between the lines of an answer or in place of one, timeouts, hang-up and reopening |
| Radio state and main loop (`reference-ril.c`) | `sState`, `s_closed`, state mutex and condition | `setRadioState`, `requestRadioPower`, `mainLoop`, `waitForClose`, reader callbacks | four kinds of threads, reads after the mutex is released |
| Event loop (`libril/ril_event.cpp`, `ril.cpp`) | timer, pending and watch lists, wake-up pipe | `ril_event_add`, `ril_timer_add`, `ril_event_loop`, `RIL_requestTimedCallback` | a timer added while the loop decides how long to sleep |
| Request bookkeeping (`libril/ril.cpp`) | pending list, wake lock, its timers | `addRequestToList`, `RIL_onRequestComplete`, `RIL_onRequestAck`, `RIL_onUnsolicitedResponse` | double completion, acknowledgement after completion, timer races |
| IRadio service (`libril/ril_service.cpp`) | callbacks, their counter, rwlock, stored NITZ | `setResponseFunctions`, `checkReturnStatus`, about 280 methods | the framework dies and reconnects while others send |
| SIM access profile (`sap_service.cpp`, `RilSapSocket.cpp`) | request queue | enqueue, dispatch, complete | order of the queue, duplicate tokens |
| Interface monitors (`if_monitor.cpp`, `ipv6_monitor.cpp`) | thread, control pipe, addresses | start, stop, netlink messages | stop against a message |
| DHCP client | state, timers, last message, lease | `run`, `waitAndReceive`, `configureDhcp` | loss, duplicates, lease ends, failing configuration |
| Audio HAL | streams, I/O threads, queues, flags | prepare, write and read commands, standby, close | event flags that arrive together |
| GNSS HAL | connection, sink, running flag | setCallback, start, stop, cleanup | commands against device data |
| Sensors HAL | active mask, callback, operation mode | activate, operation mode, flush, inject, events | listener thread against the API |
| Wi-Fi forwarder | pending frames, retry queue, caches, receive buffer | frame, ack, error, timeout | acks that cross retries, expiry |
| Network manager, Wi-Fi HAL | pollables, netlink callbacks | poll, commands, interface requests | stop with callbacks outstanding |
| Camera HAL 3 (fake, qemu) | streams, in-flight queue, sensor, JPEG thread, 3A | configure, capture, readout, notify, close | three threads per request, closing with requests in flight |
| Camera HAL 1/2, factory, hotplug | preview and picture threads | start, stop, take picture | condition variables without mutex |
| Fingerprint HAL | enrolment state, listener | enrol, authenticate, cancel | cancel against a touch |
| Multi-display, qemud, qemu-props, tnc, soundtrigger | little | one-shot | none to speak of |

Every part is listed in `PROJECT.json` with its sources and status; the
hazards found in all of them are listed there at the line where they bite.

## 2. How the models are cut

The radio stack is the core: it has the most threads and the most code, and is
modelled bottom-up (`AtChannel`, `RadioState`, `RilEvent`, `RadioService`, then
the way of a call through `RadioDispatch`, `RilHandlers` and `RilRequests`, and
the `WakeLock` around it). Of the other processes those are modelled that have
threads, timers or a protocol of their own: `DhcpClient` (which refines
`Lease`), `WifiForwarder`, `WifiHal`, `AudioStream`, `Camera3` and `Camera3A`,
`Sensors`, `Gnss`, `Fingerprint`. Section 6 says what is left and why.

Composition: `AtChannel` includes the part of the main loop that reopens the
channel; `RadioState` includes the reader's close callbacks and the event loop
as the thread that runs timed callbacks; `RilEvent` gives what those two assume
of the event loop (each callback is run, in order, in time).

## 3. Modules

**`AtChannel`** models `atchannel.c`. Threads are `Writers` (binder thread and
event loop), one reader per connection and the main loop; the modem is the
environment. A writer takes the write mutex (in the emulator only, as the code
does), then the command mutex, checks, writes, and waits; releasing the command
mutex in `pthread_cond_wait` is a step boundary, as is every lock. A line
carries the number of the command it answers, which the code never reads: it
exists to say which line belongs where. What the modem sends unasked may have
the prefix of an answer (`+CREG`), or be NO CARRIER, which `processLine` takes
for the final line of whatever command is under way. AT_ERROR_INVALID_THREAD is
left out, since no caller of the RIL is the reader thread.

**`RadioState`** models `setRadioState` and everything that calls it: the
initialisation callback and polls on the event loop, power requests on the
binder thread, unsolicited lines and the end of the channel on the readers, and
the main loop that opens, waits for the close and opens again. `setRadioState`
is a step with the mutex held, and then single steps for the comparison, the
indication, the second read of `sState` and `onRadioPowerOn`.

**`RilEvent`** models the loop of `ril_event.cpp` and the timed callbacks of
`ril.cpp`. Time is a number; an entry is a timer and its absolute timeout, and
the entries of `pending_list` keep theirs, so that the order they are due in can
be stated. `calcNextTimeout` is a step of its own, because it reads the list
unlocked.

**`RadioService`** models how responses and indications reach the framework:
`setResponseFunctions` with the initial indications of `onNewCommandConnect`,
sends by the binder thread, the event loop and the AT reader, and
`checkReturnStatus` when the client is dead. The response functions of
`ril_service.cpp` differ in their payload only; they are told apart by the
callback object they use, by whether they look at the result, and by whether
the lock is taken around them (`sendErrorResponse` takes none). Framework
processes are numbered, and only the newest may be alive; a call to a dead one
returns an error. Unlocking a `pthread_rwlock_t` one does not hold takes away a
read lock of another thread. NITZ times are numbered, and the receive time is
that number, so that a delivered pair shows a mismatch. The copy of the NITZ
time is accessed without a lock; its content is read and used in one step, so
a read of freed memory is not represented.

**`RadioDispatch`** has the tables of libril, one row per IRadio method (the
request it makes, the errors it can answer with by itself), per request (its
response function, `ril_commands.h`) and per response function (the payloads it
takes for good). A payload is its C type, with the length where that is
checked. The vendor RIL is reference-ril at version 12, so branches on its
version have one side.

**`RilHandlers`** has `onRequest` of reference-ril. A handler runs to its end on
the binder thread, so it is the set of the sequences of completions that its
paths make; modem, SIM and arguments decide the path and are left open. Two
handlers complete a request twice on some path.

**`RilRequests`** puts the two together with `s_pendingRequests`. A token is
the address of a `RequestInfo`, and a freed address may be used again. A method
allocates and links, may refuse the call itself (the entry then stays linked for
ever, as in the code), or calls `onRequest`; each completion looks the token up,
unlinks it, answers and frees. The client registers, dies and registers again
at any time; what its death does to the lock is in `RadioService`, and here the
callbacks are simply reset. Calls that the dead client left in the binder queue
are answered like any other. `registerService` configures one binder thread,
which is `Threads`, and the arguments below depend on it.

**`WakeLock`** models the wake lock of `ril.cpp`: `grabPartialWakeLock`,
`releaseWakeLock`, the timer that gives the lock back and the acknowledgements
that the version-13 interface counts. Each indication cancels the timer of the
one before. Version 12 has no mutex, so its steps interleave; the property holds
until two threads overlap there (`overlapped`). A thread is not held up longer
than the 200 ms of the timer (`InTime`).

**`Lease`** is what a DHCP client promises: an address is in use only within a
lease that was granted for it. **`DhcpClient`** models `dhcpclient.cpp`: one
step of `run` per state, `waitAndReceive` with its timeouts, and
`configureDhcp` with a failure after each of its steps. The network loses,
duplicates and delays; servers offer, acknowledge and refuse. Times are small
numbers in words of `SecondsWord` and `MillisWord`, so that `leaseTime * 7`
overflows in the model as it does in 32 bits. The refinement maps `inUse` to the
address of the interface and `settled` to the state Bound.

**`WifiForwarder`** models `local_connection.cpp`, `remote_connection.cpp`, the
expiring caches and the retry queue, between `mac80211_hwsim` and another
emulator. A frame is one of a few with transmitter, destination and attempts;
the kernel, the remote side and the clock are the environment. A message for a
radio may fail to be built, for the first time or again for a retry, which drops
the frame there without a word. The use of an erased iterator in `onAck` is a
choice between erasing and not.

**`WifiHal`** models the life of the legacy HAL: `HalState`, the `Info` object
it owns, the event loop that runs on that object, and `wifi_cleanup`, which asks
the loop through a pipe to call back and to destroy the object. A thread that
calls `wifi_event_loop` may be late, and then find the object of a later
`wifi_initialize`. When `poll` fails nobody calls back any more (`broken`).

**`AudioStream`** models a stream of either direction, its I/O thread, the two
event flags it shares with the client and the requests of other threads
(stand-by, exit), and the count of open streams of the device. A PCM that cannot
be opened or closed aborts the process, with every stream (`pcmFatal`).

**`Camera3`** models a capture request on its way through the fake camera: the
caller, the sensor thread, the readout thread and the JPEG compressor, with
their locks and condition variables as step boundaries, and every wait that may
time out. The sensor and the readout thread wait once and do not look again, so
that spurious wake-ups are steps. `closeCamera` may come at any time the caller
is not inside a call: it waits for the sensor with `mLock` held, clears it, and
joins the readout thread. Where a thread then uses what is not there (an empty
queue, the cleared sensor, buffers deleted twice, a deleted listener) the
process dies and starts again (`undefinedUse`). **`Camera3A`** models
`doFakeAE`, `doFakeAF` and `doFakeAWB`, one step per request, with the modes and
triggers they refuse. Exposure times are integers in a coarse unit, and the way
to the target is divided by `TrackRate`, where the code multiplies it by a float,
`kExposureTrackRate`.

**`Sensors`** models `multihal_sensors.cpp`: activation, operation mode,
initialisation and destruction, the listener thread and the pipe the host writes
events to. Flush and injection post events and change no state; they are left
out. `initialize` comes before the other calls, as the proxy of the multi-HAL
sees to. **`Gnss`** models the worker thread, the two
command channels, the line buffer and the callback. **`Fingerprint`** models the
calls of the framework, the listener thread, the state word and the table they
share, the file of each group, and a crash between any two steps; a
`saveFingerprint`, two writes with the lock held, is one step.

## 4. Runs

| Run | Shows |
|---|---|
| `at_channel` | commands are serialised; a waiter finds its own response; as long as answers and commands are in step, every answer is complete, in order and for the command sent, and no line of an answer goes astray |
| `at_live` | every call returns, over a hang-up and a reopening |
| `at_late_ok` | violated: the late OK of a timed-out handshake attempt completes the next command |
| `radio_state` | a closed channel leaves the radio unavailable; every change is indicated; a radio that is on has been set up; a closed channel is reopened |
| `radio_reader` | violated: "Currently, this doesn't happen" of `onRadioPowerOn` on the reader thread |
| `ril_event` | the loop does not oversleep; the callbacks that are pending are in the order they are due, before all others; each is run |
| `radio_service` | callbacks of a live client stay, those of a dead one go; the lock is balanced; the last NITZ time is kept; every send ends |
| `radio_lock` | violated: "Caller should already hold rdlock" of `checkReturnStatus` |
| `ril_requests` | each call is answered once and by its own handler, on every path of every handler; the pending list is sound; handlers send what response functions read |
| `ril_success` | violated: a stored SMS is reported as INVALID_RESPONSE, for want of the int that `ril.h` promises |
| `radio_nitz` | violated: the kept NITZ time is delivered with the receive time of a later one |
| `device` | the parts beside the radio, one in each behaviour; see the next table |

| Part in `device` | Properties |
|---|---|
| DHCP client | `BoundWithinLease`: in Bound the interface is up with an address whose lease runs, and a route; `LeaseSpec`: it implements `Lease`; `MovesOn`: Requesting, Rebinding and Bound are left |
| Wi-Fi forwarder | `UnicastReportedOnce`: the sender of a unicast frame is told of it once, whatever acknowledgements cross its retries; `PendingFramesEnd`: no frame is kept for ever |
| Wi-Fi HAL | `InfoOutlivesUse`: the object that the loop destroys is there while anyone uses it; `ShutdownReturns` |
| Audio | `RequestsKept`: a command is processed with an open PCM only, stand-by leaves it closed, and the status answers the last command; `CommandsAnswered`: a command that was announced is answered |
| Camera | `PipelineInStep`: sensor, readout and compressor work on the same capture, unless an image was overwritten; `RequestsAnswered`: an accepted request gets its result, and its JPEG; `ExposureSettles`; `ShutdownReturns`: `closeCamera` returns |
| Sensors | `HostFollowsFramework`: the host runs active sensors only, none while data is injected |
| GNSS | `SentencesWhole`: what is parsed are whole sentences of one session |
| Fingerprint | `EnrolledIsStored`: an enrolled finger is in the file of its group, after any crash and switch of groups; `ShutdownReturns`: `fingerprint_close` and `fingerprint_remove`, like `wifi_cleanup`, return |
| Wake lock | `HeldUntilTimeout`: a lock that is held is on its way to be given back |

In `device` a behaviour moves one part and the others rest. The parts are
processes of their own, or state that the rest of their process does not touch;
no variable is shared, so no property can depend on how two of them interleave.
`DeviceTypeOK` is the type invariant of all of them.

Bounds. `at_channel`: two writers and two calls are the least for contention and
for a second command after a failure; two intermediate lines for an order; one
unsolicited line (`+CREG`, which one of the entry points asks for as well, or NO
CARRIER), one timeout, one hang-up and two connections for each fault to meet
each step. `at_live` keeps the two connections, and of the entry points the one
with a PDU and the one with a timeout. `radio_state`: two connections, two
outside inputs and one poll. `ril_event`: two threads, three callbacks (two that
are pending, and one that is added before or between them), delays 0 and 2 (due
at once, and after another one), time up to 3. `radio_service`: two clients (a
death and a reconnection), two NITZ times (one kept, one that arrives
meanwhile), and one send besides those and the two of each connection, so that
three threads can meet inside `checkReturnStatus`. `ril_requests`: all 135 rows
of methods; two addresses and two calls, so that the second call finds a leaked
entry on the list, or uses the address the first has freed; clients of version
1.0 and 1.4, which differ in the callbacks they have.

`device`: DHCP has one server and address, a lease whose T2 is estimated (with
the overflow), one whose timers the server gives and an answer without a lease
(an estimated T1, half the lease, would need longer leases; the proofs cover
it); timeouts back off once (1, then 2), and two transaction ids let an answer
belong to an earlier message. The forwarder has a broadcast, a local unicast
frame with two attempts and a remote one to an alias, and expiry within the life
of a frame. Audio has one stream, a command the thread knows and one it does
not. The camera has three requests of three kinds with room for two, so that the
queue fills and the compressor is asked for while busy, and is closed and opened
again. The exposure starts from two targets, with one frame of precapture, and
halves its distance in a step (the code takes a fifth, which in small numbers
would stop short). Two sensors, one of them on-change, and a pipe of two events.
GNSS sentences are of two lengths, one longer than the buffer. The wake lock has
two threads and timers, both versions. The Wi-Fi HAL has two requests, and two
threads on their way to the event loop. The fingerprint table has two slots; one
group starts with a full file and one with none, and one enrolment can meet
every removal, switch, close and crash.

Two `radio_service` properties stop at `unheld`, an error sent to a dead client
(`radio_lock` shows that they must), and one at `overlapped`, a NITZ time that
arrives while a client connects (`radio_nitz`).

Some `at_channel` properties name the condition under which the code keeps
them (first connection, or `InStep`: in the emulator, no expired handshake, no
command ended by an unasked NO CARRIER). `at_late_ok` shows that the timeout
condition is needed; NO CARRIER does the same, as the answer of the command it
ended is still to come. Outside the emulator `s_writeMutex` is not taken, and
commands are not serialised at all. An unasked line with the prefix of an answer
needs no condition: the property says that it may stand in for the line that
was asked for, which `parseRegistrationState` provides for ("the unsolicited
version could have snuck in").

Fairness. Threads run (weak fairness of each thread's steps), and a connected
modem answers; it need not hang up, speak unasked or be late. In `RilEvent`,
`select` has strong fairness, since signals may interrupt it again and again
but not for ever. In `RadioService` sends are bounded, so a thread that waits
for the write lock is not starved by readers; nothing in the code bounds that.
In `device` threads run, time passes and `poll` returns when its time is up;
only the camera's readout thread has strong fairness, since it competes with
other threads for its mutex. Networks, hosts, users and callers owe nothing,
but that for `ExposureSettles` requests with an AE mode keep coming: exposure
moves with requests only. Spurious wake-ups need not happen.

Some liveness properties name what the code does not survive: `MovesOn` leaves
Renewing out (each ACK that cannot be configured starts T2 again), and
`ShutdownReturns` stops at `exitLost` (the listener's start, or the end of an
enrolment, overwrites STATE_EXIT, and `fingerprint_close` never returns) and at
`broken` (after a failed `poll`, `wifi_cleanup` waits for ever), and, for
`closeCamera`, at `closeStuck` (the sensor waits for the readout thread, and
that one for the `mLock` which `closeCamera` holds while it waits for the
sensor). `RequestsAnswered` stops there too, and leaves as many of the last
requests unanswered as images were overwritten (`lost`); `EveryCallReturns`
stops when `at_open` took a waiter's response away (`Stranded`) or the modem
waits for the PDU of a command that NO CARRIER ended (`PduForgotten`).

Deadlock is checked except in `at_channel`, where a thread that finds a null
response has crashed, in `radio_service`, which stops when the bounded sends are
used up, and in `ril_requests`, where a method that uses the NULL it got for a
request has crashed; in `device` it is checked. `RilRequests` has no liveness
property: a handler waits for the modem, without a timeout.

## 5. Proofs

For every set of threads and every value of the bounds. Every safety invariant
that a run expects to hold is proved (`DeviceTypeOK` in its parts). The
assumptions are named in the modules that declare the constants, and TLC
evaluates them on each run:

* `AtAssumption`, `RadioAssumption`, `EventAssumption`, `ServiceAssumption`,
  `RequestsAssumption`, and `AudioBounds`, `CameraBounds`, `SensorsBounds`,
  `GnssBounds`, `WakeBounds`, `WifiHalBounds`, `FingerprintBounds`,
  `ForwarderBounds`: what the constants range over (bounds are numbers, streams
  are finitely many, a null value is none of the real ones, a frame comes from
  this emulator or another).
* `TablesComplete`: each request has one row in the tables of libril, and each
  response function it names too.
* `ThreeABounds`: exposure times are numbers and controls those of a request.
* For DHCP those on its timers and grants (`GrantAssumption`: a lease outlasts
  its T1 by the longest back-off).

The theorems, and the invariants behind them:

* `AtChannelProofs`: `TypeCorrect`, `Serialised` (`OneCommandAtATime`) and
  `WaiterSafe` (`WaiterOwnsResponseUntilReopen`). The inductive invariant
  `OwnerInv` ties the pending response to the one thread behind the write
  mutex, and says what the first connection is. `AnswersAreOwn`
  (`AnswersItsCommandInStep`) and `AnswersNeverStray` (`NoStrayLines`)
  follow an answer over the wire. `AnswerInv` says that the lines between modem
  and `processLine` are in order (`Wire`), that they belong to the command of
  the one thread that waits (`Served`), that what the response has collected,
  these lines and what the modem will send make one answer, or that an unasked
  line with its prefix has displaced it (`Collecting`), and that nothing of a
  connection is left when its end is seen (`Drained`). Unsolicited lines may have
  any prefix, and no theorem has a hypothesis.
* `RadioStateProofs`: `TypeCorrect`, `ClosedIsUnavailable`,
  `EveryChangeIndicated`, `RadioOnIsSetUp`. The properties speak of moments when
  no thread is inside `setRadioState`; the invariant says what a thread inside
  still owes (`IndicationOwed`, `SetUpOwed`), and that readers never ask for ON.
  The types include the bound on pending SIM polls, each of which is one of
  those that were asked for (`PollsBounded`).
* `RilEventProofs`: `NeverOversleeps`, `TimersFireInOrder`. Only the head of the
  list is looked at, so sortedness is part of the invariant, and for the order of
  `pending_list` that what is pending has expired; a byte written
  before the pipe exists is lost, so `PipeInv` is too. The lemmas say what an
  insertion into a sorted sequence and the removal of its expired prefix give.
  `TypeCorrect` adds the types of the rest. For the wake lock,
  `LockIsGivenBack` (`HeldUntilTimeout`) and `WakeLockTypes`: the invariant
  `WakeInv` says that the remembered timer is one that runs (`Remembered`), that
  threads which set timers have different ones (`NewTimers`), and that a timer
  is not cancelled by another thread before it is remembered (`OneAtATime`).
* `RadioServiceProofs`: `TypeCorrect`, `LiveClientSafe`, `DeadClientGone`,
  `LockBalanced`, `NitzKept` (`NitzKeptUntilOverlap`). A thread that fails notes
  the counter under the lock, so while the callbacks are those that failed;
  every change of them moves the counter. `Knowledge` states this for each step
  of `checkReturnStatus`; it needs the balance of the lock (`Holding`) and that
  only one client is installed (`OneClient`). For the NITZ time, `Roles` says
  which thread does what (times arrive on the reader and are sent again by the
  binder thread), and `NitzInv` where the newest time is at each step of the
  two.
* `RilRequestsProofs`: `TypeCorrect`, `AnsweredOnce`, `OwnAnswers`, `ListIsSound`,
  `SuccessIsRead` (`SuccessIsReadable`). Every path of
  `onRequest` has a completion (`OnRequestCompletes`, handler by handler); until
  the first one the request is on the list with its serial (`Fresh`), and after
  it off the list and answered (`Settled`), so that later ones are ignored. The
  address cannot come back before the handler ends, because the one thread
  that adds requests is in that handler (`OneThread`). For `SuccessIsRead`,
  `OnRequestReadable` compares each handler with the rows of the tables for its
  request: a payload sent with success is one the response function takes for
  good. `CallInv` carries this from `onRequest` through the completions a call
  has left.
* `NetworkProofs`, DHCP: `StaysWithinLease` (`BoundWithinLease`), `Refinement`
  (`LeaseSpec`) and `DhcpTypes`, for all grants and words. The invariant says
  that outside Bound no timeout is longer than the longest back-off (`Bounded`),
  which address is asked for (`Requested`), that a lease whose answer is under
  way still runs long enough when the answer is taken (`Answers`), and that in
  Bound the configuration is whole and T1 comes before the lease ends
  (`Settled`).
  Each step of the client is then a step of `Lease`, or a stutter.
* `NetworkProofs`, Wi-Fi HAL: `InfoStays` (`InfoOutlivesUse`) and `WifiHalTypes`.
  `onStop` destroys the object without the mutex; `StateOfLoop` says what each
  place of the loop and of `wifi_cleanup` implies for the state word.
* `NetworkProofs`, GNSS: `SentencesAreWhole` (`SentencesWhole`) and `GnssTypes`,
  for sentences and buffers of any length. `Stream` says that the bytes in the
  device, and the last one in the buffer, each have the next one behind them.
* `HalProofs`, audio: `KeepsRequests` (`RequestsKept`), for any streams and
  commands; `AInv` adds where the thread is with each flag taken.
  `AudioTypes`: `mNStreams` is the number of open streams (`Counted`), so
  `unrefDevice` does not find it zero.
* `HalProofs`, sensors: `HostFollows` (`HostFollowsFramework`), for any sensors
  and events, and `SensorsTypes`.
* `HalProofs`, camera: `PipelineStaysInStep` (`PipelineInStep`) and
  `CameraTypes`, for any number of requests and length of the queue, through
  closing, restarts and spurious wake-ups. Requests and images go two ways;
  `SameFrames` says that both hold the same frames in the same order as long as
  no image was overwritten, `Unanswered` that what the sensor has to fill
  belongs to requests that are still to be answered, `SensorGone` what is left
  when `closeCamera` has joined the sensor, `SensorInv` how far the sensor is,
  and `OneReserved` that the compressor is promised to one request.
  `ExposureStaysBetween`: tracking does not overshoot the targets of scenes and
  scans.
* `ServiceProofs`, fingerprint: `EnrolledStaysStored` (`EnrolledIsStored`) and
  `FingerprintTypes`, for any groups, fingers and size of the table. The table
  may hold fingers of another group; `FileFollowsTable` says that a slot of the
  file is that of the table or free.
* `ServiceProofs`, forwarder: `ReportedAtMostOnce` (`UnicastReportedOnce`) and
  `ForwarderTypes`, for any frames and radios. A unicast frame has one reporter
  at a time (`OneReporter`): its radio, the kernel by one sequence number, the
  retry queue or the other emulator; and an answer of the kernel names the frame
  it was asked about (`AnswersMatch`).

Only model-checked is what is temporal under fairness (`EveryCallReturns`,
`ReopensAfterClose`, `EveryTimerFires`, `EverySendEnds`, and in `device`
`MovesOn`, `PendingFramesEnd`, `CommandsAnswered`, `RequestsAnswered`,
`ExposureSettles`, `ShutdownReturns`), which is beyond the prover. `DeviceTypeOK`
is proved part by part, by the types of each part; that a behaviour of `device`
moves one part only is the shape of `MCDevice` and has no theorem.

## 6. Not modelled

* Bytes of lines and buffers, log output, `sepolicy`, overlays, build files,
  init scripts.
* Image data and pixel arithmetic. One test pattern alone is most of the
  repository (`acircles_pattern_1280_720.c` has about 115 000 lines of
  numbers), so the models stand for a small share of all lines, about 8%, and
  for a much larger one of the code that has state.
* The qemu camera (`EmulatedQemuCamera3`), which has the pipeline of the fake
  one with the images made by the host, and the camera HALs 1 and 2, which are
  used only if a property of the image asks for them. Camera factory and
  hotplug: one thread that passes on what inotify tells it.
* SIM access profile: reference-ril never registers its SAP functions, so no
  request of it is answered. Network and IPv6 monitors, network manager, network
  namespaces: wrappers of netlink and ioctl calls with little state.
* The AT tokenizer: pure functions on characters.
* Most of the function table of the Wi-Fi HAL (constants), mixer and effects of
  the audio HAL, sensor data, NMEA fields, authenticator ids.
* Multi-display, qemud, qemu-props, rild, the configuration app: one-shot.

## 7. What modelling showed besides the runs

Behaviour that the models have, or that an assumption keeps out, and that no
comment in the code contradicts clearly enough for a run of its own:

* AT channel: a NO CARRIER that reports a remote hang-up ends the command under
  way, whose answer goes to the next one; a `+CREG` that comes unasked may be
  taken for the answer, and the answer then for an indication.
* DHCP: after a NAK `haltNetwork` takes the interface down, and only an ACK
  brings it up again; the comment says "halt network and start over"
  (`dhcpclient.cpp:271`). An address stays past its lease after a failed
  rebinding, until the next offer is configured.
* Wi-Fi forwarder: the retry queue is a max-heap, so the latest deadline is
  served first; an empty data frame stays in the receive buffer of the remote
  connection; a multicast frame may be reported both by a remote and by a local
  acknowledgement.
* Wi-Fi HAL: `recv` on the control pipe fails with ENOTSOCK, and the failure is
  taken for a message; an error answer leaves its handler in `mHandlers`; the
  callback wakes `wifi_cleanup` before the state is Stopped, so that an
  immediate `wifi_initialize` is refused.
* Audio: a caller that waits for its status when the stream is closed gets none;
  a stand-by that arrives while a command is under way may leave the PCM open
  until the next wake-up; queries of position open the PCM; a PCM that cannot be
  opened aborts the audio service.
* Camera: a wait that times out after `reserve` leaves the compressor busy and
  buffers locked; the error path unlocks `output_buffers[i]` in place of `[j]`
  (`EmulatedFakeCamera3.cpp:987`); a depth-cloud request reserves the compressor
  and nothing starts it. `closeCamera` with requests in flight can wait for ever
  (189), clear the sensor under the readout thread (194, 2521), and leave the
  compressor with a deleted listener (`JpegCompressor.cpp:125`); a compressor
  thread that has not quite ended makes `start` fail, and the buffers are
  deleted twice (`JpegCompressor.cpp:81`). A spurious wake-up loses an image
  (`Sensor.cpp:293`), or takes a request from an empty queue (2504). 3A: a
  precapture ignores the AE lock, and "Focusing always succeeds" (2139) stands
  beside a branch that ends NOT_FOCUSED_LOCKED.
* Sensors: events in the pipe are posted after their sensor was deactivated. GNSS:
  a newline on an empty buffer reads `m_buffer.back()`; leaving a session by QUIT
  sends no SESSION_END.
* Fingerprint: a scan that is asked for while an enrolment ends is lost, against
  "should remain in the scanning state until either an error occurs or the
  operation completes" (`fingerprint.c:671`); a cancelled enrolment may still
  finish; receive errors are compared with a limit but never counted; a crash
  within `saveFingerprint` can leave one half of an entry.
* libril: `sendDeviceState` and `setIndicationFilter` pass a request that could
  not be allocated to `sendErrorResponse`; two threads of a version-12 client
  can cancel each other's wake lock timer.
