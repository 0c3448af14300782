# TLA+ models of the Steam Controller bridge

This directory holds TLA+ modules, TLC configurations and TLAPS proofs about the programs of
this repository. The modules are translated from the source. `PROJECT.json` names, for every
definition that models code, the lines it stands for, the runs with their properties, the
mutated definitions that each property must reject, and the theorems.

```
tlc -workers 2 -config MCSession.cfg MCSession       # one run: config, module
tlapm FirmwareSession_proofs.tla                     # the proofs of one module
```

## 1. The system

A Steam Controller talks HID to a host computer. The host program decodes and maps its reports,
and hands the mapped state to an *output*: usually the *bridge*, a XIAO nRF52840 board that speaks
framed CDC serial to the host and presents itself as an Xbox gamepad to a computer or console.
Rumble travels the other way. The same host may also press keys (desktop bindings), show a profile
wheel and write new firmware to board and controller.

```
Steam Controller --HID--> HID worker --mailbox--> active session --BridgeEngine--> output
                              ^                      |   |                           |
                              | haptics, lizard      |   +-- desktop worker          | CDC frames
                              +----------------------+       (mailbox, barriers)     v
  menu app, power monitor, updater --commands--> supervisor                  firmware session
                                                                             | HID reports
                                                                             v
                                                                          USB host
```

### Components

| Component | State it keeps | Operations | What makes it correct |
|---|---|---|---|
| Firmware session (`firmware/.../bridge_session.cpp`) | handshake, expected sequence number, error count, HID report queue, rumble queue, watchdog, lease, quarantine, control requests, CDC queue | frames from the host, decode errors, USB and DTR edges, XInput rumble, tick, endpoint completion | an input held down never outlives its host; safety neutrals go first; nothing plays for a dead game; a control request freezes the device and gets a true answer |
| Firmware loop (`xiao-nrf52840.ino`) | previous edges, staged rumble, UF2 transition | one pass of the services | the OUT endpoint is always served; DFU is entered after the answer was sent (only while the host keeps its port open, see *What TLC found*) |
| Install receipt (`install_receipt.cpp`) | two slots of a flash page | read, write word by word, read back | what was acknowledged survives every failure and power loss |
| Wire protocol (`bridge_protocol.*`, `bridge-protocol`) | the decoder's buffer and mode | encode, push a byte | resynchronises after damage; both sides find the same frames |
| Host connection (`bridge_transport.rs`) | handshake, sequence, queued states, ping, refresh, answers, desired state | send, service, neutral, control requests, reconnect, drop | the device holds the newest state also after reconnects; a dead device is noticed; answers are to the request that waits |
| Bridge engine (`bridge-core`) | last state sent, last input, decode failures, neutralized | report, tick, disconnect, reset, shutdown | the dedupe never leaves the game with an old state; silence ends in neutral |
| Active session (`supervisor/active_session.rs`) | the engine, the batch, the exit | one iteration: commands, reports, service, shutdown, timeout; teardown | the game sees the controller or neutral; a clean end is neutral |
| Supervisor (`supervisor/mod.rs`, `commands.rs`) | intent, suspensions, acknowledgements, selected output, handles | commands of its callers, discovery, sessions, cleanup | closed means closed; every caller is answered; the right output |
| Desktop worker (`desktop/*.rs`) and bindings engine | mailbox, generation and epoch counters, staged feedback, held keys | publish, overflow, controls as barriers, observe, tick, shutdown | no key held, no feedback used on the word of the past; every control answered |
| HID worker, haptics, lizard, feedback relay (`supervisor/controller/*`) | event channel, report mailbox, rumble and lizard deadlines | poll, publish, power off, stop | motors stop; no exit waits on a full channel |
| Virtual gamepad (macOS: `client.rs`, `helper.rs`) | report slot, the request on its way, the helper's expected number, the device | publish, neutral, acknowledge, time out, reap | client and helper keep in step; an acknowledged neutral is what the device shows; a failed helper takes the device with it |
| Release updater | cached catalog, its lock; board, image, request, receipt | refresh; find, enter bootloader, copy, reconnect, record, verify | the catalog never goes back; what an installation reports is so |
| Menu app and App Center (`app_center.rs`, `host_client.rs`, `app_center_host.rs`) | window, worker, requests with ids, ownership of the suspension | job, request, serve, time out, close, crash, recover | the bridge is suspended while a board is written; a suspension ends |
| Automatic shutdown (`automatic_shutdown.rs`, `idle_shutdown.rs`) | policy, phase, retry, placement handled, idle timer | status, states, decision, attempt | a power-off is earned, once per placement, and spaced |
| Controller discovery | candidates, scan interval, cooldown | scan, probe, select | a lone controller in use is found |
| Visualizer's lizard lab (`lizard/capture.rs`, `ui.rs`) | queue, reorder window, file, guide | stamp, offer, write, cancel, leave | a capture that says it is valid is complete; cancel ends |
| Picker, mapper, recording, platform crates | see `PROJECT.json` | | |

`PROJECT.json` lists every part with its sources, modelled or not, with the reason.

### Where it is hard

* Two ends with timers of their own: the firmware's data watchdog (100 ms) against the host's state
  refresh, the ping and pong deadlines, the rumble lease (250 ms) against the refresh (25 ms).
* *Safety* reports that must overtake normal ones and be overtaken by none, in two queues of depth one
  with a deferred slot, through remounts and cancelled duplicates.
* A send that fails after the other side took it over; a reconnect that happens inside a call which
  then reports success.
* Control requests with ids, answers that come late, twice or for an earlier attempt.
* Power loss between two words of a flash page that is never erased.
* Queues at their limits which drop, replace or refuse: the CDC queue of four frames, the mailboxes.
* One supervisor thread with several owners (user, sleep, updater) that each want hardware closed.
* A desktop worker that reads a generation, presses a key and only then looks whether it was current.

`PROJECT.json` lists each hazard at its line with the properties that watch it. One has none: the
status of the desktop bindings, which two threads write (see *Observations*).

## 2. The modules

| Module | Models | Extends / used by |
|---|---|---|
| `FirmwareSession` | `BridgeSession`, `UsbCdcQueue`, the connection edges of the loop | `MCFirmware`, `FirmwareSession_proofs` |
| `FirmwareLoop` | the loop of the sketch and the USB stack's task between any two of its steps | `MCThreads`, `Threads_proofs` |
| `InstallReceipt` | the flash page below the session's receipt handlers | `MCApplications`, `Applications_proofs`; refines `ReceiptPage` |
| `ReceiptPage` | abstract: a write-once receipt that survives everything | by `InstallReceipt` |
| `StreamDecoder` | the framing of the serial link, both decoders byte by byte | `MCOutput`, `Output_proofs` |
| `WireMessages` | the payloads of protocol v1, written and read | by `MCOutput`, as assumptions that TLC evaluates |
| `HostConnection` | `BridgeConnection`, `BridgeOutput` | `HostTiming`, `HostConnection_proofs` |
| `HostTiming` | the clocks against which the host's timeliness is judged | `MCOutput` |
| `BridgeEngine` | `BridgeEngine` as operators from state to outcomes | `ActiveSession` |
| `ActiveSession` | `run_active` | `MCOutput`, `MCActiveSession`, `Output_proofs` |
| `DesktopMailbox` | the mailbox and the staged feedback | `DesktopWorker`, `MCThreads`, `Desktop_proofs` |
| `DesktopWorker` | worker, runtime, the supervisor beside them | `MCDesktop`, `Desktop_proofs` |
| `BindingsEngine` | chords, counted outputs, regions, motion and momentum of the bindings | `MCDesktop`, `Desktop_proofs` |
| `Supervisor` | `Supervisor::run` and the commands | `MCSession`, `Runtime_proofs` |
| `Haptics` | the rumble lease and lizard suppression, as operators | `HidWorker`, `FeedbackRelay` |
| `HidWorker` | the controller's thread, its HID session and the session that consumes it | `MCThreads`, `Threads_proofs` |
| `FeedbackRelay` | a rumble from the output to the motor | `MCSession`, `Threads_proofs` |
| `AutomaticShutdown` | dock and idle power-off | `MCSession`, `Runtime_proofs` |
| `ControllerDiscovery` | stable scan, candidates, buffers, selection, cooldown | `MCSession`, `Runtime_proofs` |
| `VirtualHid` | the macOS gamepad's client, worker, pipes and helper | `MCSession`, `Runtime_proofs` |
| `ReleaseCache` | the signed catalog that two processes refresh | `MCApplications`, `Applications_proofs` |
| `FirmwareUpdate` | one installation of an image on a board | `MCApplications`, `Applications_proofs` |
| `AppCenter` | window, worker, parent and bridge of an update | `MCApplications`, `Applications_proofs` |
| `LizardCapture` | producers, queue, writer and window of the lab | `MCApplications`, `Applications_proofs` |
| `MC*` | the instances for TLC | |
| `RecursionTheorems` | lemmas: induction over sets of numbers and of sequences, recursive functions exist and keep what their steps keep | `Output_proofs`, `Desktop_proofs`, `HostConnection_proofs`, `Applications_proofs` |

A module keeps the state of a part in a few record variables, so that several parts fit into one
instance. The components of an instance share no state: a variable `part`, chosen at the start, says which
of them this behaviour is about, and the others stay where they are. Components that *do* interact are in
one module or extend one another.

### FirmwareSession

Each handler of `BridgeSession` is an action: `OnHello`, `OnGamepadState`, ..., `OnDecodeError`,
`OnXinputRumble`, `MarkHidReportSent`, `Tick`. The edges that the loop reports are
`OnCdcConnected`, `OnCdcDisconnected` and `OnHidMounted`; `Reboot` is power loss or the hardware
watchdog; `ServiceCdcTx` is the host reading a frame. `queue_hid`, `force_neutral`, `queue_rumble`,
`xinput_rumble`, `due_rumble` and `rumble_sent` are the private methods, as operators on a record
for each queue.

* A flag and the timestamp it guards are one variable: `Off`, or the time since it was armed, saturated
  at the limit it is compared with. `ArmedTimersAreServiced` is what makes the saturation sound: an armed
  timer is looked at by every tick, so the unsigned 32-bit difference never wraps.
* The loop calls the handlers in one order; the model allows every order, which covers it.
* One action is one handler, so a `Tick` runs everything `tick` runs: watchdog, device info, rumble,
  receipt, UF2, in that order, each with the queue the one before it left.
* `rumble_told` is a ghost: the intensity the host heard last.
* `ReceiptOutcomes` says which pages and replies a receipt write can end with. `InstallReceipt` is the
  detailed model of that write, and its refinement of `ReceiptPage` is what justifies the abstraction.
* Not kept: the transmit sequence number and the diagnostics counters, which the firmware only reports.

### FirmwareLoop

The loop is cut where it reads or writes what the USB callbacks share with it: the connection edges, the
staged rumble report, the flag that asks for a transfer. `UsbTask` runs between any two steps, since the stack's
task has the higher priority. Of the session it keeps what the transition to the UF2 bootloader asks.
`uf2_loop.lost` is a ghost: the host dropped DTR after the transition had started. `DfuIsEarned` is what the architecture
document promises of every host, and is violated; `HeldPortEarnsDfu` is what holds: the grace period for all, and the rest
for hosts that keep the port open.

### InstallReceipt and ReceiptPage

A slot is the receipt meant for it, how many of its words are programmed and whether the next one is
torn. A call of `write_word` is refused, fails before or after it programmed its word, tears it or
succeeds; power may go at any word. Magic, CRC and commit word of a slot hold exactly when all its words
are programmed: that is the one abstraction of data, a CRC that no torn slot matches.
`ReceiptPage` is the promise: blank, unusable or one receipt, final once it is there.
The refinement maps a page that is being written to blank until the commit word is there.

### StreamDecoder and WireMessages

Bytes have four values and the checksum one byte; a damaged frame may satisfy it by accident and
then counts as a frame, as with the CRC. The host takes the bytes of a read at once, the device one by
one. The loop of both is `process`, a recursive function of the buffer: each round discards what comes before a
magic (`Aligned`), stops if the candidate is not complete (`Waits`), and drops it or its first byte with a
verdict (`Candidate`). What a frame *means* is a definition per end, because the code's checks differ: `parse_message` of the
host and `validate` of the device. The host refuses a receipt whose source it does not know
(`bridge-protocol/src/lib.rs:428`); the device's decoder checks its length only (`bridge_protocol.cpp:207`), and refuses the source when it
is to store the receipt (`install_receipt.cpp:46`). Of a state whose axis and hat are both bad the host names the axis and
the device the hat. `EndsAgree` allows these two differences (`Agree`) and no other. `DamageIsConfined` asks of every buffer the device
can hold, and of every type and every payload that neither end refuses, what becomes of a whole frame that comes next. `WireMessages` evaluates every payload over fields at their limits with four values to a byte, so the
widths and the order of the fields stay.

### HostConnection and HostTiming

Every call of `BridgeOutput` that changes state is an action: `Open`, `SendState`, `SendNeutral`,
`Service`, `TakeFeedback`, the control requests and `Drop`. What a call does inside (poll, reconnect,
queue, flush, second attempt) is computed as the set of its possible outcomes: over the messages that
the device may have sent, at most `BatchLimit` in a poll (`Handled`), and over the first write that the port refuses (`Ports`). A
blocking control request is one action per iteration of its wait loop, because the device answers meanwhile.
The device is the environment and may send anything, at any time.

`HostTiming` adds two clocks. Time passes freely; a session during which time passed although a
poll was due is marked `stalled` (its host was not scheduled), and the bounds are claimed of the others.

Left out: metrics, packet log, wording of errors, the fields of `DeviceInfo` other than whether the
firmware reported itself and can take control requests.

### BridgeEngine and ActiveSession

A method of the engine maps its fields and what the output holds to the set of outcomes. `Sends` abstracts
the output to what `HostConnection` shows of it: a send that reports success is held, one that fails may
have been taken over all the same. A report is the state it maps to, `Malformed`, or `Status` (a report
without a state). `ActiveSession` runs the stages of `run_active` in their order and lets the HID
worker publish between them, replacing or dropping reports as the worker's mailbox does.
Time is counted in iterations that took a full interval.

### DesktopMailbox, DesktopWorker, BindingsEngine

Each critical section of the mailbox is an action. `owed` is a ghost: what a worker must still
be told, where a run of snapshots with equal buttons and touches counts as its first and its newest.
`DesktopWorker` puts the worker's steps beside the supervisor's calls, so an overflow can come between
the generation check, the key press, the staging of feedback and the check afterwards.
One bound button stands for a profile's controls there. `BindingsEngine` is the engine in full but for
the geometry (and a pad that is not touched has low pressure): a sample carries what the geometry makes of it (the region, whether the finger is still, rests,
travels or jumps). Bounds: overflows (`MaxGeneration`), barriers (`MaxEpoch`),
acknowledgement channels (`Acks`, each used once), calls before a sink fails (`MaxCalls`).

Assumed of the sinks, from the contract of `desktop-input`: a call returns, and dropping a sink
releases what it held.

### Supervisor

A command is taken one at a time; `phase` is where the thread is. `output` is the open output wherever
it is held (the idle loop, discovery, the session), `controllers` whether any HID session is open.
`parked` is a ghost: the owners (user, sleep, update) who were told that hardware is released and have not
asked to reopen it. Time, backoffs and cooldowns are left out: each wait may end at any iteration.
A session is a phase with the exits that `ActiveSession` details. Commands that only change a setting are
`Configure`. `Requests` bounds the commands that wait at a time; a caller that gave up is one whose
answer nobody reads, and stays in the model.

### Haptics, HidWorker, FeedbackRelay

`Haptics` gives each operation of the two supervisors as the set of its outcomes, since a HID write may fail.
`HidWorker` goes through the thread's loop in four stages (`ControlStep` and `PowerStep`,
`ServiceStep`, the polls, `SendStep`, which spins while the event channel is full) beside a consumer that powers
off, times out, stops and joins, and a controller that leaves and returns. `FeedbackRelay` follows one level
from the game to the motor, for outputs that report a level once and for those that repeat it; it counts
rounds in which both loops run at least once.

### AutomaticShutdown, ControllerDiscovery, VirtualHid

`AutomaticShutdown` has the supervisor's part, which outlives sessions, and the session's tracker, which does not; its
ghost `seen` counts the power-offs of a placement, the time the controller was seen neutral and the time
since the last attempt. `ControllerDiscovery` counts passes of `DISCOVERY_INTERVAL`; the HID library's buffer
is part of it because a lone controller is chosen only after the others' buffers are drained; `alone` is the ghost
that measures that wait. `VirtualHid` has the caller, the worker with its one request on its way, the two
pipes, the helper with its queue of responses and its lane for fatal errors, and the reader. A wait may run out at any time its answer
is not there. The driver above the device may send or ask for a report that is longer than the protocol carries
(`SetReportIsTooLong`, `DelegateEvent`), and a helper may die in the middle of a line; each makes the client latch a protocol violation against a
helper that did nothing wrong, and `HelperIsUnderstood` says that nothing else does.

### ReleaseCache, FirmwareUpdate, AppCenter

A refresh is cut at every file operation, and a process may be killed between any two. `FirmwareUpdate` asks the
desk questions whose answers may be outdated when they are used: the user taps reset, pulls cables and plugs in another board.
`AppCenter` follows requests with ids and their answers through the queues of window and parent, and the
commands from the parent to the bridge, which obeys in order but possibly after the parent stopped waiting.

### LizardCapture

A stamp and the offer that follows are two steps, so that a producer may be overtaken; the writer merges within the
reorder window. The window may cancel or leave at any time.

## 3. The runs

| Run | Question | Bounds | Distinct states |
|---|---|---|---|
| `firmware` | Is every held input watched, every safety report first, every control answer true and given? Does rumble stop when its source, its host or its quarantine says so? | two instances, each with a CDC queue of 1: one active report, 2 ids and 2 receipts, no rumble and no gaps; 2 intensities, lease and quarantine of 2, refresh 1, sequence numbers mod 2, no control requests | 117 000 |
| `output` | Does the newest state reach the wire, in time, and does a request get its own answer? | 2 active states of which the wheel hides one, mailbox of 2, timeouts of 1 to 3 ticks, one message a poll, 2 ids, 4 byte values, payloads of at most 2 bytes | 1 245 000 |
| `desktop` | Is a key or feedback ever used on the word of the past, and what does the engine hold? | 3 profiles of which 2 bind, snapshots 1, controls 2, one overflow, one barrier and one acknowledgement; one profile with two acknowledgements; a pad and a button with 2 shared outputs | 724 000 |
| `session` | Is closed closed and everybody answered? Does rumble arrive, is a power-off earned, a controller found, the helper's protocol kept? | 2 outputs, 2 waiting commands; 2 intensities; 3 sources; 2 controllers, buffer 4, scan 2 to 4; queues of 2, 1 and 1, 3 requests, 2 events, 1 report too long | 574 000 |
| `threads` | What do two threads do to what they share? | event channel of 1, mailbox of 2, one rumble; 2 masks, capacities 2, one acknowledgement; 3 USB reports | 697 000 |
| `applications` | Does an update end as it says, and is a page, a catalog, a capture what it claims? | 2 processes and 3 releases; 2 windows, 2 jobs; 2 boards, 2 touches; 3 receipts, 4 words; 1 trial, queue of 2, no reordering | 589 000 |
| `firmware_loop_rearm` (violated) | Is the OUT endpoint always served? | 3 reports | |
| `firmware_loop_dfu` (violated) | Is the bootloader entered only with the answer sent and nothing active? | 3 reports | |
| `active_session_restore` (violated) | Is the state restored after desktop work? | as `output` | |
| `supervisor_output_order` (violated) | Does the newest output change win? | as `session` | |
| `hid_worker_power_off` (violated) | Does gameplay continue after a failed power-off? | as `threads` | |
| `app_center_owner` (violated) | Does every suspension have an owner? | one window | |

Why these bounds are enough to meet the cases:

* Queues are of the depth at which they are empty, full, and (where order matters) one in between. A CDC
  queue of one is full after a single frame, so every reply of `firmware` meets a full queue. An event channel
  of one makes the HID worker spin on its second event.
* Timers are as long as it takes to be due alone or together. The order of limits that the code relies on
  (refresh before lease, input timeout before slot timeout, ping before pong, renewal before lease) is kept.
* `firmware` cuts the session in two, and the theorems do not: they hold for every set of reports, rumbles, ids and receipts, every
  modulus and every depth at once. The instance with the pads has sequence numbers mod 1, so no gap occurs in it: gaps only call
  `force_neutral` and `force_rumble_zero`, which every handler around them calls too. They occur in the instance with the motors.
* Two ids and two receipts are a request and another one; a third adds no relation between requests.
* The part `requests` of `output` leaves out the clocks and the calls that send states: they neither read nor write
  an answer. Its part `states` leaves out the answers to requests nobody made.
* The worker of `desktop` needs one overflow and one barrier at any point for each hazard; profile changes that
  replace each other in the mailbox need three profiles, of which one has no binding. Two callers that wait at a time, one of them
  superseded, taken or still queued when the worker closes or panics, are a part of their own, `callers`, with a
  single profile and a button that is down. With one barrier no overflow or disconnect with an acknowledgement follows a
  switch in the run; `SwitchesPressNothing` is proved for any number of them.
* Some cases are outside of a run and inside of its theorem: a reorder window and more than one trial of the capture
  (`ValidCaptureIsComplete`), more than one acknowledgement in the mailbox of `threads` (`MailboxLosesNothing`).
* `applications` says that an installation `written` wrote its board only of desks where one board was ever connected: a mounted drive is not matched
  with the board that was identified, so with two boards nothing ties them together.
* Two boards, two windows and two processes are what can be confused with one another; the theorems about them
  hold for any number.
* The two active states of a bridge connection are interchangeable, and so are request ids: `output` uses that
  symmetry, and checks no liveness.
* `CHECK_DEADLOCK FALSE` appears where a program ends or a bounded environment runs out.

Every property of a passing run has a mutated definition beside the code's (marked `Fault:` in the modules, with
the plausible bug it stands for), under which TLC finds that property violated.

### Fairness

* `FirmwareSession` (`FairSpec`): the loop runs for ever, so `Tick` and `Advance` are weakly fair. A
  mounted endpoint is polled by its host and an open port is read (`MarkHidReportSent`, `ServiceCdcTx`).
  `SF(TickWithRoom)`: the loop serves the CDC queue between the decoder and the tick, so
  frames that ask for an answer cannot keep the queue full at every tick. (`MCFirmware` leaves out the weak fairness of `Tick`:
  it follows, since a port that is read makes room and a closed one has an empty queue.) `ExpiredRumbleIsStopped`
  is claimed of hosts that do not repeat their Hello for ever, `ControlRequestIsAnswered` of connections that
  stay up and hosts that wait.
* `DesktopWorker`: `WF(WorkerNext)`: a thread that only its sink can hold up; `Tick` and `Panic` are not fair.
* `Supervisor`: `WF(Loop)`: the thread runs and what it waits for is bounded. `RequestsAreAnswered`
  is claimed once callers pause: the idle dispatcher drains its channel before it acts, so callers that never pause
  keep a stop from being answered.
* `HidWorker`: the thread and the joining consumer run, a power-off wait runs out, and time passes
  (`SF(Tick)`: an event wait sleeps again and again, so a tick is possible infinitely often). The consumer's other calls are not fair.
* `VirtualHid`: worker and helper threads run unless they hang (a hung helper is a state in which none of
  its steps is enabled), and every wait of the caller is bounded.
* `AppCenter`: the window's worker, the parent's event loop and the runtime that obeys run; the user and the
  window's death are not fair.
* `LizardCapture`: producers, guide and writer run; the user is not fair.

The theorems are about the specifications without fairness, or do not use it.

### What TLC found

Six runs state what the repository says of the code and find it violated; `PROJECT.json` quotes the lines.

* `firmware_loop_rearm`, `OutEndpointIsServed`. `service_out_endpoint` starts a transfer and clears the flag that asks
  for one afterwards. A report that arrives in between sets the flag, and the loop clears it: rumble over the interrupt endpoint
  is dead until the device is configured again.
* `firmware_loop_dfu`, `DfuIsEarned`. `docs/FIRMWARE_ARCHITECTURE.md:32` promises that the bootloader is entered only after correlated control,
  neutral input and a drained queue. A host that drops DTR after the answer was queued empties the queue unread and resets the session; the
  transition stays latched, takes the empty queue for a drained one and leaves after the grace period with nobody answered.
  A host that opens the port again in between, negotiates and sends a state may be left with it active.
* `active_session_restore`, `RestoreIsNotSkipped`. `supervisor/controller/session.rs:214` says the next report restores the state after
  desktop work. If the neutral fails after the output took it over, the engine still
  believes the old state was sent and skips the unchanged report; the game stays at neutral until the controls move.
  `GameSeesTheController` shows that a reset that failed is the only way to get there.
* `supervisor_output_order`, `NewestOutputWins`. Two output changes drained together, the second back to
  the configured output: the second is acknowledged as a no-op and then the first is applied. The menu app keeps
  one change pending and does not meet it.
* `hid_worker_power_off`, `GameplayContinues`. A power-off whose caller timed out stays in the worker's channel. The
  session reports that gameplay continues, and the worker turns the controller off on its next round.
* `app_center_owner`, `SuspensionIsOwned`. A suspension that the parent stopped waiting for is carried out later; if its
  window has died, nobody owns it and no recovery runs.

### Observations

Behaviour met while modelling that no run states, because no document claims otherwise or because the part is not modelled:

* Desktop status: the supervisor clones the bindings' status and writes it back in a second critical section
  (`active_session.rs:387`), over what the worker published in between, although `docs/DESKTOP_BINDINGS.md:280` describes it as
  the worker's.
* `docs/BRIDGE.md:150` says that the cooldown after a power-off ignores trailing reports. A probe pass reads a session only up to its
  first controller state and the wait for the cooldown keeps the candidate (`steam-controller-discovery/src/lib.rs:300`,
  `supervisor/discovery.rs:257`, `363`), so reports buffered before the power-off outlast the 2.5 seconds and can
  select the controller again (`TrailingReportsAreIgnored` in `ControllerDiscovery`, stated and not checked).
* `NavigationUnlocks` in `AppCenter`, stated and not checked: a frame drains the worker's channel and then asks whether the thread
  has finished. A worker that announces the write and ends between the two is joined with the announcement undrained; the next
  frame drains it and locks navigation with no worker left to unlock it (`app_center.rs:997`, `1009`). The window is
  a few instructions wide; TLC finds it in 24 steps.
* Supervisor: the first-observed receipt retries with the id of the attempt before. A Stop and a Start drained together leave
  the Stop unanswered until the next stop; a second `SetOutput` of a drain drops the acknowledgement of the first. The
  acknowledgement of a stop precedes the published `Stopped`.
* Desktop worker: a timed-out Disconnect stays queued and can occupy the reserved control slot, so that Shutdown is refused.
* Haptics: a zero that fails when nothing is wanted is not retried. After a lost read, if lizard suppression fails on the
  reconnection, no zero is written.
* Automatic shutdown: a charging report and activity in the same iteration after a failed attempt mark the placement
  handled and still power off.
* Linux firmware installation does not treat a rejected erase as it treats a rejected upload. A mounted drive is not matched with
  the board that was identified. The removal of obsolete caches runs in a thread of its own beside a staging.
* Two late answers can block the App Center's reader, whose channel holds one.
* Lab: Enter and R in one frame accept and discard the same trial; a delayed preview of the first attempt can show in
  the review of the second; a trailer that cannot be written leaves a file without `valid`.
* Bindings: a pad that is clicked but untouched at the baseline stays held with a parked filter (`desk.early` marks it, and
  `HeldIsOwed` excludes it).
* Firmware loop: a rumble report that arrives between copy and clear is torn or lost.
* Virtual gamepad (macOS): a driver that asks for a report longer than 4,096 bytes, or sends one, ends the gamepad as a protocol violation
  although client and helper are both correct: the helper forwards the length it is asked for unchecked and the client refuses it
  (`macos.rs:432`, `client.rs:843`), and an oversized report is a fatal error (`macos.rs:397`).

## 4. The proofs

A theorem holds for every value of the constants that satisfies the named assumptions of its module
(`ReportAssumption`, `BoundAssumption`, `HapticsAssumption`, ...): limits are positive and in the order the code has them, empty
slots are not values, the neutral report is a report. TLC evaluates them in each run. The bounds
that keep TLC's instances finite (`MaxJobs`, `MaxGeneration`, `MaxEvents`, ...) are constants as well, so they
are no restriction of a theorem.

None of the properties is inductive as it stands. Each proof module states the invariant that is, shows that the initial states
have it, that every action keeps it (one lemma per action or operator), and takes the property from it.

| Module | Invariant | What it adds | Theorems |
|---|---|---|---|
| `FirmwareSession_proofs` | `IInv` = types, `HidInv`, `RumbleInv`, timers, one request | the shape of each queue: only a safety report defers; the report the queue *drains into* is watched; what is on its way is leased and out of quarantine | `TypeCorrect`, `InputSafe`, `RumbleSafe` and their parts; `NeutralComesFirst`, `ZeroComesFirst` |
| | `ControlInv` | what the CDC queue still holds is true of the request and of the page until it is read | `ControlSafe` |
| `HostConnection_proofs` | `HostInv` | between calls an open session has nothing queued and refreshes what the engine asked for last (`Delivered`); its refresh and ping clocks are no younger than what they measure (`Refreshed`, `Unanswered`); an answer that waits in it was read after its request (`Known`) | `HostInvariant`, `NewestPlays`, `DeadlinesHold`, `SuccessIsAnswered` |
| `Output_proofs` | `SessionInv` | what the engine believes it sent is held unless a reset failed (`SentIsHeld`); its timer runs with the silence (`TimerIsSilence`) | `GameSees`, `NothingStays` |
| | `FramingInv` | the device's buffer is settled: aligned to a magic, and waiting for more | `LinkIsSafe`, `FramingHolds` |
| `Desktop_proofs` | `DesktopInv` | feedback's epoch is the mailbox's; a key that is down between press and check is of a generation in between; a running engine has seen the last snapshot; the call that is waited for is last in the queues | `FeedbackStaysFresh`, `HeldStaysCurrent`, `AckMeansReleased`, `SwitchesPressNothing` |
| | `MailboxInv` | `NothingOwedIsLost` is inductive beside the types; its weight is in how `OnlyControls`, `OwedFor` and the counts of a queue follow an append, a replaced last element, an overflow and a removed head | `MailboxLosesNothing`, `WorkerIsToldWhatIsOwed` |
| | `Sound` | an output is counted once for each place that holds it down (`Books`); a button that holds a chord is down, is not blocked, and the chord is the installed profile's (`HeldIn`); what filter, guard and anchor of a pad say of its press and its regions (`PadsSafe`); each latch has the chord of its region in the installed profile (`LatchesOwned`); before a baseline nothing is held and no region entered | `EngineHoldsWhatIsOwed` |
| `Threads_proofs` | `LoopInv` | what a transition to the bootloader has behind it at each stage, for a host that keeps its port open | `DfuEarned` |
| | `HidInv` | a running motor is wanted and leased unless degraded or lost; a worker that would take input has suppressed lizard mode; one that accepts commands has a connected supervisor | `MotorStaysLeased`, `InputStaysSuppressed` |
| | `RelayInv` | what the worker wants was offered within a renewal, or its lease has run out | `RumbleReaches` |
| `Runtime_proofs` | `ShutdownInv` | a handled placement is remembered; what the retry timer still counts has not passed since the attempt; the idle timer is not ahead of the time seen neutral | `PowerOffsAreEarned` |
| | `DiscoveryInv` | a lone controller is a candidate by the next scan, and the others' buffers drain one report a pass | `LoneFound` |
| | `KeptInv` | a violation has a report too long or a torn line behind it (`Blamed`); one request is unserved, or served with one answer on its way (`InStep`, `Line`); what is waited for is alone in the queue (`Called`); nothing pressed follows an acknowledged neutral (`Quiet`) | `ProtocolKept` |
| | `IInv` | who was told wants it closed (`Told`), what is open is selected (`Opened`), the phases that open run only when nobody objects (`Phased`), a waiting change was accepted while no updater owned the hardware (`Changing`) | `OwnersObeyed`, `ParkedClosed`, `MonitorNeeded` |
| `Applications_proofs` | `ReceiptInv` | at most one valid slot; a write in progress goes to a slot with exactly the words before its next one | `AcknowledgedStays`, `SpoiledSlotsStay`, `Refinement` |
| | `CacheInv` | a refresh past the lock holds it, and what it compares is signed and still in the file | `CatalogForward` |
| | `FlashInv` | each step of an installation against the boards it has seen | `ReportTrue` |
| | `CenterInv` | one suspension, by its id, through the queues: asked, served, answered; no older answer carries the id | `FlashUndisturbed` |
| | `CaptureInvariant` | unless the capture is invalid, every event and every accepted trial's marker is still to be offered, queued, in the writer's buffer or in the file (`Accounted`); the buffer goes on, in order, where the file ends (`BufferIsSorted`); the file is closed behind its producers (`ClosesLast`) | `CaptureIsAccountedFor`, `ValidCaptureIsComplete` |

**Operators first.** The proofs rest on lemmas about the model's operators: what `queue_hid`, `force_neutral`,
`due_rumble` do to a queue, what each outcome of a `Haptics` operation is, how the engine's methods end (neutral, refused as it stood, or
unmoved), what `push_snapshot`, `push_control` and `reset_snapshots_for_overflow` do to the mailbox's counts. The lemma for an action then says only which of
them it calls.

**Sessions at work.** A call of the bridge output computes the set of its outcomes, so `HostConnection_proofs` says of sets what the
other modules say of steps: `Kept(x)`, the sessions that failed or are good in the context `x` the call began in, is mapped into itself by
each step of a poll, and two attempts end in `Done(x)`, open with nothing left to do or closed. A batch of messages is a recursive function
of its length. The library's induction takes an operator, which no backend here can instantiate, but an induction over a *set* of numbers
needs none: `SetInduction` follows from the least element of its complement, and `BatchKeeps` applies it to the lengths for which a batch stays in `Kept(x)`.

**Sequences.** Where the code goes through a queue (what is still owed in the mailbox, what the writer of a capture takes in), the model
uses a recursive function of the number of elements passed. `RecursionTheorems` shows once that such a
function exists (`RecursionExists`), is determined by its steps (`RecursionAgrees`), and that what the empty sequence has and every `Append` keeps all
sequences have (`SequenceSetInduction`); each proof module instantiates them with a set, never with an operator.

**A loop over bytes.** The decoder's loop shortens its buffer by at least a byte in each round, so the recursive function that models it exists
(`DescentExists`, by induction over the length of the buffer) and is unfolded by `ProcessIs`. Two facts carry the proof. More bytes behind a buffer
change neither where its first magic is nor the verdict on a candidate that is complete (`AlignsAgain`, `CandidateOfLonger`); hence processing in pieces
and at once agree (`ProcessSplits`), which is why a host that takes whole reads and a device that takes single bytes hear the same. And the
loop cannot step over the beginning of a whole frame unseen (`RoundBefore`): a round that starts before it stops at its magic at the latest, has bytes enough
to decide, and drops one byte, or a candidate that ends before the frame, or one with a correct checksum that covers it; the induction is over the distance
to the frame (`HeardFromTheStart`). The theorem needs as many bytes behind the frame as a frame may have: a damaged length can make the decoder wait for those.

**A sink that fails.** A call of the bindings engine is one step of the model, but it presses and lets go of output by output and the
sink may fail at any of them, so inside a call `HeldIsOwed` does not hold. The lemmas about `press`, `release`
and whole chords say instead how the books move (`Fine`, `More`, `Less`): as long as nothing failed, each output of the chord is counted once
more or once less than before, and is down if it is counted. A chord names an output once, which is what the assumption on profiles is
for. A pass over the controls or the pads keeps this by induction over its length (`StepsKeep`), and the
first failure ends it: what follows is `release_all`, which needs to know of an output that is down only that it has an entry or is stuck
(`IsKnown`).

**Action properties.** `NeutralComesFirst` and `ZeroComesFirst` come from one relation between the queue before and
after a step (`NeutralStep`, `ZeroStep`) that every method satisfies. `MotorStaysLeased`,
`ControlSafe`, `PowerOffsAreEarned` and `CatalogForward` are steps from the invariant.

**Refinement.** Every step of `InstallReceipt` is a step of `ReceiptPage` or a stutter; the step that programs the commit
word is `Record`.

### What is only model-checked, and why

* `ExpiredInputIsReleased`, `ExpiredRumbleIsStopped`, `ControlRequestIsAnswered`, `EveryCallIsAnswered`, `RequestsAreAnswered`,
  `FailureReleasesDevice`, `NoMutualWait`, `SuspensionEnds`, `CancelEnds`: liveness under fairness, outside the prover. For the first two
  the safety half is proved: an active report has a running watchdog (`InputWatched`), a running motor a lease (`RumbleLeased`), and
  each armed timer is examined by every tick (`TimersServiced`).

Nothing else is: every safety invariant and every action property that a run checks is a theorem.

## 5. Not modelled

`PROJECT.json` gives the reason for each part. In short: platform I/O, drawing, wording, file formats and build
scripts have no interleaving to check. Within modelled parts: transmit counters and metrics,
published status, backoff and cooldown durations of the supervisor, the geometry and speeds of pads,
the mapping from reports to states, the order of versions (one total order of releases stands for app versions and
firmware revisions), lizard settings other than `LizardMode::Suppress`, the unpacking of application bundles, signatures and hashes (they verify or not), and in
`LizardCapture` the terminal guide and the preview.

## 6. Plan

Done: the modules of section 2 with their runs, and the proofs of section 4.

Open, most important first:

1. `BridgeLink`: `HostConnection`, two channels and `FirmwareSession` composed, with an abstract specification of the link
   (the endpoint holds the newest state or neutral) as what it implements.
2. `ProfilePicker` (hold, open, latch and the profile wheel's stale drain), the choice of a bridge endpoint, and the mapper's filters
   as operators against reference definitions.
3. That `FirmwareLoop` implements the connection edges of `FirmwareSession`.
