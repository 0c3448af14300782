---------------------------- MODULE FirmwareLoop ----------------------------
(***************************************************************************)
(* The firmware's main loop (xiao-nrf52840.ino) and the task of the USB    *)
(* stack, which runs the callbacks of the XInput driver at a higher        *)
(* priority between any two instructions of the loop.  The loop is cut     *)
(* where it reads or writes what the callbacks share with it; the session  *)
(* it drives is reduced to what the transition to the UF2 bootloader asks  *)
(* of it (FirmwareSession has the rest).                                   *)
(***************************************************************************)
EXTENDS Integers, Sequences

CONSTANTS
  NoReport,    \* no report
  Odd,         \* a report that is not eight bytes long
  DrainDelay,  \* kUf2DrainDelayMs
  MaxReports   \* bound: reports of one behaviour

ASSUME LoopAssumption == DrainDelay \in Nat

VARIABLES
  xinput,   \* xinput_usb::state, and whether a transfer waits on the OUT endpoint
  loop,     \* the step the loop is at, its copy of a report, what it saw of USB
  bridge,   \* the session and the CDC queue, and the host's side of the port
  uf2_loop  \* uf2_transition_started, uf2_queue_drained, the time since then; ghost:
            \* the port was closed or opened since the transition started

loopVars == <<xinput, loop, bridge, uf2_loop>>

DriverInit ==
  [opened |-> FALSE, out_needs_arm |-> FALSE, busy |-> FALSE, pending |-> NoReport,
   sent |-> 0]
Torn == <<NoReport, NoReport>>
NoSession == [requested |-> FALSE, ready |-> FALSE, active |-> FALSE, negotiated |-> FALSE]

LoopInit ==
  /\ xinput = DriverInit
  /\ loop = [at |-> "connection", copy |-> Torn, mounted |-> FALSE, dtr |-> FALSE]
  /\ bridge = [session |-> NoSession, queue |-> <<>>, answered |-> FALSE,
               mounted |-> FALSE, dtr |-> FALSE]
  /\ uf2_loop = [started |-> FALSE, drained |-> FALSE, since |-> 0, left |-> FALSE,
                 lost |-> FALSE]

-----------------------------------------------------------------------------
(* The USB task.                                                           *)

\* stage_output: the newest report replaces the one the loop has not taken.
stage_output(x, report) == [x EXCEPT !.pending = report]
Reports == {Odd, xinput.sent + 1}

\* driver_transfer: the transfer on the OUT endpoint is over.
driver_transfer ==
  /\ xinput.busy /\ xinput.sent < MaxReports
  /\ \/ \E report \in Reports :
          xinput' = [stage_output(xinput, report) EXCEPT
                       !.busy = FALSE, !.out_needs_arm = TRUE, !.sent = @ + 1]
     \/ xinput' = [xinput EXCEPT !.busy = FALSE, !.out_needs_arm = TRUE, !.sent = @ + 1]
  /\ UNCHANGED <<loop, bridge, uf2_loop>>

\* driver_control: SET_REPORT, always of eight bytes.
driver_control ==
  /\ xinput.opened /\ xinput.sent < MaxReports
  /\ xinput' = [stage_output(xinput, xinput.sent + 1) EXCEPT !.sent = @ + 1]
  /\ UNCHANGED <<loop, bridge, uf2_loop>>

\* driver_open, when the host configures the device.
driver_open ==
  /\ ~bridge.mounted
  /\ xinput' = [xinput EXCEPT !.opened = TRUE, !.out_needs_arm = TRUE]
  /\ bridge' = [bridge EXCEPT !.mounted = TRUE]
  /\ UNCHANGED <<loop, uf2_loop>>

\* driver_reset, when the bus is reset or the cable is pulled.
driver_reset ==
  /\ bridge.mounted /\ xinput.sent < MaxReports
  /\ xinput' = [DriverInit EXCEPT !.sent = xinput.sent + 1]
  /\ bridge' = [bridge EXCEPT !.mounted = FALSE, !.dtr = FALSE]
  /\ UNCHANGED <<loop, uf2_loop>>

\* The host opens or closes the port.
HostOpensPort ==
  /\ bridge.mounted /\ ~bridge.dtr /\ bridge' = [bridge EXCEPT !.dtr = TRUE]
  /\ UNCHANGED <<xinput, loop, uf2_loop>>
HostClosesPort ==
  /\ bridge.dtr /\ bridge' = [bridge EXCEPT !.dtr = FALSE]
  /\ UNCHANGED <<xinput, loop, uf2_loop>>

UsbTask ==
  \/ HostOpensPort \/ HostClosesPort
  \/ driver_transfer \/ driver_control \/ driver_open \/ driver_reset

-----------------------------------------------------------------------------
(* loop().                                                                 *)

Proceed(step) == loop' = [loop EXCEPT !.at = step]

\* service_connection: what becomes of USB or of the port since the last time.
discard_pending_output(x) == [x EXCEPT !.pending = NoReport]
service_connection ==
  LET mounted == bridge.mounted
      dtr == mounted /\ bridge.dtr
      gone == (~mounted /\ loop.mounted) \/ (~dtr /\ loop.dtr)
      came == dtr /\ ~loop.dtr
  IN  /\ loop.at = "connection"
      /\ loop' = [loop EXCEPT !.at = "cdc", !.mounted = mounted, !.dtr = dtr]
      /\ xinput' = IF gone \/ came THEN discard_pending_output(xinput) ELSE xinput
      /\ bridge' = IF gone \/ came THEN [bridge EXCEPT !.session = NoSession, !.queue = <<>>]
                   ELSE bridge
      /\ uf2_loop' = IF uf2_loop.started /\ (gone \/ came) THEN [uf2_loop EXCEPT !.lost = TRUE]
                     ELSE uf2_loop

\* service_cdc: bytes the host has sent, as the session hears them, and one
\* frame to the port.  A state is accepted until a control request is.
Hear(s) ==
  {s} \cup {[s EXCEPT !.negotiated = TRUE]}
    \cup (IF s.negotiated /\ ~s.requested THEN {[s EXCEPT !.active = TRUE], [s EXCEPT !.active = FALSE]} ELSE {})
    \cup (IF s.negotiated THEN {[s EXCEPT !.requested = TRUE, !.active = FALSE]} ELSE {})
service_cdc ==
  /\ loop.at = "cdc" /\ Proceed("tick")
  /\ \E s \in IF loop.dtr THEN Hear(bridge.session) ELSE {bridge.session}, room \in BOOLEAN :
       bridge' = IF loop.dtr /\ bridge.dtr /\ room /\ bridge.queue # <<>>
                 THEN [bridge EXCEPT !.session = s, !.queue = Tail(@),
                                     !.answered = TRUE]
                 ELSE [bridge EXCEPT !.session = s]
  /\ UNCHANGED <<xinput, uf2_loop>>

\* session.tick: the answer to a request that waits for a device at rest.
tick ==
  /\ loop.at = "tick" /\ Proceed("take")
  /\ \E rest \in BOOLEAN :
       bridge' = IF bridge.session.requested /\ ~bridge.session.ready /\ rest
                 THEN [bridge EXCEPT !.session.ready = TRUE, !.queue = Append(@, "Ready")]
                 ELSE bridge
  /\ UNCHANGED <<xinput, uf2_loop>>

\* take_output_report: the length first, then the bytes, then the flag.
take_output_report ==
  /\ UNCHANGED <<bridge, uf2_loop>>
  /\ \/ /\ loop.at = "take"
        /\ Proceed(IF xinput.pending = NoReport THEN "arm" ELSE IF xinput.pending = Odd THEN "clear" ELSE "low")
        /\ UNCHANGED xinput
     \/ /\ loop.at = "low" /\ loop' = [loop EXCEPT !.at = "high", !.copy[1] = xinput.pending]
        /\ UNCHANGED xinput
     \/ /\ loop.at = "high" /\ loop' = [loop EXCEPT !.at = "clear", !.copy[2] = xinput.pending]
        /\ UNCHANGED xinput
     \/ /\ loop.at = "clear" /\ loop' = [loop EXCEPT !.at = "arm", !.copy = Torn]
        /\ xinput' = discard_pending_output(xinput)

\* service_out_endpoint: the transfer is started, and then the flag is cleared.
service_out_endpoint ==
  /\ UNCHANGED <<bridge, uf2_loop>>
  /\ \/ /\ loop.at = "arm"
        /\ IF ~xinput.opened \/ ~xinput.out_needs_arm \/ xinput.busy
           THEN Proceed("send") /\ UNCHANGED xinput
           ELSE Proceed("armed") /\ xinput' = [xinput EXCEPT !.busy = TRUE]
     \/ /\ loop.at = "armed" /\ Proceed("send")
        /\ xinput' = [xinput EXCEPT !.out_needs_arm = FALSE]

\* Fault: the answer's way to USB is not waited for.
service_uf2_transition_without_drain ==
  /\ loop.at = "send" /\ Proceed("connection")
  /\ LET started == uf2_loop.started \/ bridge.session.ready
     IN  uf2_loop' = IF ~started THEN uf2_loop
                     ELSE IF uf2_loop.since < DrainDelay
                     THEN [uf2_loop EXCEPT !.started = TRUE, !.since = @ + 1]
                     ELSE [uf2_loop EXCEPT !.left = TRUE]
  /\ UNCHANGED <<xinput, bridge>>

service_uf2_transition ==
  /\ loop.at = "send" /\ Proceed("connection")
  /\ LET started == uf2_loop.started \/ bridge.session.ready
         u == [uf2_loop EXCEPT !.started = TRUE]
     IN  uf2_loop' = IF ~started THEN uf2_loop
                     ELSE IF ~u.drained
                     THEN IF bridge.queue = <<>> THEN [u EXCEPT !.drained = TRUE] ELSE u
                     ELSE IF u.since < DrainDelay THEN [u EXCEPT !.since = @ + 1]
                     ELSE [u EXCEPT !.left = TRUE]
  /\ UNCHANGED <<xinput, bridge>>

LoopStep ==
  /\ ~uf2_loop.left
  /\ \/ service_connection \/ service_cdc \/ tick \/ take_output_report
     \/ service_out_endpoint \/ service_uf2_transition

LoopNext == LoopStep \/ (~uf2_loop.left /\ UsbTask)
LoopSpec == LoopInit /\ [][LoopNext]_loopVars

-----------------------------------------------------------------------------
(* Properties.                                                             *)

\* The OUT endpoint of a configured device either waits for a report or is to
\* be armed by the loop: callbacks only "rearm work", and the loop does it.
OutEndpointIsServed ==
  (xinput.opened /\ loop.at # "armed") => (xinput.busy \/ xinput.out_needs_arm)

\* As FIRMWARE_ARCHITECTURE.md:32 has it, the device enters the bootloader only
\* with its controls released, its answer sent and the grace period over.
DfuIsEarned ==
  uf2_loop.left =>
    uf2_loop.since = DrainDelay /\ bridge.answered /\ ~bridge.session.active

\* It does so for a host that kept the port open since the transition started,
\* which is still the one that asked for it; the grace period passes for all.
HeldPortEarnsDfu ==
  uf2_loop.left =>
    /\ uf2_loop.since = DrainDelay
    /\ ~uf2_loop.lost => bridge.answered /\ bridge.session.ready /\ ~bridge.session.active
=============================================================================
