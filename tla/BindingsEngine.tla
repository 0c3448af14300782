--------------------------- MODULE BindingsEngine ---------------------------
(***************************************************************************)
(* The engine of the desktop bindings (app/desktop-bindings/src/engine.rs):*)
(* buttons hold chords down, a pad moves the pointer or scrolls, and its   *)
(* regions hold chords down while they are touched or clicked.  Outputs    *)
(* shared by several chords are counted.  Any call of the sink may fail,   *)
(* and then everything is let go of and what is held stays blocked.        *)
(*                                                                         *)
(* A sample carries what the geometry makes of it: the region it lies in,  *)
(* whether the finger is still, rests until every window and guard is over,*)
(* travels out of every dead zone, or jumps.  Speeds, fractions of pixels  *)
(* and feedback ticks are left out.                                        *)
(***************************************************************************)
EXTENDS Integers, Sequences, SequencesExt, FiniteSets

CONSTANTS
  Controls,   \* BindableControl::ALL, a sequence
  Sides,      \* PadSide::ALL, a sequence
  Outputs,    \* OutputKeys and MouseButtons
  Regions,    \* the regions of a pad
  NoAction,   \* no region, no action, no baseline
  Layouts,    \* profiles: [bindings, pads], actions are sequences of outputs
  MaxCalls    \* bound: a sink that fails does so after so many calls of an operation

ControlSet == ToSet(Controls)
SideSet == ToSet(Sides)
Triggers == {"click", "touch"}
Keep == "keep"  \* no event for a trigger

\* A chord is some of Modifier::ALL and a key, no two of them alike.
IsAction(action) ==
  action # NoAction => action \in Seq(Outputs) /\ IsInjective(action) /\ action # Keep

ASSUME BindingsAssumption ==
  /\ Controls \in Seq(ControlSet) /\ IsInjective(Controls) /\ Sides \in Seq(SideSet)
  /\ NoAction # Keep /\ \A mask \in SUBSET ControlSet : mask # NoAction
  /\ \A l \in Layouts :
       /\ \A c \in ControlSet : IsAction(l.bindings[c])
       /\ \A s \in SideSet, region \in Regions :
            IsAction(l.pads[s].click[region]) /\ IsAction(l.pads[s].touch[region])

VARIABLES
  engine,  \* BindingEngine
  desk     \* what the desktop holds down, what a failed release left there, and
           \* (ghost) the pads that were clicked before the baseline, untouched

engineVars == <<engine, desk>>

Missing == -1   \* no entry in key_counts or mouse_counts
Pressures == {"low", "hold", "high"}  \* below EXIT, between, above ENTER
PadSamples ==
  [touched : {FALSE}, pressed : BOOLEAN, pressure : {"low"}, region : {NoAction},
   motion : {"still", "rest"}]
    \cup [touched : {TRUE}, pressed : BOOLEAN, pressure : Pressures,
          region : Regions \cup {NoAction}, motion : {"still", "rest", "travel", "jump"}]

NewPad ==
  [touched |-> FALSE, blocked |-> FALSE, held |-> FALSE, clicked |-> FALSE,
   pressure_blocked |-> FALSE, guard |-> FALSE, filter |-> "Parked", placed |-> FALSE,
   momentum |-> "none", press_anchor |-> [set |-> FALSE, region |-> NoAction],
   click_region |-> NoAction, touch_region |-> NoAction]
NoLatch == [t \in Triggers |-> NoAction]

EngineInit ==
  /\ \E l \in Layouts :
       engine = [profile |-> l, previous |-> NoAction, blocked |-> {},
                 active |-> [c \in ControlSet |-> NoAction],
                 counts |-> [o \in Outputs |-> Missing],
                 pads |-> [s \in SideSet |-> NewPad],
                 latches |-> [s \in SideSet |-> NoLatch]]
  /\ desk = [down |-> {}, stuck |-> {}, early |-> {}]

-----------------------------------------------------------------------------
(* The sink.  A run of an operation is [e, down, stuck, left, failed]: left*)
(* calls will work, the next one fails and ends the operation ("?"); dead  *)
(* says whether those of the clean-up fail as well.  A press that failed   *)
(* may have been carried out, a release that failed was not.               *)

Start(left, dead) ==
  [e |-> engine, down |-> desk.down, stuck |-> desk.stuck, left |-> left, dead |-> dead,
   failed |-> FALSE]

Enough == 100   \* more calls than an operation makes: the sink does not fail
Works(r) == r.left > 0
SinkCall(r) == IF Works(r) THEN [r EXCEPT !.left = @ - 1] ELSE [r EXCEPT !.failed = TRUE]

Pressed(r, o) == [SinkCall(r) EXCEPT !.down = @ \cup {o}, !.stuck = @ \ {o}]
Released(r, o) == [SinkCall(r) EXCEPT !.down = IF Works(r) THEN @ \ {o} ELSE @]

\* press_key, press_mouse
press(r, o) ==
  IF r.failed THEN r
  ELSE LET n == r.e.counts[o]
           r1 == IF n <= 0 THEN Pressed(r, o) ELSE r
       IN  [r1 EXCEPT !.e.counts[o] = IF r1.failed THEN 0 ELSE (IF n = Missing THEN 1 ELSE n + 1)]

\* release_key, release_mouse: an output whose release failed keeps its entry.
release(r, o) ==
  IF r.failed \/ r.e.counts[o] = Missing THEN r
  ELSE LET n == r.e.counts[o] - 1
           r1 == IF n = 0 THEN Released(r, o) ELSE r
       IN  [r1 EXCEPT !.e.counts[o] = IF n = 0 /\ ~r1.failed THEN Missing ELSE n]

press_action(r, action) ==
  LET run[n \in 0 .. Len(action)] == IF n = 0 THEN r ELSE press(run[n - 1], action[n])
  IN  run[Len(action)]
release_action(r, action) ==
  LET run[n \in 0 .. Len(action)] ==
        IF n = 0 THEN r ELSE release(run[n - 1], action[Len(action) + 1 - n])
  IN  run[Len(action)]

\* Fault: the owners survive what they owned.
release_all_keeps_latches(r) ==
  LET entries == {o \in Outputs : r.e.counts[o] # Missing}
  IN [r EXCEPT !.e.counts = [o \in Outputs |-> Missing],
               !.e.active = [c \in ControlSet |-> NoAction],
               !.down = IF r.dead THEN @ ELSE @ \ entries,
               !.stuck = IF r.dead THEN @ \cup (entries \cap r.down) ELSE @]

release_all(r) ==
  LET entries == {o \in Outputs : r.e.counts[o] # Missing}
  IN [r EXCEPT !.e.counts = [o \in Outputs |-> Missing],
               !.e.active = [c \in ControlSet |-> NoAction],
               !.e.latches = [s \in SideSet |-> NoLatch],
               !.down = IF r.dead THEN @ ELSE @ \ entries,
               !.stuck = IF r.dead THEN @ \cup (entries \cap r.down) ELSE @]

-----------------------------------------------------------------------------
(* A pad.                                                                  *)

reset_motion_tracking(p) == [p EXCEPT !.filter = "Parked", !.placed = FALSE]
reset_motion(p) == [reset_motion_tracking(p) EXCEPT !.momentum = "none"]
clear_regions(p) ==
  [p EXCEPT !.press_anchor = [set |-> FALSE, region |-> NoAction],
            !.click_region = NoAction, !.touch_region = NoAction]
block_if_touched(p) == clear_regions(reset_motion([p EXCEPT !.blocked = p.touched]))

rebaseline_placement(p) ==
  [reset_motion(p) EXCEPT !.filter = IF p.held THEN "PressHeld" ELSE @, !.placed = TRUE]

effectively_pressed(held, pressure_blocked, sample) ==
  \/ sample.pressed
  \/ ~pressure_blocked /\ (sample.pressure = "high" \/ (held /\ sample.pressure = "hold"))

baseline_pad(p, sample) ==
  clear_regions(reset_motion(
    [p EXCEPT !.touched = sample.touched, !.blocked = sample.touched,
              !.held = effectively_pressed(FALSE, FALSE, sample),
              !.clicked = sample.pressed, !.pressure_blocked = FALSE, !.guard = FALSE]))

\* The press latch of the sample, with the edge that made it.
apply_click_transitions(p, sample) ==
  LET freed == p.pressure_blocked /\ sample.pressure # "low"
      pressed == sample.pressed /\ ~p.clicked
      released == ~sample.pressed /\ p.clicked
      held == IF pressed THEN TRUE
              ELSE ~released /\ effectively_pressed(p.held, freed, sample)
      edge == pressed \/ released \/ held # p.held
      q == [p EXCEPT !.clicked = sample.pressed, !.held = held,
                     !.pressure_blocked = IF pressed THEN FALSE ELSE freed \/ released]
      r == IF edge THEN [rebaseline_placement(q) EXCEPT !.guard = ~held] ELSE q
  IN  [r EXCEPT !.press_anchor =
                  IF ~held THEN [set |-> FALSE, region |-> NoAction]
                  ELSE IF @.set THEN @ ELSE [set |-> TRUE, region |-> sample.region],
                !.guard = @ /\ (edge \/ sample.motion \in {"still", "jump"})]

latch_for(actions, region) == IF region = NoAction THEN NoAction ELSE actions[region]

\* track_regions: the pad with its regions, and what each trigger shall hold.
track_regions(p, was, sample, config) ==
  LET pressed == sample.pressed /\ ~was.clicked
      released == ~sample.pressed /\ was.clicked
      crossed == ~p.held /\ ~p.guard /\ sample.region # p.touch_region
      q == [p EXCEPT !.touch_region = IF crossed THEN sample.region ELSE @,
                     !.click_region = IF pressed THEN p.press_anchor.region
                                      ELSE IF released THEN NoAction ELSE @]
  IN  [pad |-> q,
       touch |-> IF crossed THEN latch_for(config.touch, sample.region) ELSE Keep,
       click |-> IF pressed THEN latch_for(config.click, p.press_anchor.region)
                 ELSE IF released /\ p.click_region # NoAction THEN NoAction ELSE Keep]

\* pad_motion and filter_pad_motion: the pad after the sample, and whether
\* travel passes the filter.
Passes(p) == [pad |-> p, moves |-> TRUE]
Swallows(p) == [pad |-> p, moves |-> FALSE]
Travels(sample) == sample.motion = "travel"

filter_pad_motion(p, sample) ==
  CASE p.filter \in {"Moving", "Dragging"} ->
         IF sample.motion = "rest"
         THEN Swallows([p EXCEPT !.filter = IF @ = "Moving" THEN "Parked" ELSE "DragParked"])
         ELSE Passes(p)
    [] p.filter \in {"Parked", "DragParked"} ->
         IF ~Travels(sample) THEN Swallows(p)
         ELSE Passes([p EXCEPT !.filter = IF @ = "Parked" THEN "Moving" ELSE "Dragging"])
    [] p.filter = "PressHeld" ->
         IF ~Travels(sample) \/ ~p.clicked THEN Swallows(p)
         ELSE Passes([p EXCEPT !.filter = "Dragging"])

Seeded(p, config) ==
  [p EXCEPT !.momentum = IF config.motion = "Scroll" /\ @ = "none" THEN "seeded" ELSE @]

pad_motion(p, sample, config) ==
  IF config.motion = "None" THEN Swallows(reset_motion(p))
  ELSE IF p.guard \/ (p.placed /\ sample.motion = "jump")
  THEN Swallows(Seeded(rebaseline_placement(p), config))
  ELSE IF ~p.placed THEN Swallows(Seeded([p EXCEPT !.placed = TRUE], config))
  ELSE LET m == filter_pad_motion(p, sample)
       IN  IF config.motion = "Pointer" THEN m
           ELSE [m EXCEPT !.pad.momentum =
                   IF m.moves THEN (IF Travels(sample) THEN "pending" ELSE @)
                   ELSE IF m.pad.filter \in {"Parked", "DragParked"} THEN "none" ELSE @]

end_contact(p, sample) ==
  clear_regions([p EXCEPT !.touched = FALSE, !.blocked = FALSE, !.held = FALSE,
                          !.clicked = sample.pressed, !.pressure_blocked = FALSE,
                          !.guard = FALSE])

\* Momentum that has decayed is over.
advance_scroll_momentum(p, ends) ==
  IF p.momentum = "none" THEN Swallows(p)
  ELSE Passes(IF ends THEN [p EXCEPT !.momentum = "none"] ELSE p)

Lifted(p, sample, config) ==
  LET q == end_contact(p, sample)
      events == [click |-> IF p.click_region # NoAction THEN NoAction ELSE Keep,
                 touch |-> IF p.touch_region # NoAction THEN NoAction ELSE Keep]
      m == IF config.motion # "Scroll" THEN Swallows(reset_motion(q))
           ELSE IF p.touched /\ config.momentum /\ q.momentum = "pending"
           THEN Swallows(reset_motion_tracking(q))
           ELSE IF p.touched \/ ~config.momentum THEN Swallows(reset_motion(q))
           ELSE advance_scroll_momentum(q, sample.motion = "rest")
  IN  [pad |-> m.pad, moves |-> m.moves, click |-> events.click, touch |-> events.touch]

Blocked(p, sample) ==
  [pad |-> reset_motion([p EXCEPT !.touched = TRUE,
                                  !.held = effectively_pressed(@, p.pressure_blocked, sample),
                                  !.clicked = sample.pressed, !.pressure_blocked = FALSE]),
   moves |-> FALSE, click |-> Keep, touch |-> Keep]

\* process_pad: the pad, whether it moves the pointer or the page, and what its
\* regions shall hold.
process_pad(p, sample, config) ==
  IF ~sample.touched THEN Lifted(p, sample, config)
  ELSE IF p.blocked THEN Blocked(p, sample)
  ELSE LET q == [p EXCEPT !.touched = TRUE,
                          !.momentum = IF config.motion = "Scroll" /\ ~p.touched THEN "none" ELSE @]
           t == track_regions(apply_click_transitions(q, sample), p, sample, config)
           m == pad_motion(t.pad, sample, config)
       IN  [pad |-> m.pad, moves |-> m.moves /\ Travels(sample),
            click |-> t.click, touch |-> t.touch]

-----------------------------------------------------------------------------
(* The operations.                                                         *)

\* What the trigger of a pad holds down.
WithLatch(r, side, trigger, action) == [r EXCEPT !.e.latches[side][trigger] = action]

\* dispatch_pad_events, of one trigger.
Dispatch(r, side, trigger, latch) ==
  LET before == r.e.latches[side][trigger]
  IN  IF r.failed \/ latch = Keep \/ (latch # NoAction /\ latch = before) THEN r
      ELSE LET r1 == WithLatch(r, side, trigger, NoAction)
               r2 == IF before = NoAction THEN r1 ELSE release_action(r1, before)
               r3 == IF latch = NoAction THEN r2 ELSE press_action(r2, latch)
           IN  IF r3.failed \/ latch = NoAction THEN r3 ELSE WithLatch(r3, side, trigger, latch)

Side(r, side, sample) ==
  IF r.failed THEN r
  ELSE LET o == process_pad(r.e.pads[side], sample, r.e.profile.pads[side])
           r1 == [r EXCEPT !.e.pads[side] = o.pad]
           r2 == IF o.moves THEN SinkCall(r1) ELSE r1
       IN  Dispatch(Dispatch(r2, side, "click", o.click), side, "touch", o.touch)
process_pads(r, samples) ==
  LET run[n \in 0 .. Len(Sides)] ==
        IF n = 0 THEN r ELSE Side(run[n - 1], Sides[n], samples[Sides[n]])
  IN  run[Len(Sides)]

\* What apply_changes does of a control that is up, and of one that went down.
LetGo(r, c, mask) ==
  IF r.failed \/ c \in mask \/ c \notin r.e.previous \/ r.e.active[c] = NoAction THEN r
  ELSE release_action([r EXCEPT !.e.active[c] = NoAction], r.e.active[c])
HoldDown(r, c, mask) ==
  LET action == r.e.profile.bindings[c]
      r1 == press_action(r, action)
  IN  IF r.failed \/ c \notin mask \ (r.e.previous \cup r.e.blocked) \/ action = NoAction THEN r
      ELSE IF r1.failed THEN r1 ELSE [r1 EXCEPT !.e.active[c] = action]

apply_changes(r, mask) ==
  LET let_go[n \in 0 .. Len(Controls)] ==
        IF n = 0 THEN r ELSE LetGo(let_go[n - 1], Controls[n], mask)
      held[n \in 0 .. Len(Controls)] ==
        IF n = 0 THEN let_go[Len(Controls)] ELSE HoldDown(held[n - 1], Controls[n], mask)
  IN  held[Len(Controls)]

BlockPads(pads) == [s \in SideSet |-> block_if_touched(pads[s])]
EndWith(r, early) ==
  engine' = r.e /\ desk' = [down |-> r.down, stuck |-> r.stuck, early |-> early]

\* observe_snapshot: the baseline, and every snapshot after it.
Baseline ==
  /\ engine.previous = NoAction
  /\ \E mask \in SUBSET ControlSet, samples \in [SideSet -> PadSamples] :
       engine' = [engine EXCEPT !.previous = mask, !.blocked = mask,
                    !.pads = [s \in SideSet |-> baseline_pad(@[s], samples[s])]]
       /\ desk' = [desk EXCEPT !.early = {s \in SideSet : samples[s].pressed /\ ~samples[s].touched}]

SnapshotSeen(mask, samples, left, dead) ==
  LET begun == [Start(left, dead) EXCEPT !.e.blocked = @ \cap mask]
      r == process_pads(apply_changes(begun, mask), samples)
      seen == [r EXCEPT !.e.previous = mask]
      let_go == release_all(seen)
  IN  IF ~r.failed THEN seen
      ELSE [let_go EXCEPT !.e.blocked = mask, !.e.pads = BlockPads(@)]

SeeSnapshot ==
  /\ engine.previous # NoAction
  /\ \E mask \in SUBSET ControlSet, samples \in [SideSet -> PadSamples] :
     \E left \in (0 .. MaxCalls) \cup {Enough}, dead \in BOOLEAN :
       /\ left = Enough => ~dead
       /\ \E r \in {SnapshotSeen(mask, samples, left, dead)} :
            EndWith(r, {s \in desk.early : r.e.pads[s].held})

pad_momentum_pending(side) ==
  /\ ~engine.pads[side].touched /\ ~engine.pads[side].blocked
  /\ engine.profile.pads[side].motion = "Scroll" /\ engine.profile.pads[side].momentum
  /\ engine.pads[side].momentum # "none"
needs_tick == engine.previous # NoAction /\ \E side \in SideSet : pad_momentum_pending(side)

\* tick: momentum goes on, and an error lets go of everything.
EngineTick ==
  /\ needs_tick
  /\ \/ \E ends \in [SideSet -> BOOLEAN] :
          /\ engine' = [engine EXCEPT !.pads = [s \in SideSet |->
                          IF pad_momentum_pending(s)
                          THEN advance_scroll_momentum(@[s], ends[s]).pad ELSE @[s]]]
          /\ UNCHANGED desk
     \/ \E dead \in BOOLEAN :
          EndWith([release_all(Start(0, dead)) EXCEPT !.e.pads = BlockPads(@)], desk.early)

EngineReplaceProfile ==
  \E l \in Layouts, dead \in BOOLEAN :
    /\ l # engine.profile
    /\ LET held == IF engine.previous = NoAction THEN {} ELSE engine.previous
       IN  EndWith([release_all(Start(0, dead)) EXCEPT
                     !.e.profile = l, !.e.blocked = held, !.e.pads = BlockPads(@)], desk.early)

EngineDisconnect ==
  /\ engine.previous # NoAction
  /\ \E dead \in BOOLEAN :
       EndWith([release_all(Start(0, dead)) EXCEPT
                 !.e.previous = NoAction, !.e.blocked = {}, !.e.pads = [s \in SideSet |-> NewPad]], {})

EngineNext == Baseline \/ SeeSnapshot \/ EngineTick \/ EngineReplaceProfile \/ EngineDisconnect
EngineSpec == EngineInit /\ [][EngineNext]_engineVars

-----------------------------------------------------------------------------
Owners == ({"control"} \X ControlSet \X {"click"}) \cup ({"pad"} \X SideSet \X Triggers)
ActionOf(e, owner) ==
  IF owner[1] = "control" THEN e.active[owner[2]] ELSE e.latches[owner[2]][owner[3]]
Owes(e, owner, o) == ActionOf(e, owner) # NoAction /\ o \in ToSet(ActionOf(e, owner))
Owed(e, o) == Cardinality({owner \in Owners : Owes(e, owner, o)})

\* What is down is owed to somebody: the count of every output is that of the
\* buttons and regions that hold it, and nothing else is down but what a
\* failed release left there.
CountsAreOwed ==
  \A o \in Outputs :
    /\ engine.counts[o] = IF Owed(engine, o) = 0 THEN Missing ELSE Owed(engine, o)
    /\ Owed(engine, o) > 0 => o \in desk.down
    /\ o \in desk.down => Owed(engine, o) > 0 \/ o \in desk.stuck

\* A button holds its action of the installed profile, and a pad's trigger that
\* of the region it was aimed at, exactly as long as it is down and unblocked.
OwnersAreDown ==
  /\ \A c \in ControlSet : engine.active[c] # NoAction =>
       c \in engine.previous \ engine.blocked /\ engine.active[c] = engine.profile.bindings[c]
  /\ \A s \in SideSet :
       LET p == engine.pads[s]
           config == engine.profile.pads[s]
       IN  /\ engine.latches[s]["click"] = latch_for(config.click, p.click_region)
           /\ engine.latches[s]["touch"] = latch_for(config.touch, p.touch_region)
           /\ p.click_region # NoAction => p.touched /\ ~p.blocked /\ p.clicked /\ p.held
           /\ p.touch_region # NoAction => p.touched /\ ~p.blocked

\* A pressed pad is frozen until it is dragged, and only a click drags it.
PressedPadIsFrozen ==
  \A s \in SideSet :
    LET p == engine.pads[s]
    IN  p.touched /\ ~p.blocked /\ engine.profile.pads[s].motion # "None" =>
          /\ s \in desk.early \/ (p.held <=> p.filter \in {"PressHeld", "Dragging", "DragParked"})
          /\ p.filter \in {"Dragging", "DragParked"} => p.clicked

\* The three of them: no sequence of snapshots, profiles and failing calls
\* leaves a key down that nobody holds, or a pad in between two states.
HeldIsOwed == CountsAreOwed /\ OwnersAreDown /\ PressedPadIsFrozen
=============================================================================
