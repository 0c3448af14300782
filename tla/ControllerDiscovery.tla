------------------------ MODULE ControllerDiscovery ------------------------
(***************************************************************************)
(* How the runtime finds the controller in use: the retained candidates of *)
(* steam-controller-discovery (ControllerDiscoveryState), the collection   *)
(* chosen by index (IndexedControllerDiscoveryState of supervisor/         *)
(* controller/session.rs), and supervisor/discovery.rs, which selects the  *)
(* only candidate that sends controller states and keeps a controller that *)
(* was powered off from being taken up again at once.                      *)
(*                                                                         *)
(* One pass takes DISCOVERY_INTERVAL, the unit of time.  Every open session*)
(* buffers its controller's reports (the HID library), a whole buffer in a *)
(* pass; a pass reads each session up to its first controller state.       *)
(***************************************************************************)
EXTENDS Integers, Sequences, FiniteSets

CONSTANTS
  Controllers,  \* supported collections
  Absent,       \* Option::None
  MinScan, MaxScan,  \* MIN_/MAX_STABLE_SCAN_INTERVAL; EMPTY_SCAN_INTERVAL is one pass
  Cooldown,     \* POWER_OFF_COOLDOWN
  Buffer,       \* external: reports an open session buffers
  Trailing      \* reports a controller may still send after its power-off

ASSUME DiscoveryAssumption ==
  MinScan \in Nat \ {0} /\ MaxScan \in Nat /\ MinScan <= MaxScan
    /\ Cooldown \in Nat /\ Buffer \in Nat \ {0} /\ Trailing \in Nat

VARIABLES
  usb,        \* which collections are there, which controllers are awake, which
              \* the runtime turned off, and reports those still send
  indexed,    \* is a collection chosen by index, and which one was found
  candidates, \* retained sessions: is the collection open, buffered reports
  scan,       \* passes to the next scan, the stable interval
  cooldown,   \* ControllerCooldown
  chosen,     \* the controller in use
  alone       \* ghost: passes the one controller awake was there undisturbed

discoveryVars == <<usb, indexed, candidates, scan, cooldown, chosen, alone>>

Patience == MaxScan + Buffer + 2  \* bound: passes counted

FreshScan == [wait |-> 0, stable |-> MinScan]

NoCandidates == [c \in {} |-> Absent]

DiscoveryStart(by_index) ==
  /\ usb = [there |-> {}, awake |-> {}, off |-> {}, trail |-> [c \in Controllers |-> 0]]
  /\ indexed = [used |-> by_index, info |-> Absent]
  /\ candidates = NoCandidates
  /\ scan = FreshScan
  /\ cooldown = [of |-> Absent, left |-> 0]
  /\ chosen = Absent /\ alone = 0

DiscoveryInit == \E by_index \in BOOLEAN : DiscoveryStart(by_index)

\* Fault: the interval of a quiet inventory grows for ever.
next_stable_scan_interval_unbounded(current) == 2 * current

next_stable_scan_interval(current) == IF 2 * current < MaxScan THEN 2 * current ELSE MaxScan

inventory_scan_interval(found, stable) == IF found THEN stable ELSE 1

Scanned(found, changed, stable) ==
  LET interval == IF changed THEN MinScan ELSE next_stable_scan_interval(stable)
  IN [wait |-> inventory_scan_interval(found, interval), stable |-> interval]

\* clear: the candidates' sessions are closed.
Clears == candidates' = NoCandidates /\ scan' = FreshScan /\ indexed' = [indexed EXCEPT !.info = Absent]

OnCooldown(c) == cooldown.of = c /\ cooldown.left > 0

-----------------------------------------------------------------------------
(* Candidates.                                                             *)

\* Sessions of collections that are still there are kept, new ones opened.
refresh(failing) ==
  LET kept == DOMAIN candidates \cap usb.there
      opened == usb.there \ (kept \cup failing)
      now == kept \cup opened
      changed == now # DOMAIN candidates \/ opened # {} \/ failing \ kept # {}
  IN /\ candidates' = [c \in now |-> IF c \in kept THEN candidates[c]
                                     ELSE [open |-> TRUE, reports |-> 0]]
     /\ scan' = Scanned(now # {}, changed, scan.stable)

Active == {c \in DOMAIN candidates : candidates[c].reports > 0}

\* A pass reads one controller state of each session that has one, and opens
\* again a collection that had gone.
probe == [c \in DOMAIN candidates |->
            [open |-> c \in usb.there,
             reports |-> IF c \in Active THEN candidates[c].reports - 1 ELSE 0]]

Scan(failing) ==
  /\ chosen = Absent /\ ~indexed.used /\ scan.wait = 0
  /\ refresh(failing)
  /\ alone' = IF failing = {} THEN alone ELSE 0
  /\ UNCHANGED <<usb, indexed, cooldown, chosen>>

ScanFails ==
  /\ chosen = Absent /\ scan.wait = 0
  /\ IF indexed.used
     THEN /\ indexed' = [indexed EXCEPT !.info = Absent]
          /\ scan' = [wait |-> 1, stable |-> MinScan]
     ELSE /\ scan' = [wait |-> inventory_scan_interval(candidates # NoCandidates, MinScan),
                      stable |-> MinScan]
          /\ UNCHANGED indexed
  /\ alone' = 0
  /\ UNCHANGED <<usb, candidates, cooldown, chosen>>

\* Time between two passes.
Lesser(m, n) == IF m < n THEN m ELSE n

Buffered(held) ==
  [c \in DOMAIN held |->
     IF ~held[c].open THEN held[c]
     ELSE [held[c] EXCEPT !.reports = IF c \in usb.awake THEN Buffer
                                      ELSE Lesser(Buffer, @ + usb.trail[c])]]

Lone(c) == usb.awake \cap usb.there = {c} /\ ~OnCooldown(c)

PassEnds(held) ==
  /\ candidates' = Buffered(held)
  /\ usb' = [usb EXCEPT !.trail = [c \in Controllers |-> 0]]
  /\ scan' = [scan EXCEPT !.wait = IF @ = 0 THEN 0 ELSE @ - 1]
  /\ cooldown' = IF cooldown.left <= 1 THEN [of |-> Absent, left |-> 0]
                 ELSE [cooldown EXCEPT !.left = @ - 1]
  /\ alone' = IF \E c \in Controllers : Lone(c)
              THEN (IF alone = Patience THEN Patience ELSE alone + 1) ELSE 0

\* Nobody is active, several are, or the only one is on its cooldown.
ProbeWaits ==
  /\ chosen = Absent /\ ~indexed.used /\ scan.wait > 0
  /\ Cardinality(Active) # 1 \/ \E c \in Active : OnCooldown(c)
  /\ PassEnds(probe)
  /\ UNCHANGED <<indexed, chosen>>

ProbeSelects ==
  /\ chosen = Absent /\ ~indexed.used /\ scan.wait > 0
  /\ \E c \in Controllers : Active = {c} /\ ~OnCooldown(c) /\ chosen' = c
  /\ Clears /\ alone' = 0
  /\ UNCHANGED <<usb, cooldown>>

-----------------------------------------------------------------------------
(* A collection chosen by its index: any of those there, as others come    *)
(* and go before it.                                                       *)

IndexedScan ==
  /\ chosen = Absent /\ indexed.used /\ scan.wait = 0
  /\ \E info \in usb.there \cup (IF usb.there = {} THEN {Absent} ELSE {}) :
       /\ indexed' = [indexed EXCEPT !.info = info]
       /\ scan' = Scanned(info # Absent, info = Absent \/ info # indexed.info, scan.stable)
  /\ UNCHANGED <<usb, candidates, cooldown, chosen, alone>>

IndexedWaits(denied) ==
  /\ chosen = Absent /\ indexed.used /\ scan.wait > 0
  /\ indexed.info = Absent \/ OnCooldown(indexed.info)
       \/ indexed.info \notin usb.there \/ denied
  /\ PassEnds(candidates)
  /\ UNCHANGED <<indexed, chosen>>

IndexedSelects ==
  /\ chosen = Absent /\ indexed.used /\ scan.wait > 0
  /\ indexed.info \in usb.there /\ ~OnCooldown(indexed.info)
  /\ chosen' = indexed.info
  /\ Clears /\ alone' = 0
  /\ UNCHANGED <<usb, cooldown>>

-----------------------------------------------------------------------------
(* The controller's session ends; controllers come, go, sleep and wake.    *)

SessionLost ==
  /\ chosen # Absent /\ chosen' = Absent
  /\ Clears
  /\ UNCHANGED <<usb, cooldown, alone>>

PoweredOff ==
  /\ chosen # Absent /\ chosen' = Absent
  /\ usb' = [usb EXCEPT !.awake = @ \ {chosen}, !.off = @ \cup {chosen},
                         !.trail[chosen] = Trailing]
  /\ cooldown' = [of |-> chosen, left |-> Cooldown]
  /\ Clears /\ UNCHANGED alone

Comes(c) ==
  /\ c \notin usb.there
  /\ usb' = [usb EXCEPT !.there = @ \cup {c}] /\ alone' = 0
  /\ UNCHANGED <<indexed, candidates, scan, cooldown, chosen>>

Goes(c) ==
  /\ c \in usb.there
  /\ usb' = [usb EXCEPT !.there = @ \ {c}] /\ alone' = 0
  /\ candidates' = [d \in DOMAIN candidates |->
                      IF d = c THEN [open |-> FALSE, reports |-> 0] ELSE candidates[d]]
  /\ UNCHANGED <<indexed, scan, cooldown, chosen>>

Wakes(c) ==
  /\ c \notin usb.awake
  /\ usb' = [usb EXCEPT !.awake = @ \cup {c}, !.off = @ \ {c}, !.trail[c] = 0] /\ alone' = 0
  /\ UNCHANGED <<indexed, candidates, scan, cooldown, chosen>>

FallsAsleep(c) ==
  /\ c \in usb.awake
  /\ usb' = [usb EXCEPT !.awake = @ \ {c}] /\ alone' = 0
  /\ UNCHANGED <<indexed, candidates, scan, cooldown, chosen>>

DiscoveryNext ==
  \/ \E failing \in SUBSET Controllers : Scan(failing)
  \/ ScanFails
  \/ ProbeWaits
  \/ ProbeSelects
  \/ IndexedScan
  \/ \E denied \in BOOLEAN : IndexedWaits(denied)
  \/ IndexedSelects
  \/ SessionLost
  \/ PoweredOff
  \/ \E c \in Controllers : Comes(c) \/ Goes(c) \/ Wakes(c) \/ FallsAsleep(c)

DiscoverySpec == DiscoveryInit /\ [][DiscoveryNext]_discoveryVars

-----------------------------------------------------------------------------
\* The only controller awake is taken up within the longest scan interval and
\* the time it takes to read what the others' sessions had buffered, however
\* quiet the inventory was before, unless it cannot be opened.
LoneControllerIsFound == ~indexed.used => alone < Patience

\* As BRIDGE.md:150-151 has it, the cooldown ignores the reports a controller
\* sends after its power-off: one that was not woken is not taken up again.
TrailingReportsAreIgnored ==
  [][chosen = Absent /\ chosen' # Absent /\ ~indexed.used
       => chosen' \notin usb.off]_discoveryVars
=============================================================================
