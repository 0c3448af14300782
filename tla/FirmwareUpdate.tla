--------------------------- MODULE FirmwareUpdate ---------------------------
(***************************************************************************)
(* One firmware installation by the App Center (release-updater            *)
(* firmware.rs): find one board, bring it into its UF2 bootloader by a     *)
(* request or by the user's hand, copy the image, wait for the board to    *)
(* restart and have it record a receipt.  Every question to the board may  *)
(* find it gone; a copy may fail although the image arrived; the user may  *)
(* cancel, tap reset, pull the cable and plug in another board whenever he *)
(* likes.                                                                  *)
(***************************************************************************)
EXTENDS Naturals, FiniteSets

CONSTANTS
    Boards,         \* the boards on the desk
    Nothing,        \* no board, no image, no receipt
    AutomaticPolls, \* AUTOMATIC_BOOTLOADER_WAIT_TIMEOUT, in polls of the volumes
    ManualPolls,    \* MANUAL_BOOTLOADER_WAIT_TIMEOUT
    ReconnectPolls, \* APPLICATION_RECONNECT_TIMEOUT, in polls of the devices
    MaxTouches      \* bound: what the user does to boards while we install

VARIABLES
    board,    \* board -> where it is and which image it runs
    flash,    \* the installation: where it stands and what it has learned
    written,  \* history: the boards on which this installation wrote its image
    user      \* [cancelled, touches, connected: every board that was connected]

flashVars == <<board, flash, written, user>>

-----------------------------------------------------------------------------
(* What a board reports of itself.  Revision 2 is the release.             *)

Release == 2
Image(target, revision, install, automatic) ==
    [target |-> target, revision |-> revision, install |-> install, automatic |-> automatic]
ReleaseImage == Image("ours", Release, "pending", TRUE)
Factory == Image("factory", 0, "unsupported", FALSE)
Images ==
    { Factory,
      Image("unreported", 1, "unsupported", FALSE), Image("unreported", Release, "unsupported", FALSE),
      Image("ours", 1, "recorded", TRUE), Image("ours", Release, "recorded", TRUE),
      ReleaseImage, Image("ours", 3, "recorded", TRUE) }

ASSUME FlashAssumption ==
    /\ IsFiniteSet(Boards)
    /\ Nothing \notin Boards /\ Nothing \notin Images
    /\ Nothing \notin {"installed", "cancelled", "cancelled_in_bootloader"}

firmware_matches_target(image) == image.target = "ours"

At(where) == {b \in Boards : board[b].at = where}
Volumes == At("bootloader")
(* A bootloader's serial port may be seen or not; an application's is. *)
DeviceLists == {At("application") \cup boots : boots \in SUBSET Volumes}

FlashInit ==
    /\ board \in [Boards -> [at : {"away", "application", "bootloader"}, image : Images]]
    /\ flash = [at |-> "looking", result |-> Nothing, volume |-> Nothing, device |-> Nothing,
                expected |-> Nothing, pre |-> Nothing, requested |-> FALSE,
                copy_failed |-> FALSE, polls |-> 0]
    /\ written = {}
    /\ user = [cancelled |-> FALSE, touches |-> 0, connected |-> Boards \ At("away")]

Goes(at, change(_)) == flash' = [change(flash) EXCEPT !.at = at, !.polls = 0]
Ends(result) == flash' = [flash EXCEPT !.at = "over", !.result = result]
Same(f) == f

-----------------------------------------------------------------------------
(* Before the write.                                                       *)

(* flash_with_adapter, to the first look at the mounted volumes. *)
Look ==
    /\ flash.at = "looking"
    /\ IF user.cancelled THEN Ends("cancelled")
       ELSE \/ Cardinality(Volumes) > 1 /\ Ends("discovery")
            \/ \E b \in Volumes : Volumes = {b} /\ Goes("mounted", LAMBDA f : [f EXCEPT !.volume = b])
            \/ Volumes = {} /\ Goes("choosing", Same)
    /\ UNCHANGED <<board, written, user>>

(* A drive is mounted already: nothing else may be connected. *)
Mounted ==
    /\ flash.at = "mounted"
    /\ \E devices \in DeviceLists :
          IF Cardinality(devices) > 1 \/ devices \cap At("application") # {}
          THEN Ends("discovery")
          ELSE \E serial \in IF devices = {} THEN {Nothing} ELSE devices :
                  Goes("ready", LAMBDA f : [f EXCEPT !.expected = serial])
    /\ UNCHANGED <<board, written, user>>

(* Exactly one device is connected. *)
Choose ==
    /\ flash.at = "choosing"
    /\ \E devices \in DeviceLists :
          IF Cardinality(devices) # 1 THEN Ends("discovery")
          ELSE \E b \in devices :
                 IF board[b].at = "application" /\ board[b].image # Factory
                 THEN Goes("identifying", LAMBDA f : [f EXCEPT !.device = b])
                 ELSE Goes("manual", LAMBDA f : [f EXCEPT
                        !.expected = b,
                        !.pre = IF board[b].at = "application" THEN Factory ELSE Nothing])
    /\ UNCHANGED <<board, written, user>>

validate_version_policy(image) == image.revision <= Release

(* The board says who it is.  One that is not ours is evidence for later,  *)
(* but neither its serial number nor its automatic entry is used.          *)
Identify ==
    LET image == board[flash.device].image
        known(f) == [f EXCEPT !.pre = image] IN
    /\ flash.at = "identifying"
    /\ \/ Ends("discovery")
       \/ /\ flash.device \in At("application")
          /\ IF ~firmware_matches_target(image) THEN Goes("manual", known)
             ELSE IF ~validate_version_policy(image)
                  THEN flash' = [known(flash) EXCEPT !.at = "over", !.result = "newer"]
                  ELSE Goes(IF image.automatic THEN "requesting" ELSE "manual",
                            LAMBDA f : [known(f) EXCEPT !.expected = flash.device])
    /\ UNCHANGED <<board, written, user>>

(* enter_uf2_bootloader: the board may obey although its answer is lost. *)
RequestBootloader ==
    /\ flash.at = "requesting"
    /\ IF user.cancelled THEN Ends("cancelled") /\ UNCHANGED board
       ELSE /\ \E obeys \in {b \in BOOLEAN : b => flash.device \in At("application")} :
                 /\ board' = IF obeys THEN [board EXCEPT ![flash.device].at = "bootloader"] ELSE board
                 /\ \E answered \in {a \in BOOLEAN : a => obeys} :
                       Goes(IF answered THEN "automatic" ELSE "manual",
                            LAMBDA f : [f EXCEPT !.requested = TRUE])
    /\ UNCHANGED <<written, user>>

\* Fault: a cancellation is reported as harmless whatever was requested.
CancelResult_forgets_request(entered) == "cancelled"
CancelResult(entered) == IF entered THEN "cancelled_in_bootloader" ELSE "cancelled"

(* wait_for_volume, one poll. *)
wait_for_volume(at, entered, limit, timeout) ==
    /\ flash.at = at
    /\ \/ flash.polls >= limit /\ timeout
       \/ /\ flash.polls < limit
          /\ IF user.cancelled THEN Ends(CancelResult(entered))
             ELSE \/ Cardinality(Volumes) > 1 /\ Ends("discovery")
                  \/ \E b \in Volumes : Volumes = {b} /\ Goes("ready", LAMBDA f : [f EXCEPT !.volume = b])
                  \/ Volumes = {} /\ flash' = [flash EXCEPT !.polls = @ + 1]
    /\ UNCHANGED <<board, written, user>>

AwaitAutomatic == wait_for_volume("automatic", TRUE, AutomaticPolls, Goes("manual", Same))
AwaitManual == wait_for_volume("manual", flash.requested, ManualPolls, Ends("timeout"))

-----------------------------------------------------------------------------
(* The write and the proof of it.                                          *)

(* copy_and_flush: a bootloader that has the whole image restarts at once, *)
(* so the last flush may fail although everything arrived.                 *)
Write ==
    /\ flash.at = "ready"
    /\ IF user.cancelled THEN Ends("cancelled_in_bootloader") /\ UNCHANGED <<board, written>>
       ELSE \E arrives \in {a \in BOOLEAN : a => flash.volume \in Volumes},
               failed \in BOOLEAN :
              /\ ~arrives => failed
              /\ Goes("reconnecting", LAMBDA f : [f EXCEPT !.copy_failed = failed, !.device = Nothing])
              /\ IF arrives
                 THEN /\ board' = [board EXCEPT ![flash.volume] =
                                     [at |-> "application", image |-> ReleaseImage]]
                      /\ written' = written \cup {flash.volume}
                 ELSE UNCHANGED <<board, written>>
    /\ UNCHANGED user

(* verify_reconnected_firmware, one look at the devices. *)
Reconnect ==
    /\ flash.at = "reconnecting"
    /\ IF flash.polls >= ReconnectPolls
       THEN Ends(IF flash.copy_failed THEN "copy" ELSE "revision")
       ELSE \E devices \in DeviceLists \cup {{}} :
              LET matching == {b \in devices \cap At("application") :
                                 /\ board[b].image # Factory
                                 /\ flash.expected \in {Nothing, b}} IN
              IF Cardinality(devices) > 1 THEN Ends("discovery")
              ELSE flash' = [flash EXCEPT !.polls = @ + 1,
                               !.at = IF matching = {} THEN "reconnecting" ELSE "asking",
                               !.device = IF matching = {} THEN Nothing ELSE CHOOSE b \in matching : TRUE]
    /\ UNCHANGED <<board, written, user>>

\* Fault: an equal revision counts as proof of a fresh image.
proves_fresh_image_equal_revision(pre) == pre # Nothing
proves_fresh_image(pre) ==
    \/ pre = Factory
    \/ pre # Nothing /\ ~firmware_matches_target(pre)
    \/ pre # Nothing /\ (pre.revision # Release \/ pre.install = "recorded")

(* The reconnected board answers, or does not and is asked again. *)
Ask ==
    LET image == board[flash.device].image IN
    /\ flash.at = "asking"
    /\ IF flash.device \in At("application") /\ firmware_matches_target(image) /\ image.revision = Release
       THEN \/ image.install # "pending" /\ Ends("not_pending")
            \/ /\ image.install = "pending"
               /\ IF flash.copy_failed /\ ~proves_fresh_image(flash.pre) THEN Ends("copy")
                  ELSE \/ flash' = [flash EXCEPT !.at = "recording"]
                       \/ flash.pre # Nothing /\ flash.pre.install = "recorded" /\ Ends("mismatch")
            \/ flash' = [flash EXCEPT !.at = "reconnecting"]
       ELSE flash' = [flash EXCEPT !.at = "reconnecting"]
    /\ UNCHANGED <<board, written, user>>

(* record_install_receipt: committed and answered, committed only, or neither. *)
Record ==
    /\ flash.at = "recording"
    /\ \E commits \in {c \in BOOLEAN : c => /\ flash.device \in At("application")
                                            /\ board[flash.device].image.install = "pending"} :
          /\ board' = IF commits THEN [board EXCEPT ![flash.device].image.install = "requested"] ELSE board
          /\ \/ commits /\ flash' = [flash EXCEPT !.at = "verifying"]
             \/ Ends("receipt")
    /\ UNCHANGED <<written, user>>

(* The committed receipt is read back. *)
Verify ==
    LET image == board[flash.device].image IN
    /\ flash.at = "verifying"
    /\ \/ Ends("receipt")
       \/ /\ flash.device \in At("application")
          /\ Ends(IF /\ firmware_matches_target(image)
                     /\ image.revision = Release
                     /\ image.install = "requested" THEN "installed" ELSE "mismatch")
    /\ UNCHANGED <<board, written, user>>

-----------------------------------------------------------------------------
(* The user's hands (external), and the button that cancels.               *)

Cancel ==
    /\ flash.at # "over" /\ ~user.cancelled
    /\ user' = [user EXCEPT !.cancelled = TRUE]
    /\ UNCHANGED <<board, flash, written>>

Touch ==
    /\ flash.at # "over" /\ user.touches < MaxTouches
    /\ \E b \in Boards, at \in {"away", "application", "bootloader"} :
          /\ at # board[b].at
          /\ board' = [board EXCEPT ![b].at = at]
          /\ user' = [user EXCEPT !.touches = @ + 1,
                        !.connected = @ \cup {b}]
    /\ UNCHANGED <<flash, written>>

Install ==
    \/ Look \/ Mounted \/ Choose \/ Identify \/ RequestBootloader \/ AwaitAutomatic \/ AwaitManual
    \/ Write \/ Reconnect \/ Ask \/ Record \/ Verify

FlashNext == Install \/ Cancel \/ Touch
FlashSpec == FlashInit /\ [][FlashNext]_flashVars

-----------------------------------------------------------------------------
(* Success is reported only for a board that this installation has really  *)
(* written and whose committed receipt is the one it asked for: a failed   *)
(* copy is forgiven only when the board itself proves that the image is    *)
(* new.  (A drive is not matched with the board that was identified, so    *)
(* this holds while one board is connected.)                               *)
SuccessIsProved ==
    flash.result = "installed" =>
       /\ board[flash.device].image = [ReleaseImage EXCEPT !.install = "requested"]
       /\ flash.device \in written \/ Cardinality(user.connected) > 1

(* What a cancelled installation says of the board is true: plain          *)
(* "cancelled" means that the bootloader was never asked for, however the  *)
(* answer to the request got lost, and no cancellation ends an             *)
(* installation that has begun to write.                                   *)
CancelIsTruthful ==
    /\ flash.result = "cancelled" => ~flash.requested
    /\ flash.result \in {"cancelled", "cancelled_in_bootloader"} => written = {}

(* What the window tells the user at the end is so.                        *)
ReportIsTrue == SuccessIsProved /\ CancelIsTruthful
=============================================================================
