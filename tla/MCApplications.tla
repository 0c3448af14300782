--------------------------- MODULE MCApplications --------------------------
(***************************************************************************)
(* The applications beside the bridge, one in each behaviour: the stages a *)
(* release passes through on its way to a board (the cached catalog, the   *)
(* App Center with its parent, the installation of an image, the board's   *)
(* receipt page), and the visualizer's capture.  The others stay in one of *)
(* their initial states.                                                   *)
(***************************************************************************)
EXTENDS ReleaseCache, AppCenter, FirmwareUpdate, InstallReceipt, LizardCapture

VARIABLE part  \* the stage this behaviour is about

appVars == <<cacheVars, centerVars, flashVars, vars, captureVars, part>>

AppInit ==
  /\ part \in {"catalog", "center", "installation", "page", "capture"}
  /\ CacheInit /\ CenterInit
  /\ FlashInit /\ (part # "installation" => \A b \in Boards : board[b] = [at |-> "away", image |-> Factory])
  /\ Init /\ (part # "page" => ~marker)
  /\ CaptureInit /\ (part # "capture" => Free)

AppNext ==
  /\ UNCHANGED part
  /\ \/ part = "catalog" /\ CacheNext /\ UNCHANGED <<centerVars, flashVars, vars, captureVars>>
     \/ part = "center" /\ CenterNext 
        /\ UNCHANGED <<cacheVars, flashVars, vars, captureVars>>
     \/ part = "installation" /\ FlashNext 
        /\ UNCHANGED <<cacheVars, centerVars, vars, captureVars>>
     \/ part = "page" /\ Next 
        /\ UNCHANGED <<cacheVars, centerVars, flashVars, captureVars>>
     \/ part = "capture" /\ CaptureNext
        /\ UNCHANGED <<cacheVars, centerVars, flashVars, vars>>

Center(A) == part = "center" /\ A
Capture(A) == part = "capture" /\ A

\* CenterFairness and CaptureFairness, each of its own behaviours.
AppFairness ==
  /\ WF_centerVars(Center(Worker)) /\ WF_centerVars(Center(Parent)) /\ WF_centerVars(Center(Obey))
  /\ WF_captureVars(Capture(Producer)) /\ WF_captureVars(Capture(Guide))
  /\ WF_captureVars(Capture(Writer))

AppSpec == AppInit /\ [][AppNext]_appVars /\ AppFairness
=============================================================================
