------------------------- MODULE Applications_proofs -------------------------
(***************************************************************************)
(* What TLAPS proves of the applications beside the bridge and of what a   *)
(* firmware update leaves behind: the cached catalog never goes back       *)
(* (ReleaseCache), what an installation reports at its end is so           *)
(* (FirmwareUpdate), the bridge stays suspended while a board is written   *)
(* (AppCenter), an acknowledged receipt stays in the board's flash page    *)
(* (InstallReceipt), and a valid capture is complete (LizardCapture).      *)
(*                                                                         *)
(* The catalog: a refresh past the lock holds it, and what it compares is  *)
(* signed and still the one in the file (CacheInv).  The installation:     *)
(* FlashInv, which ties each step of it to the boards it has seen.  The    *)
(* window: CenterInv follows one suspension through the queues - asked,    *)
(* served, answered - by its id, which no older answer can carry, and adds *)
(* that a parent without a window is idle, that the last command told to   *)
(* the bridge is the one it obeys, and that the event that ends a worker   *)
(* is drained before the next job.  The receipt: at most one slot is valid *)
(* and a write has programmed the words before its next one (ReceiptInv).  *)
(* The capture: every event a thread stamped is counted once, on its way,  *)
(* in the buffer or in the file, unless the capture is marked invalid      *)
(* (CaptureInvariant).                                                     *)
(***************************************************************************)
EXTENDS ReleaseCache, FirmwareUpdate, AppCenter, InstallReceipt, LizardCapture,
        RecursionTheorems, FiniteSetTheorems, SequenceTheorems, TLAPS

-----------------------------------------------------------------------------
(* ReleaseCache.                                                           *)

Bytes == Nat \cup {NoRelease}
Places == {"idle", "due", "locked", "fetching", "verifying", "comparing", "storing", "using"}
Refresh == [at : Places, forced : BOOLEAN, fetched : Bytes, cached : Bytes,
            catalog : Bytes, stale : BOOLEAN, runs : Nat]
Holding == {"locked", "fetching", "verifying", "comparing", "storing"}

CacheTyped ==
  /\ published \in Nat
  /\ cache \in [metadata : Bytes, checked : BOOLEAN, artifact : Bytes]
  /\ client \in [Clients -> Refresh]

\* A refresh that has passed the lock holds it.
LockIsHeld == \A c \in Clients : client[c].at \in Holding => lock = c

\* What a refresh compares is signed, and the cached release it compares with
\* is still the one in the file.
ComparisonIsCurrent ==
  \A c \in Clients : client[c].at = "comparing" =>
    /\ client[c].fetched \in Nat \ {Unsigned}
    /\ client[c].cached = cache.metadata
FetchedIsRead ==
  \A c \in Clients : client[c].at \in {"verifying", "storing"} => client[c].fetched \in Nat

CacheInv == CacheTyped /\ LockIsHeld /\ ComparisonIsCurrent /\ FetchedIsRead

-----------------------------------------------------------------------------
LEMMA FreshIsRefresh == \A n \in Nat : Fresh(n) \in Refresh /\ Fresh(n).at = "idle"
<1> TAKE n \in Nat
<1>1. "idle" \in Places /\ NoRelease \in Bytes /\ FALSE \in BOOLEAN
  BY DEF Places, Bytes
<1>2. Fresh(n) \in Refresh
  BY <1>1, Zenon DEF Fresh, Refresh
<1>3. Fresh(n).at = "idle"
  BY Zenon DEF Fresh
<1> QED
  BY <1>2, <1>3

LEMMA CacheStarts == CacheInit => CacheInv
<1> SUFFICES ASSUME CacheInit PROVE CacheInv
  OBVIOUS
<1>1. Fresh(0) \in Refresh
  BY FreshIsRefresh
<1>2. client = [c \in Clients |-> Fresh(0)]
  BY DEF CacheInit
<1>3. client \in [Clients -> Refresh]
  BY <1>1, <1>2
<1>4. \A c \in Clients : client[c].at = "idle"
  BY <1>2, FreshIsRefresh
<1>5. CacheTyped
  BY <1>3 DEF CacheInit, CacheTyped, Bytes
<1> QED
  BY <1>4, <1>5 DEF CacheInv, LockIsHeld, ComparisonIsCurrent, FetchedIsRead, Holding

\* A step of one refresh that leaves metadata and lock to it: the others' part
\* of the invariant stays.
LEMMA RefreshStep ==
  ASSUME CacheInv, NEW c \in Clients, NEW r \in Refresh,
         client' = [client EXCEPT ![c] = r],
         published' = published,
         cache' \in [metadata : Bytes, checked : BOOLEAN, artifact : Bytes],
         client[c].at \in Holding \/ (lock' = lock /\ cache'.metadata = cache.metadata)
           \/ (lock = NoRelease /\ cache'.metadata = cache.metadata),
         r.at \in Holding => lock' = c,
         r.at = "comparing" => r.fetched \in Nat \ {Unsigned} /\ r.cached = cache'.metadata,
         r.at \in {"verifying", "storing"} => r.fetched \in Nat
  PROVE  CacheInv'
<1> USE DEF CacheInv
<1>1. /\ client'[c] = r
      /\ \A d \in Clients : d # c => client'[d] = client[d]
  BY DEF CacheTyped
<1>2. CacheTyped'
  BY DEF CacheTyped
<1>3. \A d \in Clients : d # c /\ client[d].at \in Holding =>
        lock = d /\ client[c].at \notin Holding /\ lock # NoRelease
  BY CacheAssumption DEF LockIsHeld
<1>4. LockIsHeld'
  BY <1>1, <1>3 DEF LockIsHeld
<1>5. ComparisonIsCurrent'
  BY <1>1, <1>3 DEF ComparisonIsCurrent, Holding
<1>6. FetchedIsRead'
  BY <1>1 DEF FetchedIsRead
<1> QED
  BY <1>2, <1>4, <1>5, <1>6


-----------------------------------------------------------------------------
\* A refresh that ends, with or without a catalog, holding the lock or not.
LEMMA ReturnKeeps ==
  ASSUME CacheInv, NEW c \in Clients, NEW catalog \in Bytes, NEW stale \in BOOLEAN,
         Returns(c, catalog, stale), published' = published,
         cache' \in [metadata : Bytes, checked : BOOLEAN, artifact : Bytes],
         cache'.metadata = cache.metadata,
         (client[c].at \in Holding /\ Unlock) \/ UNCHANGED lock
  PROVE  CacheInv'
<1> DEFINE r == [Fresh(client[c].runs) EXCEPT !.catalog = catalog, !.stale = stale]
<1>1. client[c].runs \in Nat
  BY DEF CacheInv, CacheTyped, Refresh, Places
<1>2. Fresh(client[c].runs) \in Refresh /\ Fresh(client[c].runs).at = "idle"
  BY <1>1, FreshIsRefresh
<1>3. client' = [client EXCEPT ![c] = r]
  BY DEF Returns
<1>4. r \in Refresh /\ r.at = "idle"
  BY <1>2 DEF Refresh
<1> HIDE DEF r
<1> QED
  BY <1>3, <1>4, RefreshStep DEF Holding

\* A refresh that only moves on, to a place where nothing new is claimed.
LEMMA StepKeeps ==
  ASSUME CacheInv, NEW c \in Clients, NEW at \in {"idle", "due", "locked", "fetching", "using"},
         Step(c, at), published' = published,
         cache' \in [metadata : Bytes, checked : BOOLEAN, artifact : Bytes],
         cache'.metadata = cache.metadata,
         lock' = lock \/ lock = NoRelease,
         at \in Holding => lock' = c
  PROVE  CacheInv'
<1> DEFINE r == [client[c] EXCEPT !.at = at]
<1>1. r \in Refresh /\ r.at = at
  BY DEF CacheInv, CacheTyped, Refresh, Places
<1>2. client' = [client EXCEPT ![c] = r]
  BY DEF Step
<1> HIDE DEF r
<1> QED
  BY <1>1, <1>2, RefreshStep

LEMMA CacheKept == CacheInv =>
  cache \in [metadata : Bytes, checked : BOOLEAN, artifact : Bytes] /\ Loaded \in Bytes
BY DEF CacheInv, CacheTyped, Loaded

LEMMA BeginKeeps == ASSUME CacheInv, NEW c \in Clients, Begin(c) PROVE CacheInv'
<1> PICK forced \in BOOLEAN :
      client' = [client EXCEPT ![c] = [Fresh(@.runs + 1) EXCEPT !.at = "due", !.forced = forced]]
  BY DEF Begin
<1> DEFINE r == [Fresh(client[c].runs + 1) EXCEPT !.at = "due", !.forced = forced]
<1>1. client[c].runs + 1 \in Nat
  BY DEF CacheInv, CacheTyped, Refresh, Places
<1>2. Fresh(client[c].runs + 1) \in Refresh
  BY <1>1, FreshIsRefresh
<1>3. client' = [client EXCEPT ![c] = r]
  OBVIOUS
<1>5. r \in Refresh /\ r.at = "due"
  BY <1>2 DEF Refresh, Places
<1>4. UNCHANGED <<published, cache, lock>>
  BY DEF Begin
<1> HIDE DEF r
<1> QED
  BY <1>3, <1>4, <1>5, CacheKept, RefreshStep DEF Holding

LEMMA LockKeeps == ASSUME CacheInv, NEW c \in Clients, Lock(c) \/ NotDue(c) \/ Recheck(c) PROVE CacheInv'
<1>1. CASE Lock(c)
  BY <1>1, CacheKept, StepKeeps DEF Lock
<1>2. CASE NotDue(c)
  BY <1>2, CacheKept, ReturnKeeps DEF NotDue
<1>3. CASE Recheck(c) /\ refresh_due(c)
  <2>1. client[c].at = "locked" /\ Step(c, "fetching") /\ UNCHANGED <<published, cache, lock>>
    BY <1>3 DEF Recheck
  <2>2. lock = c
    BY <2>1 DEF CacheInv, LockIsHeld, Holding
  <2> QED
    BY <2>1, <2>2, CacheKept, StepKeeps
<1>4. CASE Recheck(c) /\ ~refresh_due(c)
  BY <1>4, CacheKept, ReturnKeeps DEF Recheck, Holding
<1> QED
  BY <1>1, <1>2, <1>3, <1>4

LEMMA FailsKeeps ==
  ASSUME CacheInv, NEW c \in Clients, client[c].at \in Holding, Fails(c) PROVE CacheInv'
BY CacheKept, ReturnKeeps DEF Fails

LEMMA FetchKeeps == ASSUME CacheInv, NEW c \in Clients, Fetch(c) \/ FetchFails(c) PROVE CacheInv'
<1>1. CASE Fetch(c)
  <2> PICK bytes \in 1..published \cup {Unsigned} :
        client' = [client EXCEPT ![c].fetched = bytes, ![c].at = "verifying"]
    BY <1>1 DEF Fetch
  <2> DEFINE r == [client[c] EXCEPT !.fetched = bytes, !.at = "verifying"]
  <2>0. bytes \in Nat
    BY DEF CacheInv, CacheTyped, Unsigned
  <2>1. r \in Refresh /\ r.at = "verifying" /\ r.fetched = bytes
    BY <2>0 DEF CacheInv, CacheTyped, Refresh, Bytes, Places
  <2>2. client' = [client EXCEPT ![c] = r]
    BY DEF CacheInv, CacheTyped
  <2>3. client[c].at = "fetching" /\ UNCHANGED <<published, cache, lock>>
    BY <1>1 DEF Fetch
  <2>4. lock = c
    BY <2>3 DEF CacheInv, LockIsHeld, Holding
  <2> HIDE DEF r
  <2> QED
    BY <2>0, <2>1, <2>2, <2>3, <2>4, CacheKept, RefreshStep
<1>2. CASE FetchFails(c)
  BY <1>2, FailsKeeps DEF FetchFails, Holding
<1> QED
  BY <1>1, <1>2

LEMMA VerifyMetadataKeeps == ASSUME CacheInv, NEW c \in Clients, VerifyMetadata(c) PROVE CacheInv'
<1>0. client[c].at = "verifying" /\ client[c].fetched \in Nat /\ lock = c
  BY DEF VerifyMetadata, CacheInv, FetchedIsRead, LockIsHeld, Holding
<1>1. CASE verify_signed_manifest(client[c].fetched)
  <2> DEFINE r == [client[c] EXCEPT !.at = "comparing", !.cached = Loaded]
  <2>1. /\ client' = [client EXCEPT ![c].at = "comparing", ![c].cached = Loaded]
        /\ UNCHANGED <<published, cache, lock>>
    BY <1>1 DEF VerifyMetadata
  <2>2. r \in Refresh /\ r.at = "comparing" /\ r.fetched = client[c].fetched /\ r.cached = cache.metadata
    BY CacheKept DEF CacheInv, CacheTyped, Refresh, Loaded, Places
  <2>3. client' = [client EXCEPT ![c] = r]
    BY <2>1 DEF CacheInv, CacheTyped
  <2>4. client[c].fetched \in Nat \ {Unsigned}
    BY <1>0, <1>1 DEF verify_signed_manifest
  <2> HIDE DEF r
  <2> QED
    BY <1>0, <2>1, <2>2, <2>3, <2>4, CacheKept, RefreshStep DEF Holding
<1>2. CASE ~verify_signed_manifest(client[c].fetched)
  BY <1>0, <1>2, FailsKeeps DEF VerifyMetadata, Holding
<1> QED
  BY <1>1, <1>2

\* What Store writes is signed and no older than the file it replaces.
LEMMA StoreReplaces ==
  ASSUME CacheInv, NEW c \in Clients, Store(c)
  PROVE  \/ Fails(c)
         \/ /\ client[c].fetched \in Nat \ {Unsigned}
            /\ cache.metadata # NoRelease => client[c].fetched >= cache.metadata
            /\ cache' = [cache EXCEPT !.metadata = client[c].fetched]
            /\ Step(c, "storing") /\ UNCHANGED <<published, lock>>
<1>1. client[c].at = "comparing"
  BY DEF Store
<1>2. client[c].fetched \in Nat \ {Unsigned} /\ client[c].cached = cache.metadata
  BY <1>1 DEF CacheInv, ComparisonIsCurrent
<1>3. cache.metadata # NoRelease => cache.metadata \in Nat
  BY DEF CacheInv, CacheTyped, Bytes
<1> QED
  BY <1>1, <1>2, <1>3 DEF Store

LEMMA StoreKeeps == ASSUME CacheInv, NEW c \in Clients, Store(c) PROVE CacheInv'
<1>0. client[c].at = "comparing" /\ client[c].at \in Holding /\ lock = c
  BY DEF Store, CacheInv, LockIsHeld, Holding
<1>1. CASE Fails(c)
  BY <1>0, <1>1, FailsKeeps
<1>2. CASE /\ client[c].fetched \in Nat \ {Unsigned}
           /\ cache' = [cache EXCEPT !.metadata = client[c].fetched]
           /\ Step(c, "storing") /\ UNCHANGED <<published, lock>>
  <2> DEFINE r == [client[c] EXCEPT !.at = "storing"]
  <2>1. r \in Refresh /\ r.at = "storing" /\ r.fetched = client[c].fetched
    BY DEF CacheInv, CacheTyped, Refresh, Places
  <2>2. client' = [client EXCEPT ![c] = r]
    BY <1>2 DEF Step
  <2>3. cache' \in [metadata : Bytes, checked : BOOLEAN, artifact : Bytes]
    BY <1>2, CacheKept DEF Bytes
  <2> HIDE DEF r
  <2> QED
    BY <1>0, <1>2, <2>1, <2>2, <2>3, RefreshStep
<1> QED
  BY <1>1, <1>2, StoreReplaces

LEMMA MarkKeeps == ASSUME CacheInv, NEW c \in Clients, Mark(c) PROVE CacheInv'
<1>0. client[c].at = "storing" /\ client[c].at \in Holding
  BY DEF Mark, Holding
<1>1. PICK marked \in {cache.checked, TRUE} : cache' = [cache EXCEPT !.checked = marked]
  BY DEF Mark
<1>2. marked \in BOOLEAN
  BY DEF CacheInv, CacheTyped
<1>3. cache' \in [metadata : Bytes, checked : BOOLEAN, artifact : Bytes] /\ cache'.metadata = cache.metadata
  BY <1>1, <1>2 DEF CacheInv, CacheTyped
<1>4. client[c].fetched \in Bytes
  BY DEF CacheInv, CacheTyped, Refresh, Places
<1>5. Returns(c, client[c].fetched, FALSE) /\ Unlock /\ UNCHANGED published
  BY DEF Mark
<1> QED
  BY <1>0, <1>3, <1>4, <1>5, ReturnKeeps

LEMMA ArtifactKeeps ==
  ASSUME CacheInv, NEW c \in Clients, ensure_release_artifact(c) \/ Used(c) PROVE CacheInv'
<1> USE DEF Holding
<1>1. CASE Used(c)
  BY <1>1, CacheKept, StepKeeps DEF Used
<1>2. CASE ensure_release_artifact(c) /\ UNCHANGED cache /\ Step(c, "using")
  BY <1>2, CacheKept, StepKeeps DEF ensure_release_artifact
<1>3. CASE ensure_release_artifact(c) /\ \E bytes \in {Unsigned, client[c].catalog} :
             /\ cache' = [cache EXCEPT !.artifact = bytes]
             /\ Step(c, "using") \/ UNCHANGED client
  <2> PICK bytes \in {Unsigned, client[c].catalog} :
             /\ cache' = [cache EXCEPT !.artifact = bytes]
             /\ Step(c, "using") \/ UNCHANGED client
    BY <1>3
  <2>1. bytes \in Bytes
    BY DEF CacheInv, CacheTyped, Refresh, Bytes, Unsigned
  <2>2. cache' \in [metadata : Bytes, checked : BOOLEAN, artifact : Bytes] /\ cache'.metadata = cache.metadata
    BY <2>1 DEF CacheInv, CacheTyped
  <2>3. UNCHANGED <<published, lock>>
    BY <1>3 DEF ensure_release_artifact
  <2>4. CASE Step(c, "using")
    BY <2>2, <2>3, <2>4, StepKeeps
  <2>5. CASE UNCHANGED client
    BY <2>2, <2>3, <2>5 DEF CacheInv, CacheTyped, LockIsHeld, ComparisonIsCurrent, FetchedIsRead
  <2> QED
    BY <2>4, <2>5
<1> QED
  BY <1>1, <1>2, <1>3 DEF ensure_release_artifact

LEMMA KilledKeeps == ASSUME CacheInv, NEW c \in Clients, Killed(c) PROVE CacheInv'
<1> DEFINE r == Fresh(client[c].runs)
<1>1. client' = [client EXCEPT ![c] = r] /\ UNCHANGED <<published, cache>>
  BY DEF Killed
<1>2. client[c].runs \in Nat
  BY DEF CacheInv, CacheTyped, Refresh, Places
<1>3. r \in Refresh /\ r.at = "idle"
  BY <1>2, FreshIsRefresh DEF Refresh, Places
<1>4. lock' = IF lock = c THEN NoRelease ELSE lock
  BY DEF Killed
<1> HIDE DEF r
<1>5. /\ client'[c] = r
      /\ \A d \in Clients : d # c => client'[d] = client[d]
      /\ client' \in [Clients -> Refresh]
  BY <1>1, <1>3 DEF CacheInv, CacheTyped
<1>6. CacheTyped'
  BY <1>1, <1>5 DEF CacheInv, CacheTyped
<1>7. LockIsHeld'
  BY <1>3, <1>4, <1>5 DEF CacheInv, LockIsHeld, Holding
<1>8. ComparisonIsCurrent' /\ FetchedIsRead'
  BY <1>1, <1>3, <1>5 DEF CacheInv, ComparisonIsCurrent, FetchedIsRead
<1> QED
  BY <1>6, <1>7, <1>8 DEF CacheInv

LEMMA WorldKeeps == ASSUME CacheInv, Publish \/ Expire \/ UNCHANGED cacheVars PROVE CacheInv'
<1>1. published' \in Nat /\ UNCHANGED <<lock, client>>
  BY DEF CacheInv, CacheTyped, Publish, Expire, cacheVars
<1>2. cache' \in [metadata : Bytes, checked : BOOLEAN, artifact : Bytes] /\ cache'.metadata = cache.metadata
  BY DEF CacheInv, CacheTyped, Publish, Expire, cacheVars
<1> QED
  BY <1>1, <1>2 DEF CacheInv, CacheTyped, LockIsHeld, ComparisonIsCurrent, FetchedIsRead

LEMMA CacheKeeps == CacheInv /\ [CacheNext]_cacheVars => CacheInv'
<1> SUFFICES ASSUME CacheInv, [CacheNext]_cacheVars PROVE CacheInv'
  OBVIOUS
<1>1. ASSUME NEW c \in Clients,
             \/ Begin(c) \/ NotDue(c) \/ Lock(c) \/ Recheck(c) \/ Fetch(c) \/ FetchFails(c)
             \/ VerifyMetadata(c) \/ Store(c) \/ Mark(c)
             \/ ensure_release_artifact(c) \/ Used(c) \/ Killed(c)
      PROVE  CacheInv'
  BY <1>1, BeginKeeps, LockKeeps, FetchKeeps, VerifyMetadataKeeps, StoreKeeps, MarkKeeps, ArtifactKeeps, KilledKeeps
<1> QED
  BY <1>1, WorldKeeps DEF CacheNext

\* Only Store replaces the cached release.
LEMMA OnlyStoreReplaces ==
  ASSUME CacheInv, CacheNext, cache'.metadata # cache.metadata
  PROVE  \E c \in Clients : Store(c) /\ ~Fails(c)
<1> USE DEF CacheInv, CacheTyped
<1>1. ASSUME NEW c \in Clients,
             \/ Begin(c) \/ NotDue(c) \/ Lock(c) \/ Recheck(c) \/ Fetch(c) \/ FetchFails(c)
             \/ VerifyMetadata(c) \/ Used(c) \/ Killed(c)
      PROVE  UNCHANGED cache
  BY <1>1, Zenon DEF Begin, NotDue, Lock, Recheck, Fetch, FetchFails, VerifyMetadata, Used, Killed, Fails
<1>2. ASSUME NEW c \in Clients, Mark(c) PROVE cache'.metadata = cache.metadata
  BY <1>2 DEF Mark
<1>3. ASSUME NEW c \in Clients, ensure_release_artifact(c) PROVE cache'.metadata = cache.metadata
  BY <1>3 DEF ensure_release_artifact
<1>4. ASSUME Publish \/ Expire PROVE cache'.metadata = cache.metadata
  BY <1>4 DEF Publish, Expire
<1>5. ASSUME NEW c \in Clients, Fails(c) PROVE UNCHANGED cache
  BY <1>5 DEF Fails
<1> QED
  BY <1>1, <1>2, <1>3, <1>4, <1>5, Zenon DEF CacheNext

\* The catalog never goes back: a cached release is replaced only by a signed
\* one at least as new, because the comparison in store_manifest is made under
\* the refresh lock and with what is still in the file (ComparisonIsCurrent).
THEOREM CatalogForward == CacheSpec => CatalogNeverGoesBack
<1>1. ASSUME CacheInv, [CacheNext]_cacheVars
      PROVE  [ cache'.metadata # cache.metadata =>
                 /\ verify_signed_manifest(cache'.metadata)
                 /\ cache.metadata # NoRelease => cache'.metadata >= cache.metadata ]_cacheVars
  <2> SUFFICES ASSUME CacheNext, cache'.metadata # cache.metadata
               PROVE  /\ verify_signed_manifest(cache'.metadata)
                      /\ cache.metadata # NoRelease => cache'.metadata >= cache.metadata
    BY <1>1
  <2>1. PICK c \in Clients : Store(c) /\ ~Fails(c)
    BY <1>1, OnlyStoreReplaces
  <2>2. /\ client[c].fetched \in Nat \ {Unsigned}
        /\ cache.metadata # NoRelease => client[c].fetched >= cache.metadata
        /\ cache' = [cache EXCEPT !.metadata = client[c].fetched]
    BY <1>1, <2>1, StoreReplaces
  <2>3. cache'.metadata = client[c].fetched
    BY <1>1, <2>2 DEF CacheInv, CacheTyped
  <2> QED
    BY <2>2, <2>3 DEF verify_signed_manifest
<1> QED
  BY <1>1, CacheStarts, CacheKeeps, PTL DEF CacheSpec, CatalogNeverGoesBack

-----------------------------------------------------------------------------
(* FirmwareUpdate.                                                         *)

Recorded == [ReleaseImage EXCEPT !.install = "requested"]
Before == {"looking", "mounted", "choosing", "identifying", "requesting"}
Waiting == {"automatic", "manual", "ready"}
Proving == {"reconnecting", "asking", "recording"}
Cancelled == {"cancelled", "cancelled_in_bootloader"}
Failures == {"discovery", "newer", "timeout", "copy", "revision", "not_pending", "mismatch", "receipt"}
Stages == Before \cup Waiting \cup Proving \cup {"verifying", "over"}
Some(S) == S \cup {Nothing}
Installation ==
  [at : Stages, result : Some({"installed"} \cup Cancelled \cup Failures),
   volume : Some(Boards), device : Some(Boards), expected : Some(Boards), pre : Some(Images),
   requested : BOOLEAN, copy_failed : BOOLEAN, polls : Nat]

Seen == [at : {"away", "application", "bootloader"}, image : Images \cup {Recorded}]

FlashTyped ==
  /\ board \in [Boards -> Seen]
  /\ flash \in Installation
  /\ user \in [cancelled : BOOLEAN, touches : Nat, connected : SUBSET Boards]

\* Whatever is there, and whatever was written, has been connected.
ConnectedIsSeen ==
  /\ written \subseteq user.connected
  /\ \A b \in Boards : board[b].at # "away" => b \in user.connected
\* Who was asked was connected; a lone board that was not written is still what
\* it said it was.
PreIsCurrent ==
  /\ flash.pre # Nothing => user.connected # {}
  /\ flash.at \notin {"verifying", "over"} =>
       \A b \in Boards : user.connected = {b} /\ b \notin written =>
         flash.pre \in {Nothing, board[b].image}
\* What each stage has behind it.
StageIsOrdered ==
  /\ flash.at \in Before => ~flash.requested
  /\ flash.at \in Before \cup Waiting => written = {}
  /\ flash.at \in Proving /\ ~flash.copy_failed => written # {}
  /\ flash.at \notin {"verifying", "over"} => \A b \in Boards : board[b].image \in Images
  /\ flash.at # "over" => flash.result = Nothing
\* The board whose receipt is recorded was written, if it is the only one.
DeviceIsWritten ==
  flash.at \in {"recording", "verifying"} \/ flash.result = "installed" =>
    /\ flash.device \in user.connected
    /\ flash.device \in written \/ user.connected # {flash.device}
RecordIsReal ==
  flash.result = "installed" => board[flash.device].image = Recorded

FlashInv ==
  /\ FlashTyped /\ ConnectedIsSeen /\ PreIsCurrent /\ StageIsOrdered /\ DeviceIsWritten /\ RecordIsReal
  /\ CancelIsTruthful

-----------------------------------------------------------------------------
LEMMA StagesDiffer ==
  /\ Nothing \notin {"installed"} \cup Cancelled
  /\ Failures \cap ({"installed"} \cup Cancelled) = {}
BY FlashAssumption DEF Cancelled, Failures

LEMMA FlashStarts == FlashInit => FlashInv
<1> SUFFICES ASSUME FlashInit PROVE FlashInv
  OBVIOUS
<1>1. /\ flash.at = "looking" /\ flash.result = Nothing /\ flash.pre = Nothing
      /\ flash.requested = FALSE /\ written = {}
  BY Zenon DEF FlashInit
<1>2. flash \in Installation
  <2>1. /\ "looking" \in Stages /\ Nothing \in Some({"installed"} \cup Cancelled \cup Failures)
        /\ Nothing \in Some(Boards) /\ Nothing \in Some(Images) /\ FALSE \in BOOLEAN /\ 0 \in Nat
    BY DEF Stages, Before, Some
  <2> QED
    BY <2>1, Zenon DEF FlashInit, Installation
<1>3. user \in [cancelled : BOOLEAN, touches : Nat, connected : SUBSET Boards]
  <2>1. FALSE \in BOOLEAN /\ 0 \in Nat /\ (Boards \ At("away")) \in SUBSET Boards
    OBVIOUS
  <2> QED
    BY <2>1, Zenon DEF FlashInit
<1>4. board \in [Boards -> [at : {"away", "application", "bootloader"}, image : Images]]
  BY DEF FlashInit
<1>5. user.connected = Boards \ At("away")
  BY Zenon DEF FlashInit
<1>6. FlashTyped
  BY <1>2, <1>3, <1>4 DEF FlashTyped, Seen
<1>7. ConnectedIsSeen
  BY <1>1, <1>4, <1>5 DEF ConnectedIsSeen, At
<1> QED
  BY <1>1, <1>4, <1>6, <1>7, StagesDiffer
  DEF FlashInv, PreIsCurrent, StageIsOrdered, DeviceIsWritten, RecordIsReal, CancelIsTruthful,
      Before, Waiting, Proving, Cancelled

\* The boards may have moved, but run what they ran.
SameImages ==
  /\ board' \in [Boards -> Seen]
  /\ \A b \in Boards : board'[b].image = board[b].image
  /\ \A b \in Boards : board'[b].at # "away" => b \in user'.connected

\* A step of the installation that only learns something and moves on.
LEMMA FlashStep ==
  ASSUME FlashInv, NEW f \in Installation, flash' = f, SameImages, UNCHANGED <<written, user>>,
         flash.at \notin {"verifying", "over"}, f.at # "verifying",
         \/ f.pre \in {flash.pre, Nothing}
         \/ \E b \in Boards : board[b].at # "away" /\ f.pre = board[b].image,
         f.at \in Before => ~f.requested,
         f.at \in Before \cup Waiting => flash.at \in Before \cup Waiting,
         f.at \in Proving => flash.at \in Proving /\ f.copy_failed = flash.copy_failed,
         f.at # "over" => f.result = Nothing,
         f.result # "installed",
         f.at = "recording" =>
            /\ f.device \in user.connected
            /\ f.device \in written \/ user.connected # {f.device},
         f.result = "cancelled" => ~f.requested,
         f.result \in Cancelled => written = {}
  PROVE  FlashInv'
<1> USE DEF FlashInv, SameImages
<1>1. FlashTyped' /\ ConnectedIsSeen'
  BY DEF FlashTyped, ConnectedIsSeen
<1>2. PreIsCurrent'
  BY DEF PreIsCurrent, ConnectedIsSeen
<1>3. StageIsOrdered'
  BY DEF StageIsOrdered
<1>4. DeviceIsWritten' /\ RecordIsReal'
  BY DEF DeviceIsWritten, RecordIsReal
<1>5. CancelIsTruthful'
  BY DEF CancelIsTruthful, Cancelled
<1> QED
  BY <1>1, <1>2, <1>3, <1>4, <1>5

LEMMA BoardsStay == FlashInv /\ UNCHANGED <<board, user>> => SameImages
BY DEF FlashInv, FlashTyped, ConnectedIsSeen, SameImages

LEMMA EndsKeeps ==
  ASSUME FlashInv, NEW result \in Cancelled \cup Failures, Ends(result), UNCHANGED <<board, written, user>>,
         flash.at \notin {"verifying", "over"},
         result = "cancelled" => ~flash.requested,
         result \in Cancelled => written = {}
  PROVE  FlashInv'
<1> DEFINE f == [flash EXCEPT !.at = "over", !.result = result]
<1>1. /\ f \in Installation /\ f.at = "over" /\ f.pre = flash.pre /\ f.result = result
      /\ f.requested = flash.requested
  BY DEF FlashInv, FlashTyped, Installation, Some, Stages
<1>2. flash' = f
  BY DEF Ends
<1>3. result # "installed"
  BY StagesDiffer DEF Cancelled
<1> HIDE DEF f
<1> QED
  BY <1>1, <1>2, <1>3, BoardsStay, FlashStep DEF Before, Waiting, Proving

\* A move to an earlier or equal kind of stage, with what was learned there.
LEMMA GoesKeeps ==
  ASSUME FlashInv, NEW g \in Installation, NEW at \in Before \cup Waiting,
         flash' = [g EXCEPT !.at = at, !.polls = 0], UNCHANGED <<board, written, user>>,
         flash.at \in Before \cup Waiting,
         g.result = flash.result,
         \/ g.pre \in {flash.pre, Nothing}
         \/ \E b \in Boards : board[b].at # "away" /\ g.pre = board[b].image,
         at \in Before => ~g.requested
  PROVE  FlashInv'
<1> DEFINE f == [g EXCEPT !.at = at, !.polls = 0]
<1>1. /\ f \in Installation /\ f.at = at /\ f.pre = g.pre /\ f.result = g.result
      /\ f.requested = g.requested
  BY DEF Installation, Stages
<1>2. flash' = f
  OBVIOUS
<1>3. flash.at \notin {"verifying", "over"} /\ at \notin {"verifying", "over", "recording"} /\ at \notin Proving
  BY DEF Before, Waiting, Proving
<1>4. flash.result = Nothing
  BY <1>3 DEF FlashInv, StageIsOrdered
<1>5. /\ f.pre \in {flash.pre, Nothing} \/ \E b \in Boards : board[b].at # "away" /\ f.pre = board[b].image
      /\ f.at \in Before => ~f.requested
      /\ f.at \notin Proving /\ f.at \notin {"verifying", "recording"}
  BY <1>1, <1>3
<1>6. f.result = Nothing /\ f.result # "installed" /\ f.result # "cancelled" /\ f.result \notin Cancelled
  BY <1>1, <1>4, StagesDiffer DEF Cancelled
<1> HIDE DEF f
<1> QED
  BY <1>1, <1>2, <1>3, <1>5, <1>6, BoardsStay, FlashStep

-----------------------------------------------------------------------------
LEMMA WhereBoardsAre ==
  /\ \A w \in STRING : At(w) \subseteq Boards
  /\ Volumes \subseteq Boards /\ At("application") \subseteq Boards
  /\ \A b \in At("application") : board[b].at = "application"
  /\ \A d \in DeviceLists : d \subseteq Boards
  /\ \A d \in DeviceLists : \A b \in d : board[b].at # "away"
BY DEF At, Volumes, DeviceLists

LEMMA LookKeeps == ASSUME FlashInv, Look PROVE FlashInv'
<1>0. /\ flash.at = "looking" /\ flash.at \notin {"verifying", "over"} /\ flash.at \in Before \cup Waiting
      /\ UNCHANGED <<board, written, user>>
  BY DEF Look, Before
<1>1. ~flash.requested /\ written = {} /\ flash \in Installation
  BY <1>0 DEF FlashInv, FlashTyped, StageIsOrdered, Before
<1>2. CASE Ends("cancelled") \/ Ends("discovery")
  BY <1>0, <1>1, <1>2, EndsKeeps DEF Cancelled, Failures
<1>3. CASE \E b \in Volumes : Volumes = {b} /\ Goes("mounted", LAMBDA f : [f EXCEPT !.volume = b])
  <2> PICK b \in Volumes : Goes("mounted", LAMBDA f : [f EXCEPT !.volume = b])
    BY <1>3
  <2> DEFINE g == [flash EXCEPT !.volume = b]
  <2>1. g \in Installation /\ g.result = flash.result /\ g.pre = flash.pre /\ g.requested = flash.requested
    BY <1>1, WhereBoardsAre DEF Installation, Some
  <2>2. flash' = [g EXCEPT !.at = "mounted", !.polls = 0]
    BY DEF Goes
  <2> HIDE DEF g
  <2> QED
    BY <1>0, <1>1, <2>1, <2>2, GoesKeeps DEF Before
<1>4. CASE Goes("choosing", Same)
  <2>1. flash' = [flash EXCEPT !.at = "choosing", !.polls = 0]
    BY <1>4 DEF Goes, Same
  <2> QED
    BY <1>0, <1>1, <2>1, GoesKeeps DEF Before
<1> QED
  BY <1>2, <1>3, <1>4 DEF Look

LEMMA MountedKeeps == ASSUME FlashInv, Mounted PROVE FlashInv'
<1>0. /\ flash.at = "mounted" /\ flash.at \notin {"verifying", "over"} /\ flash.at \in Before \cup Waiting
      /\ UNCHANGED <<board, written, user>>
  BY DEF Mounted, Before
<1>1. flash \in Installation
  BY <1>0 DEF FlashInv, FlashTyped
<1>2. CASE Ends("discovery")
  BY <1>0, <1>1, <1>2, EndsKeeps, StagesDiffer DEF Cancelled, Failures
<1>3. ASSUME NEW serial \in Some(Boards), Goes("ready", LAMBDA f : [f EXCEPT !.expected = serial])
      PROVE  FlashInv'
  <2> DEFINE g == [flash EXCEPT !.expected = serial]
  <2>1. g \in Installation /\ g.result = flash.result /\ g.pre = flash.pre /\ g.requested = flash.requested
    BY <1>1 DEF Installation
  <2>2. flash' = [g EXCEPT !.at = "ready", !.polls = 0]
    BY <1>3 DEF Goes
  <2>3. "ready" \in Waiting /\ "ready" \notin Before
    BY DEF Before, Waiting
  <2> HIDE DEF g
  <2> QED
    BY <1>0, <2>1, <2>2, <2>3, GoesKeeps
<1>4. PICK devices \in DeviceLists :
        \/ Ends("discovery")
        \/ \E serial \in IF devices = {} THEN {Nothing} ELSE devices :
             Goes("ready", LAMBDA f : [f EXCEPT !.expected = serial])
  BY Zenon DEF Mounted
<1>5. (IF devices = {} THEN {Nothing} ELSE devices) \subseteq Some(Boards)
  BY WhereBoardsAre DEF Some
<1> QED
  BY <1>2, <1>3, <1>4, <1>5, Zenon

LEMMA ChooseKeeps == ASSUME FlashInv, Choose PROVE FlashInv'
<1>0. /\ flash.at = "choosing" /\ flash.at \notin {"verifying", "over"} /\ flash.at \in Before \cup Waiting
      /\ UNCHANGED <<board, written, user>>
  BY DEF Choose, Before
<1>1. flash \in Installation /\ ~flash.requested /\ flash.pre \in Some(Images)
  BY <1>0 DEF FlashInv, FlashTyped, Installation, StageIsOrdered, Before
<1>2. CASE Ends("discovery")
  BY <1>0, <1>1, <1>2, EndsKeeps, StagesDiffer DEF Cancelled, Failures
<1>3. ASSUME NEW b \in Boards, Goes("identifying", LAMBDA f : [f EXCEPT !.device = b])
      PROVE  FlashInv'
  <2> DEFINE g == [flash EXCEPT !.device = b]
  <2>1. g \in Installation /\ g.result = flash.result /\ g.pre = flash.pre /\ g.requested = flash.requested
    BY <1>1 DEF Installation, Some
  <2>2. flash' = [g EXCEPT !.at = "identifying", !.polls = 0]
    BY <1>3 DEF Goes
  <2> HIDE DEF g
  <2> QED
    BY <1>0, <1>1, <2>1, <2>2, GoesKeeps DEF Before
<1>4. ASSUME NEW b \in Boards, board[b].at # "away",
             ~(board[b].at = "application" /\ board[b].image # Factory),
             Goes("manual", LAMBDA f : [f EXCEPT
                     !.expected = b, !.pre = IF board[b].at = "application" THEN Factory ELSE Nothing])
      PROVE  FlashInv'
  <2> DEFINE pre == IF board[b].at = "application" THEN Factory ELSE Nothing
             g == [flash EXCEPT !.expected = b, !.pre = pre]
  <2>0. pre \in Some(Images) /\ (pre = Nothing \/ pre = board[b].image)
    BY <1>4 DEF Some, Images
  <2>1. g \in Installation /\ g.result = flash.result /\ g.pre = pre /\ g.requested = flash.requested
    BY <1>1, <2>0 DEF Installation, Some
  <2>2. flash' = [g EXCEPT !.at = "manual", !.polls = 0]
    BY <1>4 DEF Goes
  <2> HIDE DEF g, pre
  <2> QED
    BY <1>0, <1>1, <1>4, <2>0, <2>1, <2>2, GoesKeeps DEF Waiting
<1> QED
  BY <1>2, <1>3, <1>4, WhereBoardsAre DEF Choose

LEMMA IdentifyKeeps == ASSUME FlashInv, Identify PROVE FlashInv'
<1> DEFINE d == flash.device
           image == board[flash.device].image
<1>0. /\ flash.at = "identifying" /\ flash.at \notin {"verifying", "over"} /\ flash.at \in Before \cup Waiting
      /\ UNCHANGED <<board, written, user>>
  BY DEF Identify, Before
<1>1. flash \in Installation /\ ~flash.requested /\ written = {}
  BY <1>0 DEF FlashInv, FlashTyped, StageIsOrdered, Before
<1>2. CASE Ends("discovery")
  BY <1>0, <1>1, <1>2, EndsKeeps DEF Cancelled, Failures
<1>3. CASE /\ d \in At("application")
           /\ \/ \E at \in {"manual", "requesting"}, expected \in {flash.expected, d} :
                   flash' = [[flash EXCEPT !.pre = image, !.expected = expected] EXCEPT !.at = at, !.polls = 0]
              \/ flash' = [[flash EXCEPT !.pre = image] EXCEPT !.at = "over", !.result = "newer"]
  <2>1. d \in Boards /\ board[d].at # "away" /\ image \in Images
    BY <1>0, <1>3, WhereBoardsAre DEF FlashInv, StageIsOrdered
  <2>2. ASSUME NEW at \in {"manual", "requesting"}, NEW expected \in {flash.expected, d},
               flash' = [[flash EXCEPT !.pre = image, !.expected = expected] EXCEPT !.at = at, !.polls = 0]
        PROVE  FlashInv'
    <3> DEFINE g == [flash EXCEPT !.pre = image, !.expected = expected]
    <3>1. g \in Installation /\ g.result = flash.result /\ g.pre = image /\ g.requested = flash.requested
      BY <1>1, <2>1 DEF Installation, Some
    <3>2. at \in Before \cup Waiting
      BY DEF Before, Waiting
    <3>3. flash' = [g EXCEPT !.at = at, !.polls = 0]
      BY <2>2
    <3> HIDE DEF g
    <3> QED
      BY <1>0, <1>1, <2>1, <3>1, <3>2, <3>3, GoesKeeps
  <2>3. CASE flash' = [[flash EXCEPT !.pre = image] EXCEPT !.at = "over", !.result = "newer"]
    <3> DEFINE f == [[flash EXCEPT !.pre = image] EXCEPT !.at = "over", !.result = "newer"]
    <3>1. /\ f \in Installation /\ f.at = "over" /\ f.pre = image /\ f.result = "newer"
          /\ f.requested = flash.requested
      BY <1>1, <2>1 DEF Installation, Some, Stages, Failures
    <3>2. f.at \notin Before \cup Waiting \cup Proving /\ f.result \notin Cancelled
      BY <3>1 DEF Before, Waiting, Proving, Cancelled
    <3>3. flash' = f
      BY <2>3
    <3> HIDE DEF f
    <3> QED
      BY <1>0, <1>1, <2>1, <3>1, <3>2, <3>3, BoardsStay, FlashStep
  <2> QED
    BY <1>3, <2>2, <2>3
<1>4. ASSUME d \in At("application"), ~Ends("discovery") PROVE
        \/ \E at \in {"manual", "requesting"}, expected \in {flash.expected, d} :
             flash' = [[flash EXCEPT !.pre = image, !.expected = expected] EXCEPT !.at = at, !.polls = 0]
        \/ flash' = [[flash EXCEPT !.pre = image] EXCEPT !.at = "over", !.result = "newer"]
  <2>1. [flash EXCEPT !.pre = image] = [flash EXCEPT !.pre = image, !.expected = flash.expected]
    BY <1>1 DEF Installation
  <2>2. CASE Goes("manual", LAMBDA f : [f EXCEPT !.pre = image])
    <3>1. flash' = [[flash EXCEPT !.pre = image, !.expected = flash.expected] EXCEPT !.at = "manual", !.polls = 0]
      BY <2>1, <2>2, Zenon DEF Goes
    <3> QED
      BY <3>1, Zenon
  <2>3. CASE flash' = [[flash EXCEPT !.pre = image] EXCEPT !.at = "over", !.result = "newer"]
    BY <2>3
  <2>4. CASE Goes(IF image.automatic THEN "requesting" ELSE "manual",
                  LAMBDA f : [[f EXCEPT !.pre = image] EXCEPT !.expected = flash.device])
    <3>1. PICK at \in {"manual", "requesting"} :
            flash' = [[[flash EXCEPT !.pre = image] EXCEPT !.expected = d] EXCEPT !.at = at, !.polls = 0]
      BY <2>4, Zenon DEF Goes
    <3> QED
      BY <3>1, Zenon
  <2> QED
    BY <1>4, <2>2, <2>3, <2>4, Zenon DEF Identify
<1> QED
  BY <1>2, <1>3, <1>4, Zenon DEF Identify

LEMMA RequestKeeps == ASSUME FlashInv, RequestBootloader PROVE FlashInv'
<1> DEFINE d == flash.device
<1>0. /\ flash.at = "requesting" /\ flash.at \notin {"verifying", "over"} /\ flash.at \in Before \cup Waiting
      /\ UNCHANGED <<written, user>>
  BY DEF RequestBootloader, Before
<1>1. flash \in Installation /\ ~flash.requested /\ written = {} /\ flash.result = Nothing
  BY <1>0 DEF FlashInv, FlashTyped, StageIsOrdered, Before
<1>2. CASE Ends("cancelled") /\ UNCHANGED board
  BY <1>0, <1>1, <1>2, EndsKeeps DEF Cancelled, Failures
<1>3. ASSUME NEW obeys \in {b \in BOOLEAN : b => flash.device \in At("application")},
             NEW at \in {"automatic", "manual"},
             board' = IF obeys THEN [board EXCEPT ![flash.device].at = "bootloader"] ELSE board,
             Goes(at, LAMBDA f : [f EXCEPT !.requested = TRUE])
      PROVE  FlashInv'
  <2> DEFINE f == [[flash EXCEPT !.requested = TRUE] EXCEPT !.at = at, !.polls = 0]
  <2>1. f \in Installation /\ f.at = at /\ f.result = Nothing /\ f.pre = flash.pre
    BY <1>1 DEF Installation, Stages, Waiting
  <2>2. flash' = f
    BY <1>3 DEF Goes
  <2>3. /\ f.at \in Waiting /\ f.at \notin Before \cup Proving \cup {"verifying", "over", "recording"}
        /\ f.result \notin Cancelled \cup {"installed", "cancelled"}
    BY <2>1, StagesDiffer DEF Before, Waiting, Proving, Cancelled
  <2>4. SameImages
    <3>1. CASE board' = board
      BY <1>0, <3>1, BoardsStay
    <3>2. CASE d \in At("application") /\ board' = [board EXCEPT ![d].at = "bootloader"]
      <4>1. d \in Boards /\ d \in user.connected
        BY <3>2, WhereBoardsAre DEF FlashInv, ConnectedIsSeen
      <4>2. board \in [Boards -> Seen]
        BY DEF FlashInv, FlashTyped
      <4>3. [board[d] EXCEPT !.at = "bootloader"] \in Seen
        BY <4>1, <4>2 DEF Seen
      <4>4. board' \in [Boards -> Seen]
        BY <3>2, <4>1, <4>2, <4>3
      <4>5. \A b \in Boards : board'[b].image = board[b].image /\ (b # d => board'[b] = board[b])
        BY <3>2, <4>1, <4>2 DEF Seen
      <4> QED
        BY <1>0, <4>1, <4>4, <4>5 DEF SameImages, FlashInv, ConnectedIsSeen
    <3> QED
      BY <1>3, <3>1, <3>2
  <2> HIDE DEF f
  <2> QED
    BY <1>0, <1>1, <2>1, <2>2, <2>3, <2>4, FlashStep
<1>4. ASSUME ~(Ends("cancelled") /\ UNCHANGED board)
      PROVE \E obeys \in {b \in BOOLEAN : b => flash.device \in At("application")},
               at \in {"automatic", "manual"} :
             /\ board' = IF obeys THEN [board EXCEPT ![flash.device].at = "bootloader"] ELSE board
             /\ Goes(at, LAMBDA f : [f EXCEPT !.requested = TRUE])
  <2>1. PICK obeys \in {b \in BOOLEAN : b => flash.device \in At("application")} :
           /\ board' = IF obeys THEN [board EXCEPT ![flash.device].at = "bootloader"] ELSE board
           /\ \E answered \in {a \in BOOLEAN : a => obeys} :
                Goes(IF answered THEN "automatic" ELSE "manual", LAMBDA f : [f EXCEPT !.requested = TRUE])
    BY <1>4, Zenon DEF RequestBootloader
  <2>2. \E at \in {"automatic", "manual"} : Goes(at, LAMBDA f : [f EXCEPT !.requested = TRUE])
    BY <2>1, Zenon DEF Goes
  <2> QED
    BY <2>1, <2>2, Zenon
<1> QED
  BY <1>2, <1>3, <1>4, Zenon

LEMMA WaitKeeps ==
  ASSUME FlashInv, NEW at \in {"automatic", "manual"}, NEW entered \in {TRUE, flash.requested}, flash.at = at,
         \/ Ends(CancelResult(entered)) \/ Ends("discovery") \/ Ends("timeout")
         \/ \E b \in Volumes : Goes("ready", LAMBDA f : [f EXCEPT !.volume = b])
         \/ flash' = [flash EXCEPT !.polls = @ + 1]
         \/ Goes("manual", Same),
         UNCHANGED <<board, written, user>>
  PROVE  FlashInv'
<1>0. flash.at \notin {"verifying", "over"} /\ flash.at \in Before \cup Waiting
  BY DEF Waiting
<1>1. flash \in Installation /\ written = {} /\ flash.result = Nothing
  BY <1>0 DEF FlashInv, FlashTyped, StageIsOrdered, Before
<1>2. CASE Ends(CancelResult(entered))
  BY <1>0, <1>1, <1>2, EndsKeeps DEF CancelResult, Cancelled
<1>3. CASE Ends("discovery") \/ Ends("timeout")
  BY <1>0, <1>1, <1>3, EndsKeeps DEF Cancelled, Failures
<1>4. CASE \E b \in Volumes : Goes("ready", LAMBDA f : [f EXCEPT !.volume = b])
  <2> PICK b \in Volumes : Goes("ready", LAMBDA f : [f EXCEPT !.volume = b])
    BY <1>4
  <2> DEFINE g == [flash EXCEPT !.volume = b]
  <2>1. g \in Installation /\ g.result = flash.result /\ g.pre = flash.pre /\ g.requested = flash.requested
    BY <1>1, WhereBoardsAre DEF Installation, Some
  <2>2. flash' = [g EXCEPT !.at = "ready", !.polls = 0]
    BY DEF Goes
  <2>3. "ready" \in Waiting /\ "ready" \notin Before
    BY DEF Before, Waiting
  <2> HIDE DEF g
  <2> QED
    BY <1>0, <1>1, <2>1, <2>2, <2>3, GoesKeeps
<1>5. CASE flash' = [flash EXCEPT !.polls = @ + 1]
  <2> DEFINE f == [flash EXCEPT !.polls = @ + 1]
  <2>1. /\ f \in Installation /\ f.at = flash.at /\ f.result = Nothing /\ f.pre = flash.pre
        /\ f.requested = flash.requested
    BY <1>1 DEF Installation
  <2>3. /\ f.at \in Waiting /\ f.at \notin Before \cup Proving \cup {"verifying", "over", "recording"}
        /\ f.result \notin Cancelled \cup {"installed", "cancelled"}
    BY <2>1, StagesDiffer DEF Before, Waiting, Proving, Cancelled
  <2> HIDE DEF f
  <2> QED
    BY <1>0, <1>1, <1>5, <2>1, <2>3, BoardsStay, FlashStep DEF f
<1>6. CASE Goes("manual", Same)
  <2>1. flash' = [flash EXCEPT !.at = "manual", !.polls = 0]
    BY <1>6 DEF Goes, Same
  <2>2. "manual" \in Waiting /\ "manual" \notin Before
    BY DEF Before, Waiting
  <2> QED
    BY <1>0, <1>1, <2>1, <2>2, GoesKeeps
<1> QED
  BY <1>2, <1>3, <1>4, <1>5, <1>6

LEMMA AwaitKeeps == ASSUME FlashInv, AwaitAutomatic \/ AwaitManual PROVE FlashInv'
<1>1. CASE AwaitAutomatic
  BY <1>1, WaitKeeps DEF AwaitAutomatic, wait_for_volume
<1>2. CASE AwaitManual
  BY <1>2, WaitKeeps DEF AwaitManual, wait_for_volume
<1> QED
  BY <1>1, <1>2

-----------------------------------------------------------------------------
\* The image that arrives makes its board one that was written; a copy that
\* does not arrive is known to have failed.
LEMMA WriteKeeps == ASSUME FlashInv, Write PROVE FlashInv'
<1> DEFINE v == flash.volume
           put == [at |-> "application", image |-> ReleaseImage]
<1>0. flash.at = "ready" /\ flash.at \notin {"verifying", "over"} /\ UNCHANGED user
  BY DEF Write
<1>1. flash \in Installation /\ written = {} /\ flash.result = Nothing
  BY <1>0 DEF FlashInv, FlashTyped, StageIsOrdered, Before, Waiting
<1>2. CASE Ends("cancelled_in_bootloader") /\ UNCHANGED <<board, written>>
  BY <1>0, <1>1, <1>2, EndsKeeps DEF Cancelled, Failures
<1>3. ASSUME NEW arrives \in {a \in BOOLEAN : a => flash.volume \in Volumes}, NEW failed \in BOOLEAN,
             ~arrives => failed,
             Goes("reconnecting", LAMBDA f : [f EXCEPT !.copy_failed = failed, !.device = Nothing]),
             IF arrives
             THEN /\ board' = [board EXCEPT ![v] = put]
                  /\ written' = written \cup {v}
             ELSE UNCHANGED <<board, written>>
      PROVE  FlashInv'
  <2> DEFINE g == [flash EXCEPT !.copy_failed = failed, !.device = Nothing]
             f == [g EXCEPT !.at = "reconnecting", !.polls = 0]
  <2>1. /\ f \in Installation /\ f.at = "reconnecting" /\ f.result = Nothing /\ f.pre = flash.pre
        /\ f.copy_failed = failed
    <3>1. "reconnecting" \in Stages /\ Nothing \in Some(Boards) /\ 0 \in Nat
      BY DEF Stages, Proving, Some
    <3>2. g \in Installation
      BY <1>1, <3>1, Zenon DEF Installation
    <3>3. g.pre = flash.pre /\ g.result = flash.result
      BY <1>1, Zenon DEF Installation
    <3>4. g.copy_failed = failed
      BY <1>1, Zenon DEF Installation
    <3> HIDE DEF g
    <3>5. f \in Installation
      BY <3>1, <3>2, Zenon DEF Installation
    <3>6. f.at = "reconnecting" /\ f.pre = g.pre /\ f.result = g.result
      BY <3>2, Zenon DEF Installation
    <3>7. f.copy_failed = g.copy_failed
      BY <3>2, Zenon DEF Installation
    <3> QED
      BY <1>1, <3>3, <3>4, <3>5, <3>6, <3>7, Zenon
  <2>2. flash' = f
    BY <1>3 DEF Goes
  <2>3. f.at \notin Before \cup Waiting \cup {"verifying", "over", "recording"}
    BY <2>1 DEF Before, Waiting
  <2>4. f.result \notin Cancelled \cup {"installed", "cancelled"}
    BY <2>1, StagesDiffer DEF Cancelled
  <2> HIDE DEF f, g
  <2>5. CASE UNCHANGED <<board, written>> /\ failed
    <3>1. FlashTyped' /\ ConnectedIsSeen'
      BY <1>0, <2>1, <2>2, <2>5 DEF FlashInv, FlashTyped, ConnectedIsSeen
    <3>2. PreIsCurrent'
      BY <1>0, <2>1, <2>2, <2>5 DEF FlashInv, PreIsCurrent
    <3>3. StageIsOrdered'
      BY <1>0, <2>1, <2>2, <2>3, <2>5 DEF FlashInv, StageIsOrdered
    <3> QED
      BY <2>1, <2>2, <2>3, <2>4, <3>1, <3>2, <3>3
      DEF FlashInv, DeviceIsWritten, RecordIsReal, CancelIsTruthful, Cancelled
  <2>6. CASE v \in Volumes /\ board' = [board EXCEPT ![v] = put] /\ written' = {v}
    <3>0. v \in Boards /\ v \in user.connected /\ board \in [Boards -> Seen]
      BY <2>6 DEF Volumes, At, FlashInv, FlashTyped, ConnectedIsSeen
    <3>1. ReleaseImage \in Images
      BY DEF Images
    <3>2. put \in Seen /\ put.image = ReleaseImage
      BY <3>1 DEF Seen
    <3> HIDE DEF put
    <3>3. /\ board' \in [Boards -> Seen] /\ board'[v] = put
          /\ \A b \in Boards : b # v => board'[b] = board[b]
      BY <2>6, <3>0, <3>2
    <3>4. FlashTyped' /\ ConnectedIsSeen'
      BY <1>0, <2>1, <2>2, <2>6, <3>0, <3>3 DEF FlashInv, FlashTyped, ConnectedIsSeen
    <3>5. PreIsCurrent'
      BY <1>0, <1>1, <2>1, <2>2, <2>6, <3>3 DEF FlashInv, PreIsCurrent
    <3>6. StageIsOrdered'
      BY <1>0, <2>1, <2>2, <2>3, <2>6, <3>1, <3>2, <3>3 DEF FlashInv, StageIsOrdered
    <3> QED
      BY <2>1, <2>2, <2>3, <2>4, <3>4, <3>5, <3>6
      DEF FlashInv, DeviceIsWritten, RecordIsReal, CancelIsTruthful, Cancelled
  <2>7. written \cup {v} = {v}
    BY <1>1
  <2> QED
    BY <1>3, <2>5, <2>6, <2>7
<1> QED
  BY <1>2, <1>3, Zenon DEF Write

LEMMA ReconnectKeeps == ASSUME FlashInv, Reconnect PROVE FlashInv'
<1>0. /\ flash.at = "reconnecting" /\ flash.at \notin {"verifying", "over"} /\ flash.at \in Proving
      /\ UNCHANGED <<board, written, user>>
  BY DEF Reconnect, Proving
<1>1. flash \in Installation /\ flash.result = Nothing
  BY <1>0 DEF FlashInv, FlashTyped, StageIsOrdered
<1>2. ASSUME NEW result \in {"copy", "revision", "discovery"}, Ends(result) PROVE FlashInv'
  BY <1>0, <1>1, <1>2, EndsKeeps DEF Cancelled, Failures
<1>3. ASSUME NEW at \in {"reconnecting", "asking"}, NEW device \in Some(Boards),
             flash' = [flash EXCEPT !.polls = @ + 1, !.at = at, !.device = device]
      PROVE  FlashInv'
  <2> DEFINE f == [flash EXCEPT !.polls = @ + 1, !.at = at, !.device = device]
  <2>1. /\ f \in Installation /\ f.at = at /\ f.result = Nothing /\ f.pre = flash.pre
        /\ f.copy_failed = flash.copy_failed
    <3>1. at \in Stages /\ flash.polls + 1 \in Nat
      BY <1>1 DEF Installation, Stages, Proving
    <3>2. f \in Installation
      BY <1>1, <3>1 DEF Installation
    <3>3. f.at = at /\ f.result = flash.result /\ f.pre = flash.pre /\ f.copy_failed = flash.copy_failed
      BY <1>1 DEF Installation
    <3> QED
      BY <1>1, <3>2, <3>3
  <2>2. /\ f.at \in Proving /\ f.at \notin Before \cup Waiting \cup {"verifying", "over", "recording"}
        /\ f.result \notin Cancelled \cup {"installed", "cancelled"}
    BY <2>1, StagesDiffer DEF Before, Waiting, Proving, Cancelled
  <2>3. flash' = f
    BY <1>3
  <2> HIDE DEF f
  <2> QED
    BY <1>0, <1>1, <2>1, <2>2, <2>3, BoardsStay, FlashStep
<1>4. \/ \E result \in {"copy", "revision", "discovery"} : Ends(result)
      \/ \E at \in {"reconnecting", "asking"}, device \in Some(Boards) :
            flash' = [flash EXCEPT !.polls = @ + 1, !.at = at, !.device = device]
  <2>1. CASE flash.polls >= ReconnectPolls
    BY <2>1, Zenon DEF Reconnect
  <2>2. CASE ~(flash.polls >= ReconnectPolls)
    <3>1. PICK devices \in DeviceLists \cup {{}}, matching \in SUBSET Boards :
             \/ Ends("discovery")
             \/ flash' = [flash EXCEPT !.polls = @ + 1,
                            !.at = IF matching = {} THEN "reconnecting" ELSE "asking",
                            !.device = IF matching = {} THEN Nothing ELSE CHOOSE b \in matching : TRUE]
      <4> DEFINE M(devices) == {b \in devices \cap At("application") :
                                  /\ board[b].image # Factory
                                  /\ flash.expected \in {Nothing, b}}
      <4>1. PICK devices \in DeviceLists \cup {{}} :
             \/ Ends("discovery")
             \/ flash' = [flash EXCEPT !.polls = @ + 1,
                            !.at = IF M(devices) = {} THEN "reconnecting" ELSE "asking",
                            !.device = IF M(devices) = {} THEN Nothing ELSE CHOOSE b \in M(devices) : TRUE]
        BY <2>2, Zenon DEF Reconnect
      <4>2. M(devices) \in SUBSET Boards
        BY DEF At
      <4> HIDE DEF M
      <4> QED
        BY <4>1, <4>2, Zenon
    <3> DEFINE a == IF matching = {} THEN "reconnecting" ELSE "asking"
               d == IF matching = {} THEN Nothing ELSE CHOOSE b \in matching : TRUE
    <3>2. a \in {"reconnecting", "asking"}
      OBVIOUS
    <3>3. d \in Some(Boards)
      BY DEF Some
    <3>4. Ends("discovery") \/ flash' = [flash EXCEPT !.polls = @ + 1, !.at = a, !.device = d]
      BY <3>1
    <3> HIDE DEF a, d
    <3> QED
      BY <3>2, <3>3, <3>4, Zenon
  <2> QED
    BY <2>1, <2>2
<1> QED
  BY <1>2, <1>3, <1>4, Zenon

\* A failed copy is forgiven only when what the board said of itself before
\* proves that the pending image is new: the lone board was written.
LEMMA FreshImageWasWritten ==
  ASSUME FlashInv, flash.at = "asking", NEW d \in At("application"), board[d].image = ReleaseImage,
         flash.copy_failed => proves_fresh_image(flash.pre)
  PROVE  /\ d \in user.connected
         /\ d \in written \/ user.connected # {d}
<1>1. d \in Boards /\ d \in user.connected
  BY WhereBoardsAre DEF FlashInv, ConnectedIsSeen
<1>2. SUFFICES ASSUME user.connected = {d}, d \notin written PROVE FALSE
  BY <1>1
<1>3. written = {}
  BY <1>1, <1>2 DEF FlashInv, ConnectedIsSeen
<1>4. flash.copy_failed
  BY <1>3 DEF FlashInv, StageIsOrdered, Proving
<1>5. flash.pre \in {Nothing, ReleaseImage}
  BY <1>1, <1>2 DEF FlashInv, PreIsCurrent
<1>6. /\ ReleaseImage.target = "ours" /\ ReleaseImage.revision = Release /\ ReleaseImage.install = "pending"
      /\ Factory.target = "factory"
  BY Zenon DEF ReleaseImage, Factory, Image
<1>7. ReleaseImage # Factory /\ Nothing # Factory
  BY <1>6, FlashAssumption DEF Images
<1> QED
  BY <1>4, <1>5, <1>6, <1>7 DEF proves_fresh_image, firmware_matches_target

\* Of the images of ours only the release's has a receipt to record, and only
\* the recorded one has one that was asked for.
LEMMA PendingIsRelease ==
  /\ \A image \in Images : image.install = "pending" => image = ReleaseImage
  /\ \A image \in Images : image.install # "requested"
  /\ Recorded.install = "requested"
<1>1. \A t, r, a : Image(t, r, "recorded", a).install = "recorded"
  BY Zenon DEF Image
<1>0. \A t, r, a : Image(t, r, "unsupported", a).install = "unsupported"
  BY Zenon DEF Image
<1>2. \A image \in Images : image = ReleaseImage \/ image.install \in {"unsupported", "recorded"}
  <2> TAKE image \in Images
  <2>2. \/ image = ReleaseImage
        \/ \E t, r, a : image = Image(t, r, "recorded", a)
        \/ \E t, r, a : image = Image(t, r, "unsupported", a)
    BY Zenon DEF Images, Factory
  <2>3. image = ReleaseImage \/ image.install = "recorded" \/ image.install = "unsupported"
    BY <1>0, <1>1, <2>2, Zenon
  <2> QED
    BY <2>3
<1>3. ReleaseImage.install = "pending"
  BY Zenon DEF ReleaseImage, Image
<1>4. ReleaseImage \in [target : {"ours"}, revision : {Release}, install : {"pending"}, automatic : {TRUE}]
  BY Zenon DEF ReleaseImage, Image
<1>5. Recorded.install = "requested"
  BY <1>4 DEF Recorded
<1> QED
  BY <1>2, <1>3, <1>5

LEMMA AskKeeps == ASSUME FlashInv, Ask PROVE FlashInv'
<1> DEFINE d == flash.device
           image == board[flash.device].image
<1>0. /\ flash.at = "asking" /\ flash.at \notin {"verifying", "over"} /\ flash.at \in Proving
      /\ UNCHANGED <<board, written, user>>
  BY DEF Ask, Proving
<1>1. flash \in Installation /\ flash.result = Nothing
  BY <1>0 DEF FlashInv, FlashTyped, StageIsOrdered
<1>2. ASSUME NEW result \in {"not_pending", "copy", "mismatch"}, Ends(result) PROVE FlashInv'
  BY <1>0, <1>1, <1>2, EndsKeeps DEF Cancelled, Failures
<1>3. ASSUME NEW at \in {"reconnecting", "recording"}, flash' = [flash EXCEPT !.at = at],
             at = "recording" => d \in user.connected /\ (d \in written \/ user.connected # {d})
      PROVE  FlashInv'
  <2> DEFINE f == [flash EXCEPT !.at = at]
  <2>0. at \in Proving /\ at \in Stages
    BY DEF Proving, Stages
  <2>1. /\ f \in Installation /\ f.at = at /\ f.result = Nothing /\ f.pre = flash.pre
        /\ f.copy_failed = flash.copy_failed /\ f.device = d
    BY <1>1, <2>0 DEF Installation
  <2>2. /\ f.at \notin Before \cup Waiting \cup {"verifying", "over"}
        /\ f.result \notin Cancelled \cup {"installed", "cancelled"}
    BY <2>1, StagesDiffer DEF Before, Waiting, Cancelled
  <2>3. flash' = f
    BY <1>3
  <2> HIDE DEF f
  <2> QED
    BY <1>0, <1>1, <1>3, <2>0, <2>1, <2>2, <2>3, BoardsStay, FlashStep
<1>4. \/ \E result \in {"not_pending", "copy", "mismatch"} : Ends(result)
      \/ flash' = [flash EXCEPT !.at = "reconnecting"]
      \/ /\ d \in At("application") /\ image.install = "pending"
         /\ ~(flash.copy_failed /\ ~proves_fresh_image(flash.pre))
         /\ flash' = [flash EXCEPT !.at = "recording"]
  BY Zenon DEF Ask
<1>5. ASSUME d \in At("application"), image.install = "pending",
             ~(flash.copy_failed /\ ~proves_fresh_image(flash.pre))
      PROVE  d \in user.connected /\ (d \in written \/ user.connected # {d})
  <2>1. image = ReleaseImage
    BY <1>0, <1>5, WhereBoardsAre, PendingIsRelease DEF FlashInv, StageIsOrdered
  <2> QED
    BY <1>0, <1>5, <2>1, FreshImageWasWritten
<1> QED
  BY <1>2, <1>3, <1>4, <1>5, Zenon

\* Recording the receipt changes the image of the one board it was asked of.
LEMMA RecordKeeps == ASSUME FlashInv, Record PROVE FlashInv'
<1> DEFINE d == flash.device
<1>0. /\ flash.at = "recording" /\ flash.at \notin {"verifying", "over"} /\ flash.at \in Proving
      /\ UNCHANGED <<written, user>>
  BY DEF Record, Proving
<1>1. flash \in Installation /\ flash.result = Nothing
  BY <1>0 DEF FlashInv, FlashTyped, StageIsOrdered
<1>2. PICK commits \in {c \in BOOLEAN : c => /\ d \in At("application")
                                             /\ board[d].image.install = "pending"} :
        /\ board' = IF commits THEN [board EXCEPT ![d].image.install = "requested"] ELSE board
        /\ \/ commits /\ flash' = [flash EXCEPT !.at = "verifying"]
           \/ Ends("receipt")
  BY Zenon DEF Record
<1>3. CASE ~commits
  <2>1. Ends("receipt") /\ UNCHANGED board
    BY <1>2, <1>3
  <2> QED
    BY <1>0, <1>1, <2>1, EndsKeeps DEF Cancelled, Failures
<1>4. CASE commits
  <2>1. d \in Boards /\ d \in At("application") /\ board \in [Boards -> Seen] /\ board[d].image = ReleaseImage
    BY <1>0, <1>2, <1>4, WhereBoardsAre, PendingIsRelease DEF FlashInv, FlashTyped, StageIsOrdered
  <2>2. [board[d] EXCEPT !.image.install = "requested"] = [board[d] EXCEPT !.image = Recorded]
    BY <2>1 DEF Recorded, Seen
  <2>3. board' = [board EXCEPT ![d] = [board[d] EXCEPT !.image = Recorded]]
    BY <1>2, <1>4, <2>1, <2>2
  <2> DEFINE put == [board[d] EXCEPT !.image = Recorded]
  <2>4. put \in Seen /\ put.image = Recorded /\ put.at = board[d].at
    BY <2>1 DEF Seen
  <2> HIDE DEF put
  <2>5. /\ board' \in [Boards -> Seen] /\ board'[d] = put
        /\ \A b \in Boards : b # d => board'[b] = board[b]
    BY <2>1, <2>3, <2>4 DEF put
  <2>6. ASSUME NEW at \in {"verifying", "over"}, NEW result \in {Nothing, "receipt"}, at # "over" => result = Nothing,
               flash' = [flash EXCEPT !.at = at, !.result = result]
        PROVE  FlashInv'
    <3> DEFINE f == [flash EXCEPT !.at = at, !.result = result]
    <3>1. /\ f \in Installation /\ f.at = at /\ f.result = result /\ f.pre = flash.pre
          /\ f.device = d /\ flash' = f
      <4>1. at \in Stages /\ result \in Some({"installed"} \cup Cancelled \cup Failures)
        BY <2>6 DEF Stages, Some, Failures
      <4>2. f \in Installation
        BY <1>1, <4>1, Zenon DEF Installation
      <4>3. f.at = at /\ f.result = result /\ f.pre = flash.pre /\ f.device = d
        BY <1>1, Zenon DEF Installation
      <4> QED
        BY <2>6, <4>2, <4>3
    <3>2. /\ f.at \notin Before \cup Waiting \cup Proving
          /\ f.result \notin Cancelled \cup {"installed", "cancelled"}
      BY <3>1, StagesDiffer DEF Before, Waiting, Proving, Cancelled, Failures
    <3> HIDE DEF f
    <3>3. FlashTyped' /\ ConnectedIsSeen'
      BY <1>0, <2>4, <2>5, <3>1 DEF FlashInv, FlashTyped, ConnectedIsSeen
    <3>4. PreIsCurrent' /\ StageIsOrdered'
      BY <1>0, <2>6, <3>1, <3>2 DEF FlashInv, PreIsCurrent, StageIsOrdered
    <3>5. DeviceIsWritten' /\ RecordIsReal' /\ CancelIsTruthful'
      BY <1>0, <3>1, <3>2 DEF FlashInv, DeviceIsWritten, RecordIsReal, CancelIsTruthful, Cancelled
    <3> QED
      BY <3>3, <3>4, <3>5 DEF FlashInv
  <2>7. CASE flash' = [flash EXCEPT !.at = "verifying"]
    <3>1. flash' = [flash EXCEPT !.at = "verifying", !.result = Nothing]
      BY <1>1, <2>7 DEF Installation
    <3> QED
      BY <2>6, <3>1
  <2>8. CASE Ends("receipt")
    BY <2>6, <2>8 DEF Ends
  <2> QED
    BY <1>2, <2>7, <2>8
<1> QED
  BY <1>3, <1>4

LEMMA VerifyKeeps == ASSUME FlashInv, Verify PROVE FlashInv'
<1> DEFINE d == flash.device
<1>0. flash.at = "verifying" /\ UNCHANGED <<board, written, user>>
  BY DEF Verify
<1>1. flash \in Installation /\ flash.result = Nothing
  BY <1>0 DEF FlashInv, FlashTyped, StageIsOrdered
<1>2. \/ Ends("receipt") \/ Ends("mismatch")
      \/ Ends("installed") /\ d \in At("application") /\ board[d].image.install = "requested"
  BY Zenon DEF Verify
<1>3. PICK result \in {"receipt", "mismatch", "installed"} :
        /\ Ends(result)
        /\ result = "installed" => d \in At("application") /\ board[d].image.install = "requested"
  BY <1>2, Zenon
<1> DEFINE f == [flash EXCEPT !.at = "over", !.result = result]
<1>4. f \in Installation /\ f.at = "over" /\ f.result = result /\ f.pre = flash.pre /\ f.device = d
  BY <1>1 DEF Installation, Stages, Some, Failures
<1>5. flash' = f
  BY <1>3 DEF Ends
<1>6. /\ f.at \notin Before \cup Waiting \cup Proving \cup {"recording", "verifying"}
      /\ f.result \notin Cancelled \cup {"cancelled"}
  BY <1>4 DEF Before, Waiting, Proving, Cancelled
<1>7. result = "installed" => board[d].image = Recorded
  BY <1>3, WhereBoardsAre, PendingIsRelease DEF FlashInv, FlashTyped, Seen
<1> HIDE DEF f
<1>8. FlashTyped' /\ ConnectedIsSeen' /\ PreIsCurrent' /\ StageIsOrdered'
  BY <1>0, <1>4, <1>5, <1>6 DEF FlashInv, FlashTyped, ConnectedIsSeen, PreIsCurrent, StageIsOrdered
<1>9. DeviceIsWritten' /\ RecordIsReal' /\ CancelIsTruthful'
  BY <1>0, <1>4, <1>5, <1>6, <1>7 DEF FlashInv, DeviceIsWritten, RecordIsReal, CancelIsTruthful, Cancelled
<1> QED
  BY <1>8, <1>9 DEF FlashInv

-----------------------------------------------------------------------------
\* The user's hands move boards, and never back out of what was connected.
LEMMA TouchKeeps == ASSUME FlashInv, Cancel \/ Touch PROVE FlashInv'
<1> DEFINE Users == [cancelled : BOOLEAN, touches : Nat, connected : SUBSET Boards]
<1>1. UNCHANGED <<flash, written>> /\ user \in Users
  BY DEF FlashInv, FlashTyped, Cancel, Touch
<1>2. CASE Cancel
  <2>1. user' \in Users /\ user'.connected = user.connected /\ UNCHANGED board
    BY <1>1, <1>2 DEF Cancel
  <2> QED
    BY <1>1, <2>1 DEF FlashInv, FlashTyped, ConnectedIsSeen, PreIsCurrent, StageIsOrdered, DeviceIsWritten,
                      RecordIsReal, CancelIsTruthful
<1>3. CASE Touch
  <2>1. PICK b \in Boards, at \in {"away", "application", "bootloader"} :
          /\ board' = [board EXCEPT ![b].at = at]
          /\ user' = [user EXCEPT !.touches = @ + 1, !.connected = @ \cup {b}]
    BY <1>3, Zenon DEF Touch
  <2>2. user' \in Users /\ user'.connected = user.connected \cup {b}
    <3> DEFINE seen == user.connected \cup {b}
               touches == user.touches + 1
    <3>1. seen \in SUBSET Boards /\ touches \in Nat
      BY <1>1
    <3>2. user' = [user EXCEPT !.touches = touches, !.connected = seen]
      BY <2>1
    <3> HIDE DEF seen, touches
    <3>3. user' \in Users /\ user'.connected = seen
      BY <1>1, <3>1, <3>2
    <3> QED
      BY <3>3 DEF seen
  <2>3. board \in [Boards -> Seen] /\ [board[b] EXCEPT !.at = at] \in Seen
    BY DEF FlashInv, FlashTyped, Seen
  <2>4. /\ board' \in [Boards -> Seen]
        /\ \A c \in Boards : board'[c].image = board[c].image /\ (c # b => board'[c] = board[c])
    BY <2>1, <2>3 DEF Seen
  <2>5. FlashTyped' /\ ConnectedIsSeen'
    BY <1>1, <2>2, <2>4 DEF FlashInv, FlashTyped, ConnectedIsSeen
  <2>6. PreIsCurrent'
    <3>1. flash.pre # Nothing => user.connected # {} /\ user'.connected # {}
      BY <2>2 DEF FlashInv, PreIsCurrent
    <3>2. ASSUME NEW c \in Boards, flash.at \notin {"verifying", "over"}, user'.connected = {c}, c \notin written
          PROVE  flash.pre \in {Nothing, board'[c].image}
      <4>1. user.connected = {} \/ user.connected = {c}
        BY <2>2, <3>2
      <4> QED
        BY <2>4, <3>1, <3>2, <4>1 DEF FlashInv, PreIsCurrent
    <3> QED
      BY <1>1, <3>1, <3>2 DEF PreIsCurrent
  <2>7. StageIsOrdered' /\ CancelIsTruthful'
    BY <1>1, <2>4 DEF FlashInv, StageIsOrdered, CancelIsTruthful
  <2>8. DeviceIsWritten'
    BY <1>1, <2>2 DEF FlashInv, DeviceIsWritten
  <2>9. RecordIsReal'
    <3>1. flash.at # "over"
      BY <1>3 DEF Touch
    <3>2. flash.result # "installed"
      BY <3>1, StagesDiffer DEF FlashInv, StageIsOrdered
    <3> QED
      BY <1>1, <3>2 DEF RecordIsReal
  <2> QED
    BY <2>5, <2>6, <2>7, <2>8, <2>9 DEF FlashInv
<1> QED
  BY <1>2, <1>3

LEMMA FlashKeeps == FlashInv /\ [FlashNext]_flashVars => FlashInv'
<1> SUFFICES ASSUME FlashInv, [FlashNext]_flashVars PROVE FlashInv'
  OBVIOUS
<1>1. CASE Install
  BY <1>1, LookKeeps, MountedKeeps, ChooseKeeps, IdentifyKeeps, RequestKeeps, AwaitKeeps,
     WriteKeeps, ReconnectKeeps, AskKeeps, RecordKeeps, VerifyKeeps DEF Install
<1>2. CASE UNCHANGED flashVars
  BY <1>2 DEF flashVars, FlashInv, FlashTyped, ConnectedIsSeen, PreIsCurrent, StageIsOrdered,
              DeviceIsWritten, RecordIsReal, CancelIsTruthful
<1> QED
  BY <1>1, <1>2, TouchKeeps DEF FlashNext

\* A board that is not the only one that was ever connected has company.
LEMMA OthersAreCounted ==
  ASSUME NEW S \in SUBSET Boards, NEW d \in S, S # {d} PROVE Cardinality(S) > 1
<1>1. PICK e \in S : e # d
  OBVIOUS
<1>2. IsFiniteSet(S)
  BY FlashAssumption, FS_Subset
<1>3. IsFiniteSet({d}) /\ Cardinality({d}) = 1
  BY FS_Singleton
<1>4. IsFiniteSet({d} \cup {e}) /\ Cardinality({d} \cup {e}) = 2
  BY <1>1, <1>3, FS_AddElement
<1>5. {d} \cup {e} \subseteq S
  OBVIOUS
<1>6. Cardinality(S) \in Nat /\ Cardinality({d} \cup {e}) <= Cardinality(S)
  BY <1>2, <1>5, FS_Subset, FS_CardinalityType
<1> QED
  BY <1>4, <1>6

\* What an installation reports at its end is so, for every desk of boards,
\* every bound of its waits and whatever the user does to the cables: success
\* means that the board itself was written, or that it was not the only one
\* that was ever connected, and "cancelled" that no bootloader was asked for.
THEOREM ReportTrue == FlashSpec => []ReportIsTrue
<1>1. FlashInv => ReportIsTrue
  <2> SUFFICES ASSUME FlashInv PROVE SuccessIsProved
    BY DEF ReportIsTrue, FlashInv
  <2> SUFFICES ASSUME flash.result = "installed"
               PROVE  /\ board[flash.device].image = [ReleaseImage EXCEPT !.install = "requested"]
                      /\ flash.device \in written \/ Cardinality(user.connected) > 1
    BY DEF SuccessIsProved
  <2>1. board[flash.device].image = [ReleaseImage EXCEPT !.install = "requested"]
    BY DEF FlashInv, RecordIsReal, Recorded
  <2>2. flash.device \in user.connected /\ user.connected \in SUBSET Boards
    BY DEF FlashInv, DeviceIsWritten, FlashTyped
  <2>3. flash.device \in written \/ user.connected # {flash.device}
    BY DEF FlashInv, DeviceIsWritten
  <2> QED
    BY <2>1, <2>2, <2>3, OthersAreCounted
<1> QED
  BY <1>1, FlashStarts, FlashKeeps, PTL DEF FlashSpec

-----------------------------------------------------------------------------
(* AppCenter.                                                              *)

Operations == {"suspend", "resume", "quit"}
WindowRequest == [generation : Nat, id : Nat, operation : Operations]
WindowReply == [id : Nat, result : {"ok", "error"}]
WorkerEvents == {"progress", "writing", "loaded", "failed", "quit", "finished"}
Jobs == {"none", "catalog", "application", "firmware", "quit"}
WorkerSteps == {"done", "working", "suspending", "recovering", "flashing", "writing", "resuming", "quitting"}
Activities == {"idle", "busy", "busy_cancellable", "closing"}

Windows == [open : BOOLEAN, generation : Nat, step : {"events", "panic", "input"},
            activity : Activities, catalog : {"unasked", "checking", "loaded", "failed"},
            cancel : BOOLEAN, close_when_idle : BOOLEAN, firmware_write_started : BOOLEAN,
            session : BOOLEAN, jobs : Nat]
Workers == [slot : BOOLEAN, job : Jobs, at : WorkerSteps, waits : Nat, result : {"none"}]
Hosts == [generation : Nat \cup {Nobody}, next : Nat, owner : Nat \cup {Nobody},
          serving : WindowRequest \cup {Nobody}, recovery : {"idle", "waiting"},
          abandoned : BOOLEAN, next_id : Nat]
Runtimes == [suspended : BOOLEAN, commands : Seq(Operations), last : Operations \cup {Nobody}]

CenterTyped ==
  /\ window \in Windows /\ worker \in Workers /\ host \in Hosts /\ runtime \in Runtimes
  /\ events \in Seq(WorkerEvents) /\ requests \in Seq(WindowRequest)
  /\ replies \in Seq(WindowReply)

\* Every id that is on its way was issued.
IdsAreIssued ==
  /\ \A i \in DOMAIN requests : requests[i].id < host.next_id
  /\ \A i \in DOMAIN replies : replies[i].id < host.next_id
  /\ host.serving # Nobody => host.serving.id < host.next_id

\* The parent serves the window that is open, and what a dead one left is
\* thrown away before the next; a recovery runs in between.
GenerationIsCurrent ==
  /\ window.open => host.generation = window.generation
  /\ host.generation = Nobody =>
       ~window.open /\ events = << >> /\ requests = << >> /\ replies = << >> /\ Idle
  /\ host.recovery = "waiting" => host.generation = Nobody /\ host.owner # Nobody

\* The last command is only known when none is queued behind it.
LastIsObeyed ==
  runtime.last # Nobody =>
    runtime.commands = << >> /\ (runtime.last = "suspend" => runtime.suspended)

\* A worker that runs keeps its window open and busy; the event that ends it is
\* the last one, and is drained before the next job starts.
WorkerIsAwaited ==
  /\ worker.at # "done" => /\ window.open /\ worker.slot /\ window.catalog # "unasked"
                           /\ window.activity \in {"busy", "busy_cancellable"}
  /\ \A i \in DOMAIN events : Terminal(events[i]) =>
       i = Len(events) /\ worker.at = "done"
  /\ window.open => \A i \in DOMAIN events : Terminal(events[i]) =>
       window.activity # "idle" /\ window.catalog # "unasked"

Answering(i) == replies[i].id = worker.waits
Suspension == [generation |-> window.generation, id |-> worker.waits, operation |-> "suspend"]
Held == runtime.suspended /\ runtime.commands = << >> /\ host.owner = window.generation

\* The suspension a worker waits for is the last of its window's requests; then
\* the parent serves it; then it is answered, and its success means it holds.
SuspensionIsLast ==
  worker.at = "suspending" =>
    \/ /\ requests # << >> /\ requests[Len(requests)] = Suspension
       /\ \A i \in DOMAIN requests : i # Len(requests) => requests[i].id # worker.waits
       /\ \A i \in DOMAIN replies : ~Answering(i)
       /\ ~Idle => host.serving.id # worker.waits
    \/ /\ requests = << >> /\ host.serving = Suspension
       /\ \A i \in DOMAIN replies : ~Answering(i)
    \/ /\ requests = << >> /\ Idle
       /\ \A i \in DOMAIN replies : Answering(i) /\ replies[i].result = "ok" => Held

FlashHolds ==
  worker.at \in {"flashing", "writing"} => requests = << >> /\ Idle /\ Held

CenterInv ==
  /\ CenterTyped /\ IdsAreIssued /\ GenerationIsCurrent /\ LastIsObeyed /\ WorkerIsAwaited
  /\ SuspensionIsLast /\ FlashHolds

-----------------------------------------------------------------------------
LEMMA SeqAppends ==
  ASSUME NEW S, NEW s \in Seq(S), NEW m \in S
  PROVE  /\ Append(s, m) \in Seq(S) /\ Append(s, m) # << >>
         /\ Append(s, m)[Len(Append(s, m))] = m /\ Len(Append(s, m)) \in DOMAIN Append(s, m)
         /\ \A i \in DOMAIN Append(s, m) :
              \/ i = Len(Append(s, m)) /\ Append(s, m)[i] = m
              \/ i # Len(Append(s, m)) /\ i \in DOMAIN s /\ Append(s, m)[i] = s[i]
<1> DEFINE t == Append(s, m)
<1>1. /\ t \in Seq(S) /\ t # << >> /\ Len(t) = Len(s) + 1
      /\ \A i \in 1 .. Len(s) : t[i] = s[i]
      /\ t[Len(s) + 1] = m
  BY AppendProperties
<1>2. DOMAIN t = 1 .. Len(t) /\ DOMAIN s = 1 .. Len(s) /\ Len(s) \in Nat
  BY <1>1, LenProperties
<1> HIDE DEF t
<1>3. t[Len(t)] = m /\ Len(t) \in DOMAIN t
  BY <1>1, <1>2
<1>4. \A i \in DOMAIN t : (i = Len(t) /\ t[i] = m) \/ (i # Len(t) /\ i \in DOMAIN s /\ t[i] = s[i])
  BY <1>1, <1>2
<1> QED
  BY <1>1, <1>3, <1>4 DEF t

LEMMA SeqTails ==
  ASSUME NEW S, NEW s \in Seq(S), s # << >>
  PROVE  /\ Tail(s) \in Seq(S) /\ Head(s) \in S /\ Head(s) = s[1] /\ 1 \in DOMAIN s
         /\ \A i \in DOMAIN Tail(s) : /\ i + 1 \in DOMAIN s /\ Tail(s)[i] = s[i + 1]
                                      /\ i = Len(Tail(s)) <=> i + 1 = Len(s)
         /\ Len(s) = 1 => Tail(s) = << >>
         /\ Len(s) # 1 => Tail(s) # << >> /\ Tail(s)[Len(Tail(s))] = s[Len(s)]
<1> DEFINE t == Tail(s)
<1>1. /\ t \in Seq(S) /\ Head(s) \in S /\ Len(t) = Len(s) - 1 /\ Head(s) = s[1]
      /\ \A i \in 1 .. Len(t) : t[i] = s[i + 1]
  BY HeadTailProperties
<1>2. /\ Len(s) \in Nat /\ DOMAIN s = 1 .. Len(s) /\ Len(s) # 0
      /\ DOMAIN t = 1 .. Len(t)
  BY <1>1, LenProperties, EmptySeq
<1>3. Len(t) = 0 => t = << >>
  BY <1>1, EmptySeq
<1>4. t = << >> => Len(t) = 0
  BY EmptySeq
<1> HIDE DEF t
<1>5. \A i \in DOMAIN t : i + 1 \in DOMAIN s /\ t[i] = s[i + 1] /\ (i = Len(t) <=> i + 1 = Len(s))
  BY <1>1, <1>2
<1>6. 1 \in DOMAIN s /\ (Len(s) = 1 => t = << >>)
  BY <1>1, <1>2, <1>3
<1>7. Len(s) # 1 => t # << >> /\ t[Len(t)] = s[Len(s)]
  BY <1>1, <1>2, <1>4
<1> QED
  BY <1>1, <1>5, <1>6, <1>7 DEF t

LEMMA SeqIsEmpty ==
  ASSUME NEW S
  PROVE  << >> \in Seq(S) /\ DOMAIN << >> = {}
<1>1. << >> \in Seq(S) /\ Len(<< >>) = 0
  BY EmptySeq
<1>2. DOMAIN << >> = 1 .. 0
  BY <1>1, LenProperties
<1> QED
  BY <1>1, <1>2

\* What the window's frame does to the window beside its activity.
LEMMA WindowJoins ==
  ASSUME NEW w \in Windows
  PROVE  /\ Join(w) \in Windows /\ Join(w).open = w.open /\ Join(w).generation = w.generation
         /\ Join(w).activity = w.activity /\ Join(w).catalog = w.catalog
<1> DEFINE d == [w EXCEPT !.firmware_write_started = FALSE]
<1>1. FALSE \in BOOLEAN /\ (Join(w) = d \/ Join(w) = w)
  BY DEF Join
<1>2. d \in Windows
  BY <1>1, Zenon DEF Windows
<1>3. d.open = w.open
  BY Zenon DEF Windows
<1>4. d.generation = w.generation /\ d.activity = w.activity /\ d.catalog = w.catalog
  BY Zenon DEF Windows
<1> HIDE DEF d
<1> QED
  BY <1>1, <1>2, <1>3, <1>4

LEMMA WindowSettles ==
  ASSUME NEW w \in Windows
  PROVE  /\ Settled(w) \in Windows /\ Settled(w).open = w.open
         /\ Settled(w).generation = w.generation
         /\ Settled(w).activity \in {w.activity, "closing"} /\ Settled(w).catalog = w.catalog
<1> DEFINE d == [w EXCEPT !.activity = "closing"]
<1>1. "closing" \in Activities /\ (Settled(w) = d \/ Settled(w) = w)
  BY DEF Settled, Activities
<1>2. d \in Windows
  BY <1>1, Zenon DEF Windows
<1>3. d.open = w.open /\ d.generation = w.generation /\ d.activity = "closing" /\ d.catalog = w.catalog
  BY Zenon DEF Windows
<1> HIDE DEF d
<1> QED
  BY <1>1, <1>2, <1>3

LEMMA WorkerIsGone == NoWorker \in Workers /\ NoWorker.at = "done"
<1>1. /\ FALSE \in BOOLEAN /\ "none" \in Jobs /\ "done" \in WorkerSteps /\ 0 \in Nat /\ "none" \in {"none"}
  BY DEF Jobs, WorkerSteps
<1>2. NoWorker \in Workers
  BY <1>1, Zenon DEF NoWorker, Workers
<1>3. NoWorker.at = "done"
  BY Zenon DEF NoWorker
<1> QED
  BY <1>2, <1>3

\* A step of the window alone.
LEMMA ParentStays ==
  ASSUME CenterInv, UNCHANGED <<requests, replies, host, runtime>>,
         window'.generation = window.generation, window'.open => window.open,
         events = << >> => events' = << >>,
         worker' = worker \/ worker'.at \notin {"suspending", "flashing", "writing"}
  PROVE  /\ IdsAreIssued' /\ GenerationIsCurrent' /\ LastIsObeyed' /\ SuspensionIsLast' /\ FlashHolds'
<1>1. IdsAreIssued' /\ LastIsObeyed'
  BY DEF CenterInv, IdsAreIssued, LastIsObeyed
<1>2. GenerationIsCurrent'
  BY DEF CenterInv, GenerationIsCurrent, Idle
<1>3. SuspensionIsLast' /\ FlashHolds'
  <2>1. CASE worker' = worker
    BY <2>1 DEF CenterInv, SuspensionIsLast, FlashHolds, Answering, Suspension, Held, Idle
  <2>2. CASE worker'.at \notin {"suspending", "flashing", "writing"}
    BY <2>2 DEF SuspensionIsLast, FlashHolds
  <2> QED
    BY <2>1, <2>2
<1> QED
  BY <1>1, <1>2, <1>3

LEMMA ActivityChanges ==
  ASSUME NEW w \in Windows, NEW activity \in Activities
  PROVE  /\ [w EXCEPT !.activity = activity] \in Windows
         /\ [w EXCEPT !.activity = activity].open = w.open
         /\ [w EXCEPT !.activity = activity].generation = w.generation
         /\ [w EXCEPT !.activity = activity].activity = activity
         /\ [w EXCEPT !.activity = activity].catalog = w.catalog
<1> DEFINE d == [w EXCEPT !.activity = activity]
<1>1. d \in Windows
  BY Zenon DEF Windows
<1>2. d.open = w.open /\ d.generation = w.generation /\ d.activity = activity /\ d.catalog = w.catalog
  BY Zenon DEF Windows
<1> QED
  BY <1>1, <1>2

\* What draining the first event makes of the window.
LEMMA WindowDrains ==
  ASSUME CenterTyped, DrainEvent
  PROVE  /\ window' \in Windows /\ window'.open = window.open
         /\ window'.generation = window.generation
         /\ ~Terminal(Head(events)) =>
              window'.activity \in {"busy", "busy_cancellable"} /\ window'.catalog = window.catalog
<1> DEFINE event == Head(events)
           idle == [window EXCEPT !.activity = "idle"]
           SameWindow(w) == w \in Windows /\ w.open = window.open /\ w.generation = window.generation
<1>0. window \in Windows /\ event \in WorkerEvents
  BY SeqTails DEF CenterTyped, DrainEvent
<1>1. SameWindow(idle)
  BY <1>0, ActivityChanges DEF Activities
<1>2. CASE event = "progress"
  <2>1. window' = [window EXCEPT !.activity = "busy_cancellable"]
    BY <1>2 DEF DrainEvent
  <2> QED
    BY <1>0, <2>1, ActivityChanges DEF Activities
<1>3. CASE event = "writing"
  <2> DEFINE d == [window EXCEPT !.activity = "busy"]
  <2>1. window' = [window EXCEPT !.activity = "busy", !.firmware_write_started = TRUE]
    BY <1>3 DEF DrainEvent
  <2>2. "busy" \in Activities /\ TRUE \in BOOLEAN
    BY DEF Activities
  <2>3. window' \in Windows
    BY <1>0, <2>1, <2>2, Zenon DEF Windows
  <2>4. window'.open = window.open /\ window'.generation = window.generation
        /\ window'.activity = "busy" /\ window'.catalog = window.catalog
    BY <1>0, <2>1, Zenon DEF Windows
  <2> QED
    BY <2>3, <2>4
<1>4. ASSUME NEW c \in {"loaded", "failed"}
      PROVE  SameWindow([idle EXCEPT !.catalog = c])
  <2> DEFINE d == [idle EXCEPT !.catalog = c]
  <2>1. idle \in Windows /\ idle.open = window.open /\ idle.generation = window.generation
    BY <1>1
  <2>2. c \in {"unasked", "checking", "loaded", "failed"}
    OBVIOUS
  <2> HIDE DEF idle
  <2>3. d \in Windows
    BY <2>1, <2>2, Zenon DEF Windows
  <2>4. d.open = idle.open /\ d.generation = idle.generation
    BY <2>1, Zenon DEF Windows
  <2> QED
    BY <2>1, <2>3, <2>4
<1>5. ASSUME NEW w, SameWindow(w) PROVE SameWindow(Settled(Join(w)))
  <2>1. w \in Windows
    BY <1>5
  <2>2. Join(w) \in Windows /\ Join(w).open = w.open /\ Join(w).generation = w.generation
    BY <2>1, WindowJoins
  <2>3. Settled(Join(w)) \in Windows /\ Settled(Join(w)).open = Join(w).open
        /\ Settled(Join(w)).generation = Join(w).generation
    BY <2>2, WindowSettles
  <2> QED
    BY <1>5, <2>2, <2>3
<1>6. CASE event = "loaded"
  <2>1. window' = Settled(Join([idle EXCEPT !.catalog = "loaded"]))
    BY <1>6 DEF DrainEvent
  <2>2. SameWindow(window')
    BY <1>4, <1>5, <2>1
  <2> QED
    BY <1>6, <2>2 DEF Terminal
<1>7. CASE event = "failed"
  <2>1. window' = Settled(Join([idle EXCEPT !.catalog = "failed"]))
    BY <1>7 DEF DrainEvent
  <2>2. SameWindow(window')
    BY <1>4, <1>5, <2>1
  <2> QED
    BY <1>7, <2>2 DEF Terminal
<1>8. CASE event = "quit"
  <2> DEFINE d == [window EXCEPT !.activity = "closing"]
  <2>1. window' = Join(d)
    BY <1>8 DEF DrainEvent
  <2>2. SameWindow(d)
    BY <1>0, ActivityChanges DEF Activities
  <2> HIDE DEF d
  <2>3. SameWindow(window')
    BY <2>1, <2>2, WindowJoins
  <2> QED
    BY <1>8, <2>3 DEF Terminal
<1>9. CASE event = "finished"
  <2>1. window' = Settled(Join(idle))
    BY <1>9 DEF DrainEvent
  <2>2. SameWindow(window')
    BY <1>1, <1>5, <2>1
  <2> QED
    BY <1>9, <2>2 DEF Terminal
<1> QED
  BY <1>0, <1>2, <1>3, <1>6, <1>7, <1>8, <1>9 DEF WorkerEvents

LEMMA DrainEventKeeps == CenterInv /\ DrainEvent => CenterInv'
<1> SUFFICES ASSUME CenterInv, DrainEvent PROVE CenterInv'
  OBVIOUS
<1>1. /\ events # << >> /\ events' = Tail(events) /\ UNCHANGED <<requests, replies, host, runtime>>
      /\ Terminal(Head(events)) => worker' = NoWorker
      /\ ~Terminal(Head(events)) => worker' = worker
  BY DEF DrainEvent
<1>2. /\ window' \in Windows /\ window'.open = window.open
      /\ window'.generation = window.generation
      /\ ~Terminal(Head(events)) =>
           window'.activity \in {"busy", "busy_cancellable"} /\ window'.catalog = window.catalog
  BY WindowDrains DEF CenterInv
<1>3. /\ events' \in Seq(WorkerEvents) /\ Head(events) = events[1] /\ 1 \in DOMAIN events
      /\ \A i \in DOMAIN events' : /\ i + 1 \in DOMAIN events /\ events'[i] = events[i + 1]
                                   /\ i = Len(events') <=> i + 1 = Len(events)
      /\ Len(events) = 1 => events' = << >>
  BY <1>1, SeqTails DEF CenterInv, CenterTyped
<1>4. CenterTyped'
  BY <1>1, <1>2, <1>3, WorkerIsGone DEF CenterInv, CenterTyped
<1>5. WorkerIsAwaited'
  <2>1. CASE Terminal(Head(events))
    <3>1. events' = << >> /\ worker'.at = "done"
      BY <1>1, <1>3, <2>1, WorkerIsGone DEF CenterInv, WorkerIsAwaited
    <3> QED
      BY <3>1, SeqIsEmpty DEF WorkerIsAwaited
  <2>2. CASE ~Terminal(Head(events))
    BY <1>1, <1>2, <1>3, <2>2 DEF CenterInv, WorkerIsAwaited, Terminal
  <2> QED
    BY <2>1, <2>2
<1>6. worker' = worker \/ worker'.at \notin {"suspending", "flashing", "writing"}
  BY <1>1, WorkerIsGone
<1> QED
  BY <1>1, <1>2, <1>4, <1>5, <1>6, ParentStays DEF CenterInv

\* A step of the window alone that leaves the worker's events.
LEMMA WindowStays ==
  ASSUME CenterInv, UNCHANGED <<events, requests, replies, host, runtime>>,
         window' \in Windows, window'.open = window.open, window'.generation = window.generation,
         window'.catalog = window.catalog,
         window'.activity = window.activity \/ (worker'.at = "done" /\ window'.activity = "closing"),
         worker' \in {worker, NoWorker}
  PROVE  CenterInv'
<1>1. worker' \in Workers /\ (worker' = worker \/ worker'.at = "done")
  BY WorkerIsGone DEF CenterInv, CenterTyped
<1>2. CenterTyped'
  BY <1>1 DEF CenterInv, CenterTyped
<1>3. WorkerIsAwaited'
  BY <1>1 DEF CenterInv, WorkerIsAwaited, Terminal
<1>4. worker' = worker \/ worker'.at \notin {"suspending", "flashing", "writing"}
  BY <1>1
<1> QED
  BY <1>2, <1>3, <1>4, ParentStays DEF CenterInv

LEMMA StepChanges ==
  ASSUME NEW w \in Windows, NEW s \in {"events", "panic", "input"}
  PROVE  /\ [w EXCEPT !.step = s] \in Windows /\ [w EXCEPT !.step = s].open = w.open
         /\ [w EXCEPT !.step = s].generation = w.generation
         /\ [w EXCEPT !.step = s].activity = w.activity /\ [w EXCEPT !.step = s].catalog = w.catalog
<1> DEFINE d == [w EXCEPT !.step = s]
<1>1. d \in Windows
  BY Zenon DEF Windows
<1>2. d.open = w.open /\ d.generation = w.generation /\ d.activity = w.activity /\ d.catalog = w.catalog
  BY Zenon DEF Windows
<1> QED
  BY <1>1, <1>2

LEMMA EventsDrainedKeeps == CenterInv /\ EventsDrained => CenterInv'
<1> SUFFICES ASSUME CenterInv, EventsDrained PROVE CenterInv'
  OBVIOUS
<1>1. /\ window' = [window EXCEPT !.step = "panic"]
      /\ UNCHANGED <<worker, events, requests, replies, host, runtime>> /\ window \in Windows
  BY DEF EventsDrained, CenterInv, CenterTyped
<1> QED
  BY <1>1, StepChanges, WindowStays

LEMMA NextFrameKeeps == CenterInv /\ NextFrame => CenterInv'
<1> SUFFICES ASSUME CenterInv, NextFrame PROVE CenterInv'
  OBVIOUS
<1>1. /\ window' = [window EXCEPT !.step = "events"]
      /\ UNCHANGED <<worker, events, requests, replies, host, runtime>> /\ window \in Windows
  BY DEF NextFrame, CenterInv, CenterTyped
<1> QED
  BY <1>1, StepChanges, WindowStays

LEMMA DetectPanicKeeps == CenterInv /\ DetectPanic => CenterInv'
<1> SUFFICES ASSUME CenterInv, DetectPanic PROVE CenterInv'
  OBVIOUS
<1>0. window \in Windows
  BY DEF CenterInv, CenterTyped
<1> DEFINE w == Settled(Join(window))
<1>1. /\ w \in Windows /\ w.open = window.open /\ w.generation = window.generation
      /\ w.activity \in {window.activity, "closing"} /\ w.catalog = window.catalog
  <2>1. /\ Join(window) \in Windows /\ Join(window).open = window.open
        /\ Join(window).generation = window.generation
        /\ Join(window).activity = window.activity /\ Join(window).catalog = window.catalog
    BY <1>0, WindowJoins
  <2> QED
    BY <2>1, WindowSettles
<1>2. \/ window' = [w EXCEPT !.step = "input"] /\ worker' = NoWorker
      \/ window' = [window EXCEPT !.step = "input"] /\ worker' = worker
  BY DEF DetectPanic
<1>3. UNCHANGED <<events, requests, replies, host, runtime>>
  BY DEF DetectPanic
<1> HIDE DEF w
<1>4. CASE window' = [w EXCEPT !.step = "input"] /\ worker' = NoWorker
  <2>1. /\ window' \in Windows /\ window'.open = window.open /\ window'.generation = window.generation
        /\ window'.activity = w.activity /\ window'.catalog = window.catalog
    BY <1>1, <1>4, StepChanges
  <2> QED
    BY <1>1, <1>3, <1>4, <2>1, WorkerIsGone, WindowStays
<1>5. CASE window' = [window EXCEPT !.step = "input"] /\ worker' = worker
  BY <1>0, <1>3, <1>5, StepChanges, WindowStays
<1> QED
  BY <1>2, <1>4, <1>5

LEMMA CloseRequestedKeeps == CenterInv /\ CloseRequested => CenterInv'
<1> SUFFICES ASSUME CenterInv, CloseRequested PROVE CenterInv'
  OBVIOUS
<1>1. /\ UNCHANGED <<worker, events, requests, replies, host, runtime>> /\ window \in Windows
      /\ \/ window' = [window EXCEPT !.close_when_idle = TRUE, !.cancel = TRUE]
         \/ /\ window.activity \notin {"busy", "busy_cancellable"}
            /\ window' = [window EXCEPT !.activity = "closing"]
  BY DEF CloseRequested, must_defer_close, CenterInv, CenterTyped
<1>2. CASE window' = [window EXCEPT !.close_when_idle = TRUE, !.cancel = TRUE]
  <2>1. TRUE \in BOOLEAN
    OBVIOUS
  <2>2. window' \in Windows
    BY <1>1, <1>2, <2>1, Zenon DEF Windows
  <2>3. window'.open = window.open /\ window'.generation = window.generation
        /\ window'.activity = window.activity /\ window'.catalog = window.catalog
    BY <1>1, <1>2, Zenon DEF Windows
  <2> QED
    BY <1>1, <2>2, <2>3, WindowStays
<1>3. CASE /\ window.activity \notin {"busy", "busy_cancellable"}
           /\ window' = [window EXCEPT !.activity = "closing"]
  <2>1. worker.at = "done"
    BY <1>3 DEF CenterInv, WorkerIsAwaited
  <2>2. /\ window' \in Windows /\ window'.open = window.open /\ window'.generation = window.generation
        /\ window'.activity = "closing" /\ window'.catalog = window.catalog
    BY <1>1, <1>3, ActivityChanges DEF Activities
  <2> QED
    BY <1>1, <2>1, <2>2, WindowStays
<1> QED
  BY <1>1, <1>2, <1>3

LEMMA CancelPressedKeeps == CenterInv /\ CancelPressed => CenterInv'
<1> SUFFICES ASSUME CenterInv, CancelPressed PROVE CenterInv'
  OBVIOUS
<1>1. /\ UNCHANGED <<worker, events, requests, replies, host, runtime>> /\ window \in Windows
      /\ window' = [window EXCEPT !.cancel = TRUE] /\ TRUE \in BOOLEAN
  BY DEF CancelPressed, CenterInv, CenterTyped
<1>2. window' \in Windows
  BY <1>1, Zenon DEF Windows
<1>3. window'.open = window.open /\ window'.generation = window.generation
      /\ window'.activity = window.activity /\ window'.catalog = window.catalog
  BY <1>1, Zenon DEF Windows
<1> QED
  BY <1>1, <1>2, <1>3, WindowStays

\* The window goes, and its worker with it.
LEMMA ExitKeeps ==
  ASSUME CenterInv, Exits, worker' = NoWorker, UNCHANGED <<events, requests, replies, host, runtime>>
  PROVE  CenterInv'
<1>1. window \in Windows /\ window' = [window EXCEPT !.open = FALSE] /\ FALSE \in BOOLEAN
  BY DEF CenterInv, CenterTyped, Exits
<1>2. window' \in Windows
  BY <1>1, Zenon DEF Windows
<1>3. ~window'.open
  BY <1>1, Zenon DEF Windows
<1>4. window'.generation = window.generation /\ worker' \in Workers /\ worker'.at = "done"
  BY <1>1, WorkerIsGone DEF Windows
<1>5. CenterTyped'
  BY <1>2, <1>4 DEF CenterInv, CenterTyped
<1>6. WorkerIsAwaited'
  BY <1>3, <1>4 DEF CenterInv, WorkerIsAwaited, Terminal
<1> QED
  BY <1>3, <1>4, <1>5, <1>6, ParentStays DEF CenterInv

\* A job starts in a window that waits for none.
LEMMA StartJobKeeps ==
  ASSUME CenterInv, Alive, window.activity = "idle" \/ window.catalog = "unasked",
         NEW job \in {"catalog", "application", "firmware", "quit"},
         NEW activity \in {"busy", "busy_cancellable"},
         NEW catalog \in {"checking", "loaded", "failed"}, StartJob(job, activity, catalog)
  PROVE  CenterInv'
<1>1. worker.at = "done" /\ \A i \in DOMAIN events : ~Terminal(events[i])
  BY DEF CenterInv, WorkerIsAwaited, Alive
<1> DEFINE n == window.jobs + 1
           x == IF job = "quit" THEN window.cancel ELSE FALSE
           y == [window EXCEPT !.step = "events", !.activity = activity, !.catalog = catalog,
                                !.jobs = n, !.cancel = x]
<1>2. /\ window' = y /\ worker' = [NoWorker EXCEPT !.slot = TRUE, !.job = job, !.at = "working"]
      /\ UNCHANGED <<events, requests, replies, host, runtime>>
  BY DEF StartJob
<1>3. window \in Windows /\ window.jobs \in Nat /\ window.cancel \in BOOLEAN
  BY DEF CenterInv, CenterTyped, Windows
<1>14. x \in BOOLEAN
  <2>1. window.cancel \in BOOLEAN /\ FALSE \in BOOLEAN
    BY <1>3
  <2> QED
    BY <2>1, Zenon
<1>4. /\ n \in Nat /\ activity \in Activities
      /\ catalog \in {"unasked", "checking", "loaded", "failed"} /\ "events" \in {"events", "panic", "input"}
  BY <1>3 DEF Activities
<1> HIDE DEF n, x
<1>5. y \in Windows
  BY <1>3, <1>4, <1>14, Zenon DEF Windows
<1>6. y.open = window.open /\ y.generation = window.generation
  BY <1>3, Zenon DEF Windows
<1>7. y.activity = activity /\ y.catalog = catalog
  BY <1>3, Zenon DEF Windows
<1> HIDE DEF y
<1>8. TRUE \in BOOLEAN /\ job \in Jobs /\ "working" \in WorkerSteps
  BY DEF Jobs, WorkerSteps
<1>9. worker' \in Workers
  BY <1>2, <1>8, WorkerIsGone, Zenon DEF Workers
<1>10. worker'.slot
  BY <1>2, WorkerIsGone, Zenon DEF Workers
<1>11. worker'.at = "working"
  BY <1>2, WorkerIsGone, Zenon DEF Workers
<1>12. CenterTyped'
  BY <1>2, <1>5, <1>9 DEF CenterInv, CenterTyped
<1>13. WorkerIsAwaited'
  BY <1>1, <1>2, <1>6, <1>7, <1>10 DEF WorkerIsAwaited, Alive, Terminal
<1> QED
  BY <1>2, <1>6, <1>11, <1>12, <1>13, ParentStays DEF CenterInv

LEMMA PaintKeeps == CenterInv /\ Paint => CenterInv'
<1> SUFFICES ASSUME CenterInv, Paint PROVE CenterInv'
  OBVIOUS
<1>1. Alive /\ window.catalog \in {"unasked", "checking", "loaded", "failed"}
  BY DEF Paint, CenterInv, CenterTyped, Windows
<1>2. CASE EnsureCatalog
  BY <1>1, <1>2, StartJobKeeps DEF EnsureCatalog
<1>3. CASE CheckAgain
  BY <1>1, <1>3, StartJobKeeps DEF CheckAgain
<1>4. CASE DownloadApplication
  BY <1>1, <1>4, StartJobKeeps DEF DownloadApplication, operation_available
<1>5. CASE InstallFirmware
  BY <1>1, <1>5, StartJobKeeps DEF InstallFirmware, operation_available
<1>6. CASE QuitForReplacement
  BY <1>1, <1>6, StartJobKeeps DEF QuitForReplacement, operation_available
<1> QED
  BY <1>2, <1>3, <1>4, <1>5, <1>6, NextFrameKeeps DEF Paint

LEMMA CloseKeeps == CenterInv /\ Close => CenterInv'
  BY ExitKeeps DEF Close

LEMMA CrashKeeps == CenterInv /\ Crash => CenterInv'
  BY ExitKeeps DEF Crash

-----------------------------------------------------------------------------
(* The worker's steps.                                                     *)

RepliesShrink == replies' = replies \/ (replies # << >> /\ replies' = Tail(replies))

LEMMA RepliesAreOld ==
  ASSUME CenterTyped, RepliesShrink
  PROVE  /\ replies' \in Seq(WindowReply)
         /\ \A i \in DOMAIN replies' : \E j \in DOMAIN replies : replies'[i] = replies[j]
<1>1. CASE replies' = replies
  BY <1>1 DEF CenterTyped
<1>2. CASE replies # << >> /\ replies' = Tail(replies)
  BY <1>2, SeqTails DEF CenterTyped
<1> QED
  BY <1>1, <1>2 DEF RepliesShrink

LEMMA AnswersShrink ==
  ASSUME NEW result \in {"ok", "error"}, Answered(result)
  PROVE  /\ RepliesShrink
         /\ result = "ok" =>
              replies # << >> /\ Head(replies).id = worker.waits /\ Head(replies).result = "ok"
  BY DEF Answered, Answers, RepliesShrink

\* The worker's last event, its request's answer taken or not.
LEMMA FinishesKeeps ==
  ASSUME CenterInv, worker.at # "done", NEW e \in {"loaded", "failed", "finished", "quit"},
         Finishes(e), RepliesShrink, UNCHANGED <<requests, host, runtime>>,
         window' \in Windows, window'.open = window.open, window'.generation = window.generation,
         window'.activity = window.activity, window'.catalog = window.catalog
  PROVE  CenterInv'
<1>1. /\ events' = Append(events, e) /\ worker' = [worker EXCEPT !.at = "done"]
      /\ e \in WorkerEvents /\ events \in Seq(WorkerEvents) /\ worker \in Workers
  BY DEF Finishes, CenterInv, CenterTyped, WorkerEvents
<1>2. worker' \in Workers
  <2>1. "done" \in WorkerSteps
    BY DEF WorkerSteps
  <2> QED
    BY <1>1, <2>1, Zenon DEF Workers
<1>3. worker'.at = "done"
  BY <1>1, Zenon DEF Workers
<1>4. /\ replies' \in Seq(WindowReply)
      /\ \A i \in DOMAIN replies' : \E j \in DOMAIN replies : replies'[i] = replies[j]
  BY RepliesAreOld DEF CenterInv
<1>5. /\ events' \in Seq(WorkerEvents)
      /\ \A i \in DOMAIN events' :
           i = Len(events') \/ (i # Len(events') /\ i \in DOMAIN events /\ events'[i] = events[i])
  BY <1>1, SeqAppends
<1>6. CenterTyped'
  BY <1>2, <1>4, <1>5 DEF CenterInv, CenterTyped
<1>7. IdsAreIssued'
  BY <1>4 DEF CenterInv, IdsAreIssued
<1>8. GenerationIsCurrent'
  BY DEF CenterInv, GenerationIsCurrent, WorkerIsAwaited
<1>9. WorkerIsAwaited'
  BY <1>3, <1>5 DEF CenterInv, WorkerIsAwaited, Terminal
<1>10. SuspensionIsLast' /\ FlashHolds' /\ LastIsObeyed'
  BY <1>3 DEF CenterInv, SuspensionIsLast, FlashHolds, LastIsObeyed
<1> QED
  BY <1>6, <1>7, <1>8, <1>9, <1>10 DEF CenterInv

\* A request has an id of its own, and goes behind the window's others.
LEMMA AsksParentKeeps ==
  ASSUME CenterInv, worker.at # "done", NEW op \in Operations,
         NEW at \in {"suspending", "recovering", "resuming", "quitting"},
         at = "suspending" => op = "suspend", Request(op, at), RepliesShrink,
         UNCHANGED <<window, events, runtime>>
  PROVE  CenterInv'
<1> DEFINE id == host.next_id
           m == [generation |-> window.generation, id |-> id, operation |-> op]
<1>1. /\ requests' = Append(requests, m) /\ worker' = [worker EXCEPT !.at = at, !.waits = id]
      /\ host' = [host EXCEPT !.next_id = id + 1]
  BY DEF Request
<1>2. /\ host \in Hosts /\ worker \in Workers /\ requests \in Seq(WindowRequest)
      /\ id \in Nat /\ id + 1 \in Nat /\ at \in WorkerSteps /\ m \in WindowRequest
  BY DEF CenterInv, CenterTyped, Hosts, Windows, WindowRequest, WorkerSteps
<1>3. m.id = id /\ m.generation = window.generation /\ m.operation = op
  OBVIOUS
<1> HIDE DEF id
<1>4. worker' \in Workers
  BY <1>1, <1>2, Zenon DEF Workers
<1>5. worker'.at = at /\ worker'.waits = id /\ worker'.slot = worker.slot
  BY <1>1, <1>2, Zenon DEF Workers
<1> DEFINE next == id + 1
<1>16. next \in Nat /\ host' = [host EXCEPT !.next_id = next] /\ id < next
  BY <1>1, <1>2
<1> HIDE DEF next
<1>6. host' \in Hosts
  BY <1>2, <1>16, Zenon DEF Hosts
<1>7. /\ host'.next_id = next /\ host'.serving = host.serving /\ host'.generation = host.generation
      /\ host'.recovery = host.recovery /\ host'.owner = host.owner
  BY <1>2, <1>16, Zenon DEF Hosts
<1>8. /\ requests' \in Seq(WindowRequest) /\ requests' # << >>
      /\ requests'[Len(requests')] = m
      /\ \A i \in DOMAIN requests' :
           \/ i = Len(requests') /\ requests'[i] = m
           \/ i # Len(requests') /\ i \in DOMAIN requests /\ requests'[i] = requests[i]
  BY <1>1, <1>2, SeqAppends
<1> HIDE DEF m
<1>9. /\ replies' \in Seq(WindowReply)
      /\ \A i \in DOMAIN replies' : \E j \in DOMAIN replies : replies'[i] = replies[j]
  BY RepliesAreOld DEF CenterInv
<1>10. CenterTyped'
  BY <1>4, <1>6, <1>8, <1>9 DEF CenterInv, CenterTyped
<1>11. /\ \A i \in DOMAIN requests : requests[i].id < id /\ requests[i].id \in Nat
       /\ \A i \in DOMAIN replies : replies[i].id < id /\ replies[i].id \in Nat
       /\ host.serving # Nobody => host.serving.id < id /\ host.serving.id \in Nat
  <2>1. /\ \A i \in DOMAIN requests : requests[i] \in WindowRequest
        /\ \A i \in DOMAIN replies : replies[i] \in WindowReply
        /\ host.serving # Nobody => host.serving \in WindowRequest
    BY ElementOfSeq, LenProperties DEF CenterInv, CenterTyped, Hosts
  <2> QED
    BY <2>1 DEF CenterInv, IdsAreIssued, id, WindowRequest, WindowReply
<1>12. IdsAreIssued'
  BY <1>2, <1>3, <1>7, <1>8, <1>9, <1>11, <1>16 DEF IdsAreIssued
<1>13. GenerationIsCurrent' /\ WorkerIsAwaited' /\ LastIsObeyed'
  <2>1. GenerationIsCurrent'
    BY <1>7 DEF CenterInv, GenerationIsCurrent, WorkerIsAwaited
  <2>2. WorkerIsAwaited'
    BY <1>5 DEF CenterInv, WorkerIsAwaited, Terminal
  <2> QED
    BY <2>1, <2>2 DEF CenterInv, LastIsObeyed
<1>14. SuspensionIsLast'
  <2> SUFFICES ASSUME at = "suspending" PROVE SuspensionIsLast'
    BY <1>5 DEF SuspensionIsLast
  <2>1. m = [generation |-> window.generation, id |-> id, operation |-> "suspend"]
    BY DEF m
  <2>2. requests'[Len(requests')] = Suspension'
    BY <1>5, <1>8, <2>1 DEF Suspension
  <2>3. \A i \in DOMAIN requests' : i # Len(requests') => requests'[i].id # id
    BY <1>2, <1>8, <1>11
  <2>4. \A i \in DOMAIN replies' : replies'[i].id # id
    BY <1>2, <1>9, <1>11
  <2>5. host.serving # Nobody => host.serving.id # id
    BY <1>2, <1>11
  <2> QED
    BY <1>5, <1>7, <1>8, <2>2, <2>3, <2>4, <2>5 DEF SuspensionIsLast, Answering, Idle
<1>15. FlashHolds'
  BY <1>5 DEF FlashHolds
<1> QED
  BY <1>10, <1>12, <1>13, <1>14, <1>15 DEF CenterInv

LEMMA WorkKeeps == CenterInv /\ Work => CenterInv'
<1> SUFFICES ASSUME CenterInv, Work PROVE CenterInv'
  OBVIOUS
<1>1. worker.at # "done" /\ UNCHANGED <<window, replies, runtime>> /\ RepliesShrink /\ window \in Windows
  BY DEF Work, RepliesShrink, CenterInv, CenterTyped
<1>2. CASE (\E e \in {"loaded", "failed", "finished"} : Finishes(e)) /\ UNCHANGED <<requests, host>>
  BY <1>1, <1>2, FinishesKeeps
<1>3. CASE Request("suspend", "suspending") /\ UNCHANGED events
  BY <1>1, <1>3, AsksParentKeeps DEF Operations
<1>4. CASE Request("quit", "quitting") /\ UNCHANGED events
  BY <1>1, <1>4, AsksParentKeeps DEF Operations
<1> QED
  BY <1>2, <1>3, <1>4 DEF Work

LEMMA SkipReplyKeeps == CenterInv /\ SkipReply => CenterInv'
<1> SUFFICES ASSUME CenterInv, SkipReply PROVE CenterInv'
  OBVIOUS
<1>1. RepliesShrink /\ UNCHANGED <<window, worker, events, requests, host, runtime>> /\ window.open
  BY DEF SkipReply, RepliesShrink, Alive
<1>2. /\ replies' \in Seq(WindowReply)
      /\ \A i \in DOMAIN replies' : \E j \in DOMAIN replies : replies'[i] = replies[j]
  BY <1>1, RepliesAreOld DEF CenterInv
<1>3. CenterTyped'
  BY <1>1, <1>2 DEF CenterInv, CenterTyped
<1>4. IdsAreIssued'
  BY <1>1, <1>2 DEF CenterInv, IdsAreIssued
<1>5. GenerationIsCurrent' /\ WorkerIsAwaited' /\ LastIsObeyed' /\ FlashHolds'
  BY <1>1 DEF CenterInv, GenerationIsCurrent, WorkerIsAwaited, LastIsObeyed, FlashHolds, Idle, Held, Terminal
<1>6. SuspensionIsLast'
  BY <1>1, <1>2 DEF CenterInv, SuspensionIsLast, Answering, Suspension, Held, Idle
<1> QED
  BY <1>3, <1>4, <1>5, <1>6 DEF CenterInv

\* The worker goes on to the board with an event that is not its last.
LEMMA GoesOnKeeps ==
  ASSUME CenterInv, worker.at # "done", NEW at \in {"flashing", "writing"},
         NEW e \in {"progress", "writing"}, events' = Append(events, e), RepliesShrink,
         worker' \in Workers, worker'.at = at, worker'.slot = worker.slot,
         UNCHANGED <<requests, host, runtime>>,
         window' \in Windows, window'.open = window.open, window'.generation = window.generation,
         window'.activity = window.activity, window'.catalog = window.catalog,
         requests = << >>, Idle, Held
  PROVE  CenterInv'
<1>1. e \in WorkerEvents /\ events \in Seq(WorkerEvents)
  BY DEF CenterInv, CenterTyped, WorkerEvents
<1>2. /\ replies' \in Seq(WindowReply)
      /\ \A i \in DOMAIN replies' : \E j \in DOMAIN replies : replies'[i] = replies[j]
  BY RepliesAreOld DEF CenterInv
<1>3. /\ events' \in Seq(WorkerEvents)
      /\ \A i \in DOMAIN events' : events'[i] = e \/ (i \in DOMAIN events /\ events'[i] = events[i])
  BY <1>1, SeqAppends
<1>4. CenterTyped'
  BY <1>2, <1>3 DEF CenterInv, CenterTyped
<1>5. IdsAreIssued'
  BY <1>2 DEF CenterInv, IdsAreIssued
<1>6. GenerationIsCurrent' /\ LastIsObeyed'
  BY DEF CenterInv, GenerationIsCurrent, WorkerIsAwaited, LastIsObeyed
<1>7. WorkerIsAwaited'
  BY <1>3 DEF CenterInv, WorkerIsAwaited, Terminal
<1>8. SuspensionIsLast' /\ FlashHolds'
  BY DEF SuspensionIsLast, FlashHolds, Held, Idle
<1> QED
  BY <1>4, <1>5, <1>6, <1>7, <1>8 DEF CenterInv

\* The answer that starts the session is of a suspension that holds.
LEMMA BeginSessionKeeps == CenterInv /\ BeginSession => CenterInv'
<1> SUFFICES ASSUME CenterInv, BeginSession PROVE CenterInv'
  OBVIOUS
<1>1. /\ worker.at = "suspending" /\ Answered("ok")
      /\ worker' = [worker EXCEPT !.at = "flashing", !.waits = 0]
      /\ window' = [window EXCEPT !.session = TRUE]
      /\ events' = Append(events, "progress") /\ UNCHANGED <<requests, host, runtime>>
  BY DEF BeginSession
<1>2. /\ RepliesShrink /\ replies # << >> /\ Head(replies).id = worker.waits
      /\ Head(replies).result = "ok"
  BY <1>1, AnswersShrink
<1>3. 1 \in DOMAIN replies /\ Head(replies) = replies[1]
  BY <1>2, SeqTails DEF CenterInv, CenterTyped
<1>4. requests = << >> /\ Idle /\ Held
  BY <1>1, <1>2, <1>3 DEF CenterInv, SuspensionIsLast, Answering
<1>5. worker' \in Workers /\ worker'.at = "flashing" /\ worker'.slot = worker.slot
  <2>1. worker \in Workers /\ "flashing" \in WorkerSteps /\ 0 \in Nat
    BY DEF CenterInv, CenterTyped, WorkerSteps
  <2>2. worker' \in Workers
    BY <1>1, <2>1, Zenon DEF Workers
  <2>3. worker'.at = "flashing" /\ worker'.slot = worker.slot
    BY <1>1, <2>1, Zenon DEF Workers
  <2> QED
    BY <2>2, <2>3
<1>6. /\ window' \in Windows /\ window'.open = window.open /\ window'.generation = window.generation
      /\ window'.activity = window.activity /\ window'.catalog = window.catalog
  <2>1. window \in Windows /\ TRUE \in BOOLEAN
    BY DEF CenterInv, CenterTyped
  <2>2. window' \in Windows
    BY <1>1, <2>1, Zenon DEF Windows
  <2>3. window'.open = window.open /\ window'.generation = window.generation
        /\ window'.activity = window.activity /\ window'.catalog = window.catalog
    BY <1>1, <2>1, Zenon DEF Windows
  <2> QED
    BY <2>2, <2>3
<1>7. worker.at # "done"
  BY <1>1
<1> QED
  BY <1>1, <1>2, <1>4, <1>5, <1>6, <1>7, GoesOnKeeps

LEMMA StartWritingKeeps == CenterInv /\ StartWriting => CenterInv'
<1> SUFFICES ASSUME CenterInv, StartWriting PROVE CenterInv'
  OBVIOUS
<1>1. /\ worker.at = "flashing" /\ worker' = [worker EXCEPT !.at = "writing"]
      /\ events' = Append(events, "writing") /\ RepliesShrink
      /\ UNCHANGED <<window, requests, host, runtime>>
  BY DEF StartWriting, RepliesShrink
<1>2. worker' \in Workers /\ worker'.at = "writing" /\ worker'.slot = worker.slot
  <2>1. worker \in Workers /\ "writing" \in WorkerSteps
    BY DEF CenterInv, CenterTyped, WorkerSteps
  <2>2. worker' \in Workers
    BY <1>1, <2>1, Zenon DEF Workers
  <2>3. worker'.at = "writing" /\ worker'.slot = worker.slot
    BY <1>1, <2>1, Zenon DEF Workers
  <2> QED
    BY <2>2, <2>3
<1>3. requests = << >> /\ Idle /\ Held /\ worker.at # "done" /\ window' \in Windows
  BY <1>1 DEF CenterInv, FlashHolds, CenterTyped
<1> QED
  BY <1>1, <1>2, <1>3, GoesOnKeeps

LEMMA SuspensionFailedKeeps == CenterInv /\ SuspensionFailed => CenterInv'
<1> SUFFICES ASSUME CenterInv, SuspensionFailed PROVE CenterInv'
  OBVIOUS
<1>1. /\ worker.at # "done" /\ Answered("error") /\ Request("resume", "recovering")
      /\ UNCHANGED <<window, events, runtime>>
  BY DEF SuspensionFailed
<1>2. RepliesShrink
  BY <1>1, AnswersShrink
<1> QED
  BY <1>1, <1>2, AsksParentKeeps DEF Operations

LEMMA FlashEndsKeeps == CenterInv /\ FlashEnds => CenterInv'
<1> SUFFICES ASSUME CenterInv, FlashEnds PROVE CenterInv'
  OBVIOUS
<1>1. /\ worker.at # "done" /\ Request("resume", "resuming") /\ RepliesShrink
      /\ UNCHANGED <<window, events, runtime>>
  BY DEF FlashEnds, RepliesShrink
<1> QED
  BY <1>1, AsksParentKeeps DEF Operations

LEMMA RequestEndsKeeps == CenterInv /\ RequestEnds => CenterInv'
<1> SUFFICES ASSUME CenterInv, RequestEnds PROVE CenterInv'
  OBVIOUS
<1>1. /\ worker.at # "done" /\ window' = [window EXCEPT !.session = FALSE]
      /\ UNCHANGED <<requests, host, runtime>>
  BY DEF RequestEnds
<1>2. PICK result \in {"ok", "error"} :
        Answered(result) /\ Finishes(IF worker.at = "quitting" /\ result = "ok" THEN "quit" ELSE "finished")
  BY DEF RequestEnds
<1>3. RepliesShrink
  BY <1>2, AnswersShrink
<1>4. PICK e \in {"loaded", "failed", "finished", "quit"} : Finishes(e)
  BY <1>2
<1>5. /\ window' \in Windows /\ window'.open = window.open /\ window'.generation = window.generation
      /\ window'.activity = window.activity /\ window'.catalog = window.catalog
  <2>1. window \in Windows /\ FALSE \in BOOLEAN
    BY DEF CenterInv, CenterTyped
  <2>2. window' \in Windows
    BY <1>1, <2>1, Zenon DEF Windows
  <2>3. window'.open = window.open /\ window'.generation = window.generation
        /\ window'.activity = window.activity /\ window'.catalog = window.catalog
    BY <1>1, <2>1, Zenon DEF Windows
  <2> QED
    BY <2>2, <2>3
<1> QED
  BY <1>1, <1>3, <1>4, <1>5, FinishesKeeps

-----------------------------------------------------------------------------
(* The parent's steps and the runtime's.                                   *)

LEMMA RequestIsTaken ==
  ASSUME CenterInv, requests # << >>, requests' = Tail(requests)
  PROVE  /\ requests' \in Seq(WindowRequest) /\ Head(requests) \in WindowRequest
         /\ Head(requests) = requests[1] /\ 1 \in DOMAIN requests
         /\ \A i \in DOMAIN requests' : /\ i + 1 \in DOMAIN requests /\ requests'[i] = requests[i + 1]
                                        /\ i = Len(requests') <=> i + 1 = Len(requests)
         /\ Len(requests) = 1 => requests' = << >>
         /\ Len(requests) # 1 =>
              requests' # << >> /\ requests'[Len(requests')] = requests[Len(requests)]
  BY SeqTails DEF CenterInv, CenterTyped

LEMMA ReplyIsSent ==
  ASSUME CenterInv, NEW id \in Nat, id < host.next_id, NEW result \in {"ok", "error"},
         replies' = Append(replies, [id |-> id, result |-> result])
  PROVE  /\ replies' \in Seq(WindowReply)
         /\ \A i \in DOMAIN replies' :
              \/ replies'[i].id = id /\ replies'[i].result = result
              \/ i \in DOMAIN replies /\ replies'[i] = replies[i]
         /\ \A i \in DOMAIN replies' : replies'[i].id < host.next_id
<1> DEFINE m == [id |-> id, result |-> result]
<1>1. m \in WindowReply /\ replies \in Seq(WindowReply) /\ m.id = id /\ m.result = result
  BY DEF WindowReply, CenterInv, CenterTyped
<1> HIDE DEF m
<1>2. /\ replies' \in Seq(WindowReply)
      /\ \A i \in DOMAIN replies' : replies'[i] = m \/ (i \in DOMAIN replies /\ replies'[i] = replies[i])
  <2>1. replies' = Append(replies, m)
    BY DEF m
  <2> QED
    BY <1>1, <2>1, SeqAppends
<1> QED
  BY <1>1, <1>2 DEF CenterInv, IdsAreIssued

\* The window's side across a step of its parent.
LEMMA WindowWaits ==
  ASSUME CenterInv, UNCHANGED <<window, worker, events>>
  PROVE  WorkerIsAwaited'
  BY DEF CenterInv, WorkerIsAwaited, Terminal

LEMMA TakeRequestKeeps == CenterInv /\ TakeRequest => CenterInv'
<1> SUFFICES ASSUME CenterInv, TakeRequest PROVE CenterInv'
  OBVIOUS
<1> DEFINE m == Head(requests)
<1>1. /\ Idle /\ requests # << >> /\ requests' = Tail(requests) /\ UNCHANGED <<window, worker, events>>
  BY DEF TakeRequest
<1>2. /\ requests' \in Seq(WindowRequest) /\ m \in WindowRequest
      /\ m = requests[1] /\ 1 \in DOMAIN requests
      /\ \A i \in DOMAIN requests' : /\ i + 1 \in DOMAIN requests /\ requests'[i] = requests[i + 1]
                                     /\ i = Len(requests') <=> i + 1 = Len(requests)
      /\ Len(requests) = 1 => requests' = << >>
      /\ Len(requests) # 1 =>
           requests' # << >> /\ requests'[Len(requests')] = requests[Len(requests)]
  BY <1>1, RequestIsTaken
<1>3. m.id < host.next_id /\ m.id \in Nat /\ host.next_id \in Nat
  BY <1>2 DEF CenterInv, IdsAreIssued, WindowRequest, CenterTyped, Hosts
<1> HIDE DEF m
<1>4. host.generation # Nobody /\ worker.at \notin {"flashing", "writing"}
  BY <1>1 DEF CenterInv, GenerationIsCurrent, FlashHolds
<1>5. FlashHolds' /\ WorkerIsAwaited'
  BY <1>1, <1>4, WindowWaits DEF FlashHolds
<1>6. worker.at = "suspending" =>
        /\ window.open /\ host.generation = window.generation
        /\ requests[Len(requests)] = Suspension
        /\ \A i \in DOMAIN requests : i # Len(requests) => requests[i].id # worker.waits
        /\ \A i \in DOMAIN replies : ~Answering(i)
  BY <1>1 DEF CenterInv, SuspensionIsLast, WorkerIsAwaited, GenerationIsCurrent
<1>7. worker.at = "suspending" /\ Len(requests) # 1 =>
        /\ m.id # worker.waits /\ requests' # << >> /\ requests'[Len(requests')] = Suspension'
        /\ \A i \in DOMAIN requests' : i # Len(requests') => requests'[i].id # worker.waits
  BY <1>1, <1>2, <1>6 DEF Suspension
<1>8. worker.at = "suspending" /\ Len(requests) = 1 =>
        /\ m = Suspension /\ m.generation = host.generation /\ m.operation = "suspend"
        /\ requests' = << >>
  BY <1>2, <1>6 DEF Suspension
<1>9. \A i \in DOMAIN requests' : requests'[i].id < host.next_id
  BY <1>2 DEF CenterInv, IdsAreIssued
<1>10. CASE m.generation # host.generation /\ UNCHANGED <<host, runtime, replies>>
  <2>1. CenterTyped' /\ IdsAreIssued'
    BY <1>1, <1>2, <1>9, <1>10 DEF CenterInv, CenterTyped, IdsAreIssued
  <2>2. GenerationIsCurrent' /\ LastIsObeyed'
    BY <1>1, <1>4, <1>10 DEF CenterInv, GenerationIsCurrent, LastIsObeyed
  <2>3. SuspensionIsLast'
    BY <1>1, <1>6, <1>7, <1>8, <1>10 DEF SuspensionIsLast, Answering, Idle
  <2> QED
    BY <1>5, <2>1, <2>2, <2>3 DEF CenterInv
<1>11. CASE m.operation = "quit" /\ UNCHANGED <<host, runtime>>
            /\ replies' = Append(replies, [id |-> m.id, result |-> "ok"])
  <2>1. /\ replies' \in Seq(WindowReply)
        /\ \A i \in DOMAIN replies' : replies'[i].id = m.id \/ (i \in DOMAIN replies /\ replies'[i] = replies[i])
        /\ \A i \in DOMAIN replies' : replies'[i].id < host.next_id
    BY <1>3, <1>11, ReplyIsSent
  <2>2. CenterTyped' /\ IdsAreIssued'
    BY <1>1, <1>2, <1>9, <1>11, <2>1 DEF CenterInv, CenterTyped, IdsAreIssued
  <2>3. GenerationIsCurrent' /\ LastIsObeyed'
    BY <1>1, <1>4, <1>11 DEF CenterInv, GenerationIsCurrent, LastIsObeyed
  <2>4. worker.at = "suspending" => \A i \in DOMAIN replies' : replies'[i].id # worker.waits
    BY <1>6, <1>7, <1>8, <1>11, <2>1 DEF Answering
  <2>5. SuspensionIsLast'
    BY <1>1, <1>6, <1>7, <1>8, <1>11, <2>4 DEF SuspensionIsLast, Answering, Idle
  <2> QED
    BY <1>5, <2>2, <2>3, <2>5 DEF CenterInv
<1>12. CASE m.operation # "quit" /\ host' = [host EXCEPT !.serving = m] /\ Command(m.operation)
            /\ UNCHANGED replies
  <2>1. host \in Hosts /\ runtime \in Runtimes
    BY DEF CenterInv, CenterTyped
  <2>2. host' \in Hosts
    BY <1>2, <1>12, <2>1, Zenon DEF Hosts
  <2>3. /\ host'.serving = m /\ host'.generation = host.generation /\ host'.owner = host.owner
        /\ host'.recovery = host.recovery /\ host'.next_id = host.next_id
    BY <1>12, <2>1, Zenon DEF Hosts
  <2> DEFINE c == Append(runtime.commands, m.operation)
  <2>4. c \in Seq(Operations) /\ Nobody \in Operations \cup {Nobody}
    BY <1>2, <2>1, SeqAppends DEF Runtimes, WindowRequest
  <2>5. runtime' = [runtime EXCEPT !.commands = c, !.last = Nobody]
    BY <1>12 DEF Command
  <2> HIDE DEF c
  <2>6. runtime' \in Runtimes
    BY <2>1, <2>4, <2>5, Zenon DEF Runtimes
  <2>7. runtime'.last = Nobody
    BY <2>1, <2>5, Zenon DEF Runtimes
  <2>8. CenterTyped' /\ IdsAreIssued'
    BY <1>1, <1>2, <1>3, <1>9, <1>12, <2>2, <2>3, <2>6 DEF CenterInv, CenterTyped, IdsAreIssued
  <2>9. GenerationIsCurrent' /\ LastIsObeyed'
    BY <1>1, <1>4, <2>3, <2>7 DEF CenterInv, GenerationIsCurrent, LastIsObeyed
  <2>10. SuspensionIsLast'
    BY <1>1, <1>6, <1>7, <1>8, <1>12, <2>3 DEF SuspensionIsLast, Answering, Idle, Suspension
  <2> QED
    BY <1>5, <2>8, <2>9, <2>10 DEF CenterInv
<1> QED
  BY <1>10, <1>11, <1>12 DEF TakeRequest, m

\* What the parent answers is at its end: the command was obeyed last, or the
\* parent gave up.
LEMMA ServiceEnds ==
  ASSUME CenterInv, ~Idle, NEW result \in {"ok", "error"}, Reply(result),
         UNCHANGED <<window, worker, events, requests, runtime>>,
         host' \in Hosts, host'.serving = Nobody, host'.generation = host.generation,
         host'.next_id = host.next_id, host'.recovery = host.recovery,
         result = "ok" /\ host.serving.operation = "suspend" =>
           /\ runtime.suspended /\ runtime.commands = << >> /\ host'.owner = host.generation
  PROVE  CenterInv'
<1> DEFINE id == host.serving.id
<1>1. host.serving \in WindowRequest /\ id \in Nat /\ id < host.next_id
  BY DEF CenterInv, CenterTyped, IdsAreIssued, Hosts, Idle, WindowRequest
<1>2. replies' = Append(replies, [id |-> id, result |-> result])
  BY DEF Reply
<1> HIDE DEF id
<1>3. /\ replies' \in Seq(WindowReply)
      /\ \A i \in DOMAIN replies' :
           \/ replies'[i].id = id /\ replies'[i].result = result
           \/ i \in DOMAIN replies /\ replies'[i] = replies[i]
      /\ \A i \in DOMAIN replies' : replies'[i].id < host.next_id
  BY <1>1, <1>2, ReplyIsSent
<1>4. CenterTyped' /\ IdsAreIssued'
  BY <1>3 DEF CenterInv, CenterTyped, IdsAreIssued
<1>5. host.generation # Nobody
  BY DEF CenterInv, GenerationIsCurrent
<1>6. GenerationIsCurrent' /\ LastIsObeyed' /\ WorkerIsAwaited'
  BY <1>5, WindowWaits DEF CenterInv, GenerationIsCurrent, LastIsObeyed
<1>7. FlashHolds'
  BY DEF CenterInv, FlashHolds
<1>8. SuspensionIsLast'
  <2> SUFFICES ASSUME worker.at = "suspending" PROVE SuspensionIsLast'
    BY DEF SuspensionIsLast
  <2>1. host.generation = window.generation
    BY DEF CenterInv, WorkerIsAwaited, GenerationIsCurrent
  <2>2. CASE /\ requests # << >> /\ requests[Len(requests)] = Suspension
             /\ \A i \in DOMAIN requests : i # Len(requests) => requests[i].id # worker.waits
             /\ \A i \in DOMAIN replies : ~Answering(i)
             /\ host.serving.id # worker.waits
    <3>1. \A i \in DOMAIN replies' : replies'[i].id # worker.waits
      BY <1>3, <2>2 DEF Answering, id
    <3> QED
      BY <2>2, <3>1 DEF SuspensionIsLast, Answering, Idle, Suspension
  <2>3. CASE /\ requests = << >> /\ host.serving = Suspension
             /\ \A i \in DOMAIN replies : ~Answering(i)
    <3>1. host.serving.operation = "suspend"
      BY <2>3 DEF Suspension
    <3>2. ASSUME NEW i \in DOMAIN replies', replies'[i].id = worker.waits, replies'[i].result = "ok"
          PROVE  Held'
      BY <1>3, <2>1, <2>3, <3>1, <3>2 DEF Answering, Held
    <3> QED
      BY <2>3, <3>2 DEF SuspensionIsLast, Answering, Idle
  <2> QED
    BY <2>2, <2>3 DEF CenterInv, SuspensionIsLast
<1> QED
  BY <1>4, <1>6, <1>7, <1>8 DEF CenterInv

LEMMA ServedKeeps == CenterInv /\ Served => CenterInv'
<1> SUFFICES ASSUME CenterInv, Served PROVE CenterInv'
  OBVIOUS
<1> DEFINE o == IF host.serving.operation = "suspend" THEN host.generation ELSE Nobody
<1>1. /\ ~Idle /\ runtime.last = host.serving.operation /\ Reply("ok")
      /\ host' = [host EXCEPT !.serving = Nobody, !.owner = o]
      /\ UNCHANGED <<window, worker, events, requests, runtime>>
  BY DEF Served
<1>2. /\ host \in Hosts /\ o \in Nat \cup {Nobody} /\ Nobody \in WindowRequest \cup {Nobody}
      /\ host.serving \in WindowRequest
  BY <1>1 DEF CenterInv, CenterTyped, Hosts, Idle
<1>3. host.serving.operation = "suspend" => o = host.generation
  OBVIOUS
<1> HIDE DEF o
<1>4. host' \in Hosts
  BY <1>1, <1>2, Zenon DEF Hosts
<1>5. /\ host'.serving = Nobody /\ host'.generation = host.generation /\ host'.owner = o
      /\ host'.next_id = host.next_id /\ host'.recovery = host.recovery
  BY <1>1, <1>2, Zenon DEF Hosts
<1>6. host.serving.operation = "suspend" => runtime.suspended /\ runtime.commands = << >>
  BY <1>1, CenterAssumption DEF CenterInv, LastIsObeyed
<1> QED
  BY <1>1, <1>3, <1>4, <1>5, <1>6, ServiceEnds

LEMMA ServiceTimesOutKeeps == CenterInv /\ ServiceTimesOut => CenterInv'
<1> SUFFICES ASSUME CenterInv, ServiceTimesOut PROVE CenterInv'
  OBVIOUS
<1> DEFINE a == host.abandoned \/ host.serving.operation = "suspend"
<1>1. /\ ~Idle /\ Reply("error")
      /\ host' = [host EXCEPT !.serving = Nobody, !.abandoned = a]
      /\ UNCHANGED <<window, worker, events, requests, runtime>>
  BY DEF ServiceTimesOut
<1>2. host \in Hosts /\ a \in BOOLEAN /\ Nobody \in WindowRequest \cup {Nobody}
  BY DEF CenterInv, CenterTyped
<1> HIDE DEF a
<1>4. host' \in Hosts
  BY <1>1, <1>2, Zenon DEF Hosts
<1>5. /\ host'.serving = Nobody /\ host'.generation = host.generation
      /\ host'.next_id = host.next_id /\ host'.recovery = host.recovery
  BY <1>1, <1>2, Zenon DEF Hosts
<1> QED
  BY <1>1, <1>4, <1>5, ServiceEnds

\* A step that only a closed window sees.
LEMMA NobodyWaits ==
  ASSUME CenterInv, CenterTyped', IdsAreIssued', GenerationIsCurrent', LastIsObeyed',
         worker'.at = "done", events' = << >> \/ UNCHANGED <<window, worker, events>>
  PROVE  CenterInv'
<1>1. WorkerIsAwaited'
  <2>1. CASE events' = << >>
    BY <2>1, SeqIsEmpty DEF WorkerIsAwaited
  <2>2. CASE UNCHANGED <<window, worker, events>>
    BY <2>2, WindowWaits
  <2> QED
    BY <2>1, <2>2
<1>2. SuspensionIsLast' /\ FlashHolds'
  BY DEF SuspensionIsLast, FlashHolds
<1> QED
  BY <1>1, <1>2 DEF CenterInv

LEMMA ReapKeeps == CenterInv /\ Reap => CenterInv'
<1> SUFFICES ASSUME CenterInv, Reap PROVE CenterInv'
  OBVIOUS
<1>1. /\ Idle /\ ~window.open /\ host' = [host EXCEPT !.generation = Nobody] /\ host.generation # Nobody
      /\ requests' = << >> /\ replies' = << >> /\ events' = << >> /\ UNCHANGED <<window, worker, runtime>>
  BY DEF Reap, Alive
<1>2. host \in Hosts /\ Nobody \in Nat \cup {Nobody}
  BY DEF CenterInv, CenterTyped
<1>3. host' \in Hosts
  BY <1>1, <1>2, Zenon DEF Hosts
<1>4. host'.serving = host.serving /\ host'.generation = Nobody /\ host'.next_id = host.next_id
      /\ host'.recovery = host.recovery
  BY <1>1, <1>2, Zenon DEF Hosts
<1>5. CenterTyped' /\ IdsAreIssued'
  BY <1>1, <1>3, <1>4, SeqIsEmpty DEF CenterInv, CenterTyped, IdsAreIssued, Idle
<1>6. GenerationIsCurrent' /\ LastIsObeyed'
  BY <1>1, <1>4 DEF CenterInv, GenerationIsCurrent, LastIsObeyed, Idle
<1>7. worker'.at = "done"
  BY <1>1 DEF CenterInv, WorkerIsAwaited
<1> QED
  BY <1>1, <1>5, <1>6, <1>7, NobodyWaits

LEMMA StartRecoveryKeeps == CenterInv /\ StartRecovery => CenterInv'
<1> SUFFICES ASSUME CenterInv, StartRecovery PROVE CenterInv'
  OBVIOUS
<1>1. /\ Idle /\ host.owner # Nobody /\ host.generation = Nobody
      /\ host' = [host EXCEPT !.recovery = "waiting"] /\ Command("resume")
      /\ UNCHANGED <<window, worker, events, requests, replies>>
  BY DEF StartRecovery, suspension_recovery_needed
<1>2. host \in Hosts /\ runtime \in Runtimes /\ "waiting" \in {"idle", "waiting"}
  BY DEF CenterInv, CenterTyped
<1>3. host' \in Hosts
  BY <1>1, <1>2, Zenon DEF Hosts
<1>4. host'.serving = host.serving /\ host'.generation = host.generation /\ host'.next_id = host.next_id
      /\ host'.owner = host.owner
  BY <1>1, <1>2, Zenon DEF Hosts
<1> DEFINE c == Append(runtime.commands, "resume")
<1>5. c \in Seq(Operations) /\ Nobody \in Operations \cup {Nobody}
  BY <1>2, SeqAppends DEF Runtimes, Operations
<1>6. runtime' = [runtime EXCEPT !.commands = c, !.last = Nobody]
  BY <1>1 DEF Command
<1> HIDE DEF c
<1>7. runtime' \in Runtimes
  BY <1>2, <1>5, <1>6, Zenon DEF Runtimes
<1>8. runtime'.last = Nobody
  BY <1>2, <1>6, Zenon DEF Runtimes
<1>9. CenterTyped' /\ IdsAreIssued' /\ LastIsObeyed'
  BY <1>1, <1>3, <1>4, <1>7, <1>8 DEF CenterInv, CenterTyped, IdsAreIssued, LastIsObeyed
<1>10. GenerationIsCurrent'
  BY <1>1, <1>4 DEF CenterInv, GenerationIsCurrent, Idle
<1>11. worker'.at = "done"
  BY <1>1 DEF CenterInv, WorkerIsAwaited, GenerationIsCurrent
<1> QED
  BY <1>1, <1>9, <1>10, <1>11, NobodyWaits

LEMMA RecoveryEndsKeeps == CenterInv /\ RecoveryEnds => CenterInv'
<1> SUFFICES ASSUME CenterInv, RecoveryEnds PROVE CenterInv'
  OBVIOUS
<1>1. /\ Idle /\ host.recovery = "waiting"
      /\ host' = [host EXCEPT !.recovery = "idle", !.owner = Nobody]
      /\ UNCHANGED <<window, worker, events, requests, replies, runtime>>
  BY DEF RecoveryEnds
<1>2. host \in Hosts /\ "idle" \in {"idle", "waiting"} /\ Nobody \in Nat \cup {Nobody}
  BY DEF CenterInv, CenterTyped
<1>3. host' \in Hosts
  BY <1>1, <1>2, Zenon DEF Hosts
<1>4. host'.serving = host.serving /\ host'.generation = host.generation /\ host'.next_id = host.next_id
      /\ host'.recovery = "idle"
  BY <1>1, <1>2, Zenon DEF Hosts
<1>5. CenterTyped' /\ IdsAreIssued' /\ LastIsObeyed'
  BY <1>1, <1>3, <1>4 DEF CenterInv, CenterTyped, IdsAreIssued, LastIsObeyed
<1>6. GenerationIsCurrent'
  BY <1>1, <1>4 DEF CenterInv, GenerationIsCurrent, Idle
<1>7. worker'.at = "done"
  BY <1>1 DEF CenterInv, WorkerIsAwaited, GenerationIsCurrent
<1> QED
  BY <1>1, <1>5, <1>6, <1>7, NobodyWaits

LEMMA LaunchKeeps == CenterInv /\ Launch => CenterInv'
<1> SUFFICES ASSUME CenterInv, Launch PROVE CenterInv'
  OBVIOUS
<1> DEFINE n == host.next
           next == n + 1
<1>1. /\ Idle /\ host.generation = Nobody /\ host.owner = Nobody
      /\ host' = [host EXCEPT !.generation = n, !.next = next]
      /\ window' = NewWindow(n) /\ worker' = NoWorker
      /\ UNCHANGED <<events, requests, replies, runtime>>
  BY DEF Launch
<1>2. host \in Hosts /\ n \in Nat /\ n \in Nat \cup {Nobody} /\ next \in Nat /\ n # Nobody
  BY CenterAssumption DEF CenterInv, CenterTyped, Hosts
<1> HIDE DEF n, next
<1>3. host' \in Hosts
  BY <1>1, <1>2, Zenon DEF Hosts
<1>4. host'.serving = host.serving /\ host'.generation = n /\ host'.next_id = host.next_id
      /\ host'.recovery = host.recovery
  BY <1>1, <1>2, Zenon DEF Hosts
<1>5. window' \in Windows
  <2>1. /\ TRUE \in BOOLEAN /\ FALSE \in BOOLEAN /\ "events" \in {"events", "panic", "input"}
        /\ "idle" \in Activities /\ "unasked" \in {"unasked", "checking", "loaded", "failed"} /\ 0 \in Nat
    BY DEF Activities
  <2> QED
    BY <1>1, <1>2, <2>1, Zenon DEF NewWindow, Windows
<1>6. window'.generation = n
  BY <1>1, Zenon DEF NewWindow
<1>7. CenterTyped' /\ IdsAreIssued' /\ LastIsObeyed'
  BY <1>1, <1>3, <1>4, <1>5, WorkerIsGone DEF CenterInv, CenterTyped, IdsAreIssued, LastIsObeyed
<1>8. GenerationIsCurrent'
  BY <1>1, <1>2, <1>4, <1>6 DEF CenterInv, GenerationIsCurrent
<1>9. worker'.at = "done" /\ events' = << >>
  BY <1>1, WorkerIsGone DEF CenterInv, GenerationIsCurrent
<1> QED
  BY <1>7, <1>8, <1>9, NobodyWaits

\* The runtime obeys in order, and has nothing to obey while a suspension that
\* was acknowledged holds.
LEMMA ObeyKeeps == CenterInv /\ Obey => CenterInv'
<1> SUFFICES ASSUME CenterInv, Obey PROVE CenterInv'
  OBVIOUS
<1> DEFINE c == runtime.commands
           s == Head(c) = "suspend"
           l == IF Len(c) = 1 THEN Head(c) ELSE Nobody
           t == Tail(c)
<1>1. /\ c # << >> /\ runtime' = [suspended |-> s, commands |-> t, last |-> l]
      /\ UNCHANGED <<window, worker, events, requests, replies, host>>
  BY Zenon DEF Obey
<1>2. c \in Seq(Operations)
  BY DEF CenterInv, CenterTyped, Runtimes
<1>3. /\ t \in Seq(Operations) /\ Head(c) \in Operations
      /\ Len(c) = 1 => t = << >>
  BY <1>1, <1>2, SeqTails
<1>4. s \in BOOLEAN /\ l \in Operations \cup {Nobody}
  BY <1>3
<1>5. l # Nobody => t = << >> /\ (l = "suspend" => s)
  BY <1>3
<1> HIDE DEF s, l, t
<1>6. runtime' \in Runtimes
  BY <1>1, <1>3, <1>4, Zenon DEF Runtimes
<1>7. runtime'.commands = t /\ runtime'.last = l
  BY <1>1, Zenon
<1>8. runtime'.suspended = s
  BY <1>1, Zenon
<1>9. CenterTyped' /\ IdsAreIssued' /\ LastIsObeyed'
  <2>1. LastIsObeyed'
    BY <1>5, <1>7, <1>8, Zenon DEF LastIsObeyed
  <2> QED
    BY <1>1, <1>6, <2>1 DEF CenterInv, CenterTyped, IdsAreIssued
<1>10. GenerationIsCurrent' /\ WorkerIsAwaited'
  BY <1>1, WindowWaits DEF CenterInv, GenerationIsCurrent, Idle
<1>11. ~Held
  BY <1>1 DEF Held
<1>12. SuspensionIsLast' /\ FlashHolds'
  BY <1>1, <1>11 DEF CenterInv, SuspensionIsLast, FlashHolds, Answering, Suspension, Idle
<1> QED
  BY <1>9, <1>10, <1>12 DEF CenterInv

-----------------------------------------------------------------------------

LEMMA CenterStarts == CenterInit => CenterInv
<1> SUFFICES ASSUME CenterInit PROVE CenterInv
  OBVIOUS
<1> DEFINE n == NewWindow(0)
           h == [generation |-> Nobody, next |-> 1, owner |-> Nobody, serving |-> Nobody,
                 recovery |-> "idle", abandoned |-> FALSE, next_id |-> 1]
           r == [suspended |-> FALSE, commands |-> << >>, last |-> Nobody]
<1>1. /\ window = [n EXCEPT !.open = FALSE] /\ worker = NoWorker /\ host = h /\ runtime = r
      /\ events = << >> /\ requests = << >> /\ replies = << >>
  BY Zenon DEF CenterInit
<1>2. /\ TRUE \in BOOLEAN /\ FALSE \in BOOLEAN /\ "events" \in {"events", "panic", "input"}
      /\ "idle" \in Activities /\ "unasked" \in {"unasked", "checking", "loaded", "failed"}
      /\ 0 \in Nat /\ 1 \in Nat /\ Nobody \in Nat \cup {Nobody} /\ "idle" \in {"idle", "waiting"}
      /\ Nobody \in WindowRequest \cup {Nobody} /\ Nobody \in Operations \cup {Nobody}
  BY DEF Activities
<1>3. n \in Windows
  BY <1>2, Zenon DEF NewWindow, Windows
<1> HIDE DEF n
<1>4. window \in Windows
  BY <1>1, <1>2, <1>3, Zenon DEF Windows
<1>5. ~window.open
  BY <1>1, <1>3, Zenon DEF Windows
<1>6. << >> \in Seq(Operations) /\ << >> \in Seq(WorkerEvents) /\ << >> \in Seq(WindowRequest)
      /\ << >> \in Seq(WindowReply)
  BY SeqIsEmpty
<1>7. h \in Hosts
  BY <1>2, Zenon DEF Hosts
<1>8. r \in Runtimes
  BY <1>2, <1>6, Zenon DEF Runtimes
<1>9. h.generation = Nobody /\ h.serving = Nobody /\ h.recovery = "idle" /\ r.last = Nobody
  BY Zenon
<1> HIDE DEF h, r
<1>10. CenterTyped
  BY <1>1, <1>4, <1>6, <1>7, <1>8, WorkerIsGone DEF CenterTyped
<1>11. IdsAreIssued
  BY <1>1, <1>9, SeqIsEmpty DEF IdsAreIssued
<1>12. GenerationIsCurrent /\ LastIsObeyed
  BY <1>1, <1>5, <1>9 DEF GenerationIsCurrent, LastIsObeyed, Idle
<1>13. WorkerIsAwaited /\ SuspensionIsLast /\ FlashHolds
  BY <1>1, WorkerIsGone, SeqIsEmpty DEF WorkerIsAwaited, SuspensionIsLast, FlashHolds
<1> QED
  BY <1>10, <1>11, <1>12, <1>13 DEF CenterInv

LEMMA CenterStutters == CenterInv /\ UNCHANGED centerVars => CenterInv'
<1> SUFFICES ASSUME CenterInv, UNCHANGED centerVars PROVE CenterInv'
  OBVIOUS
<1>1. /\ UNCHANGED <<events, requests, replies, host, runtime>> /\ worker' = worker /\ window' = window
      /\ window \in Windows
  BY DEF centerVars, CenterInv, CenterTyped
<1> QED
  BY <1>1, WindowStays

\* While a board is written the bridge stays suspended for this window, whatever
\* is late, abandoned, crashes or is asked meanwhile.
THEOREM FlashUndisturbed == CenterSpec => []FlashIsUndisturbed
<1>1. CenterInv /\ [CenterNext]_centerVars => CenterInv'
  <2>1. CenterInv /\ Frame => CenterInv'
    BY DrainEventKeeps, EventsDrainedKeeps, DetectPanicKeeps, CloseKeeps, PaintKeeps DEF Frame
  <2>2. CenterInv /\ Worker => CenterInv'
    BY WorkKeeps, SkipReplyKeeps, BeginSessionKeeps, SuspensionFailedKeeps, StartWritingKeeps,
       FlashEndsKeeps, RequestEndsKeeps DEF Worker
  <2>3. CenterInv /\ Parent => CenterInv'
    BY TakeRequestKeeps, ServedKeeps, ServiceTimesOutKeeps, ReapKeeps, StartRecoveryKeeps,
       RecoveryEndsKeeps DEF Parent
  <2> QED
    BY <2>1, <2>2, <2>3, CloseRequestedKeeps, CancelPressedKeeps, CrashKeeps, ObeyKeeps,
       LaunchKeeps, CenterStutters DEF CenterNext
<1>2. CenterInv => FlashIsUndisturbed
  BY DEF CenterInv, FlashHolds, WorkerIsAwaited, Held, FlashIsUndisturbed
<1> QED
  BY <1>1, <1>2, CenterStarts, PTL DEF CenterSpec

-----------------------------------------------------------------------------
(* InstallReceipt.                                                         *)

\* A slot is blank, or holds words of a receipt; at most one slot is valid.
SlotsInv ==
  /\ \A i \in SlotIndex : slots[i].receipt = None => slots[i] = BlankSlot
  /\ \A i \in SlotIndex : slots[i].torn => slots[i].words < Words
  /\ \A i, j \in ValidSlots : i = j

\* A write has programmed the words before its next one, in a slot that was
\* blank, on a page that held no receipt.
WriteInv ==
  write # None =>
    /\ marker /\ request \in WellFormed
    /\ LET slot == slots[write.slot]
       IN  /\ slot.words = write.word - 1 /\ ~slot.torn
           /\ slot.words # 0 => slot.receipt = request
    /\ \A i \in ValidSlots : i = write.slot

\* What was acknowledged is in a valid slot, and nothing is written then.
AcknowledgedInv ==
  /\ \A r \in acknowledged :
       /\ marker
       /\ \E i \in ValidSlots : slots[i].receipt = r
  /\ acknowledged # {} => write = None

ReceiptInv == TypeOK /\ SlotsInv /\ WriteInv /\ AcknowledgedInv

-----------------------------------------------------------------------------
(* What a read of the page finds.                                          *)

\* A valid slot holds a receipt.
LEMMA ValidHoldsReceipt ==
  ASSUME TypeOK, SlotsInv, NEW i \in ValidSlots
  PROVE  slots[i].receipt \in Receipts
BY WordsAssumption, ReceiptAssumption
   DEF TypeOK, SlotsInv, ValidSlots, validate_install_receipt, Slot, BlankSlot

\* With a valid slot in a marked page, a read finds its receipt.
LEMMA ReadFindsValid ==
  ASSUME TypeOK, SlotsInv, marker, NEW i \in ValidSlots
  PROVE  read_install_receipt = slots[i].receipt
<1>1. First(ValidSlots) = i
  BY DEF SlotsInv, First, ValidSlots, SlotIndex
<1> QED
  BY <1>1 DEF read_install_receipt

\* Without one, a read finds no receipt.
LEMMA ReadFindsNone ==
  ASSUME ValidSlots = {}
  PROVE  /\ read_install_receipt \in {Blank, Corrupt}
         /\ read_install_receipt \notin Receipts
BY ReceiptAssumption DEF read_install_receipt

\* A page that reads as blank is marked, has no valid slot and a blank one.
LEMMA ReadFindsBlank ==
  ASSUME TypeOK, SlotsInv, read_install_receipt = Blank
  PROVE  /\ marker /\ ValidSlots = {}
         /\ First(BlankSlots) \in BlankSlots
<1>1. marker
  BY ReceiptAssumption DEF read_install_receipt
<1>2. ValidSlots = {}
  BY <1>1, ReadFindsValid, ValidHoldsReceipt, ReceiptAssumption
<1>3. BlankSlots # {}
  BY <1>2, ReceiptAssumption DEF read_install_receipt
<1> QED
  BY <1>1, <1>2, <1>3 DEF First, BlankSlots, SlotIndex

\* A page that holds a receipt is marked, and a valid slot holds it.
LEMMA ReadFindsReceipt ==
  ASSUME read_install_receipt \in Receipts
  PROVE  /\ marker
         /\ \E i \in ValidSlots : slots[i].receipt = read_install_receipt
<1>1. marker /\ ValidSlots # {}
  BY ReceiptAssumption DEF read_install_receipt
<1> QED
  BY <1>1 DEF read_install_receipt, First, ValidSlots, SlotIndex

-----------------------------------------------------------------------------
(* The slot in progress.                                                   *)

\* While words are written there is no valid slot.
LEMMA NothingValidInWords ==
  ASSUME TypeOK, WriteInv, InWords
  PROVE  /\ ValidSlots = {} /\ marker
         /\ write \in [slot : SlotIndex, word : 1 .. Words]
         /\ request \in Receipts
<1>1. write \in [slot : SlotIndex, word : 1 .. Words]
  BY WordsAssumption DEF InWords, TypeOK
<1>2. slots[write.slot].words = write.word - 1 /\ marker /\ request \in WellFormed
  BY DEF InWords, WriteInv
<1>3. write.slot \notin ValidSlots
  BY <1>1, <1>2, WordsAssumption DEF ValidSlots, validate_install_receipt
<1>4. ValidSlots = {}
  BY <1>3 DEF InWords, WriteInv
<1> QED
  BY <1>1, <1>2, <1>4, ReceiptAssumption

\* The slots after a word was programmed or torn, and which of them is valid.
LEMMA WordOutcome ==
  ASSUME TypeOK, SlotsInv, WriteInv, InWords,
         slots' \in {slots, Programmed, Torn}
  PROVE  /\ slots' \in [SlotIndex -> Slot]
         /\ SlotsInv'
         /\ \A i \in ValidSlots' : i = write.slot /\ slots'[i].receipt = request
         /\ slots' = Programmed /\ write.word = Words => write.slot \in ValidSlots'
         /\ write.word # Words => ValidSlots' = {}
<1> DEFINE s == write.slot
<1>1. /\ ValidSlots = {} /\ write \in [slot : SlotIndex, word : 1 .. Words]
      /\ request \in Receipts
  BY NothingValidInWords
<1>2. request # None
  BY <1>1, ReceiptAssumption
<1>3. \A i \in SlotIndex : i # s => slots'[i] = slots[i]
  BY <1>1 DEF TypeOK, Programmed, Torn
<1>4. slots'[s] \in {slots[s],
                    [receipt |-> request, words |-> write.word, torn |-> FALSE],
                    [receipt |-> request, words |-> write.word - 1, torn |-> TRUE]}
  BY <1>1 DEF TypeOK, Programmed, Torn
<1>5. slots' \in [SlotIndex -> Slot]
  <2>1. [receipt |-> request, words |-> write.word, torn |-> FALSE] \in Slot
    BY <1>1, WordsAssumption DEF Slot
  <2>2. [receipt |-> request, words |-> write.word - 1, torn |-> TRUE] \in Slot
    BY <1>1, WordsAssumption DEF Slot
  <2> QED
    BY <1>1, <2>1, <2>2 DEF TypeOK, Programmed, Torn
<1>6. \A i \in ValidSlots' : /\ i = s /\ slots'[i].receipt = request
                             /\ write.word = Words
  BY <1>1, <1>3, <1>4, WordsAssumption
     DEF ValidSlots, validate_install_receipt
<1>7. SlotsInv'
  <2>1. \A i \in SlotIndex : slots'[i].receipt = None => slots'[i] = BlankSlot
    BY <1>1, <1>2, <1>3, <1>4 DEF SlotsInv
  <2>2. \A i \in SlotIndex : slots'[i].torn => slots'[i].words < Words
    BY <1>1, <1>3, <1>4, WordsAssumption DEF SlotsInv
  <2> QED
    BY <1>6, <2>1, <2>2 DEF SlotsInv
<1>8. slots' = Programmed /\ write.word = Words => s \in ValidSlots'
  BY <1>1 DEF TypeOK, Programmed, ValidSlots, validate_install_receipt
<1> QED
  BY <1>5, <1>6, <1>7, <1>8

-----------------------------------------------------------------------------
(* The invariant.                                                          *)

LEMMA ReceiptStarts == Init => ReceiptInv
<1> SUFFICES ASSUME Init PROVE ReceiptInv
  OBVIOUS
<1>1. TypeOK
  BY WordsAssumption DEF Init, TypeOK, BlankSlot, Slot, SlotIndex
<1>2. SlotsInv
  BY WordsAssumption DEF Init, SlotsInv, BlankSlot, SlotIndex, ValidSlots,
                         validate_install_receipt
<1> QED
  BY <1>1, <1>2 DEF Init, ReceiptInv, WriteInv, AcknowledgedInv

\* The parts of the invariant that only look at the slots stay when they do.
LEMMA SameSlots ==
  ASSUME ReceiptInv, UNCHANGED <<marker, slots>>
  PROVE  /\ SlotsInv' /\ ValidSlots' = ValidSlots /\ BlankSlots' = BlankSlots
         /\ read_install_receipt' = read_install_receipt
BY DEF ReceiptInv, SlotsInv, ValidSlots, BlankSlots, read_install_receipt, First

\* A request ends without a word written.
LEMMA AnswerKeepsInv ==
  ASSUME ReceiptInv, NEW recorded \in BOOLEAN, request # None,
         recorded => marker /\ \E i \in ValidSlots : slots[i].receipt = request,
         Answer(recorded), write' = None, UNCHANGED <<marker, slots>>
  PROVE  ReceiptInv'
<1>1. SlotsInv' /\ ValidSlots' = ValidSlots
  BY SameSlots
<1>2. TypeOK'
  BY DEF ReceiptInv, TypeOK, Answer
<1>3. WriteInv'
  BY DEF WriteInv, Answer
<1>4. AcknowledgedInv'
  BY <1>1 DEF ReceiptInv, AcknowledgedInv, Answer
<1> QED
  BY <1>1, <1>2, <1>3, <1>4 DEF ReceiptInv

LEMMA ReceiptKeeps == ReceiptInv /\ [Next]_vars => ReceiptInv'
<1> SUFFICES ASSUME ReceiptInv, [Next]_vars PROVE ReceiptInv'
  OBVIOUS
<1> USE DEF ReceiptInv
<1>1. ASSUME NEW r \in Receipts, record_install_receipt(r) PROVE ReceiptInv'
  <2>1. /\ SlotsInv' /\ ValidSlots' = ValidSlots
        /\ read_install_receipt' = read_install_receipt
    BY <1>1, SameSlots DEF record_install_receipt
  <2>2. TypeOK'
    BY <1>1 DEF record_install_receipt, TypeOK
  <2>3. write = None
    BY <1>1 DEF record_install_receipt
  <2>4. WriteInv'
    BY <1>1, <2>3 DEF record_install_receipt, WriteInv
  <2>5. AcknowledgedInv'
    BY <1>1, <2>1, <2>3, ReadFindsReceipt
       DEF record_install_receipt, AcknowledgedInv
  <2> QED
    BY <2>1, <2>2, <2>4, <2>5
<1>2. CASE AnswerWithoutWrite
  <2>1. read_install_receipt = request =>
          marker /\ \E i \in ValidSlots : slots[i].receipt = request
    BY <1>2, ReadFindsReceipt DEF AnswerWithoutWrite, TypeOK
  <2> QED
    BY <1>2, <2>1, AnswerKeepsInv DEF AnswerWithoutWrite
<1>3. CASE BeginWrite
  <2>1. /\ SlotsInv' /\ ValidSlots' = ValidSlots
    BY <1>3, SameSlots DEF BeginWrite
  <2>2. marker /\ ValidSlots = {} /\ First(BlankSlots) \in BlankSlots
    BY <1>3, ReadFindsBlank DEF BeginWrite
  <2>3. TypeOK'
    BY <1>3, <2>2, WordsAssumption DEF BeginWrite, TypeOK, BlankSlots
  <2>4. WriteInv'
    BY <1>3, <2>1, <2>2
       DEF BeginWrite, WriteInv, BlankSlots, install_receipt_slot_blank
  <2>5. write' # None /\ acknowledged = {}
    BY <1>3, <2>2, WordsAssumption
       DEF BeginWrite, BlankSlots, SlotIndex, AcknowledgedInv
  <2>6. AcknowledgedInv'
    BY <1>3, <2>5 DEF BeginWrite, AcknowledgedInv
  <2> QED
    BY <2>1, <2>3, <2>4, <2>6
<1>4. CASE WriteWord
  <2>1. /\ ValidSlots = {} /\ marker /\ request \in Receipts
        /\ write \in [slot : SlotIndex, word : 1 .. Words]
    BY <1>4, NothingValidInWords DEF WriteWord
  <2>2. /\ slots' \in [SlotIndex -> Slot] /\ SlotsInv'
        /\ \A i \in ValidSlots' : i = write.slot
    BY <1>4, WordOutcome DEF WriteWord
  <2>3. /\ write' # None
        /\ write' \in [slot : SlotIndex, word : 1 .. Words + 1]
        /\ write'.slot = write.slot /\ write'.word = write.word + 1
    <3>1. write' = [write EXCEPT !.word = @ + 1]
      BY <1>4 DEF WriteWord
    <3>2. write' = [slot |-> write.slot, word |-> write.word + 1]
      BY <2>1, <3>1
    <3> QED
      BY <2>1, <3>2, WordsAssumption DEF SlotIndex
  <2>4. TypeOK'
    BY <1>4, <2>2, <2>3 DEF WriteWord, TypeOK
  <2>5. WriteInv'
    <3>1. slots'[write.slot] =
            [receipt |-> request, words |-> write.word, torn |-> FALSE]
      BY <1>4, <2>1 DEF WriteWord, Programmed, TypeOK
    <3>2. marker' /\ request' = request /\ request \in WellFormed
      BY <1>4, <2>1 DEF WriteWord, WriteInv, InWords
    <3> QED
      BY <2>1, <2>2, <2>3, <3>1, <3>2 DEF WriteInv
  <2>6. AcknowledgedInv'
    BY <1>4, <2>1, <2>3 DEF WriteWord, InWords, AcknowledgedInv
  <2> QED
    BY <2>2, <2>4, <2>5, <2>6
<1>5. ASSUME InWords, slots' \in {slots, Programmed, Torn}, write' = None,
             request' \in {request, None}, UNCHANGED <<marker, acknowledged>>
      PROVE  ReceiptInv'
  <2>1. slots' \in [SlotIndex -> Slot] /\ SlotsInv'
    BY <1>5, WordOutcome
  <2>2. TypeOK'
    BY <1>5, <2>1 DEF TypeOK
  <2>3. acknowledged = {}
    BY <1>5 DEF InWords, AcknowledgedInv
  <2>4. WriteInv' /\ AcknowledgedInv'
    BY <1>5, <2>3 DEF WriteInv, AcknowledgedInv
  <2> QED
    BY <2>1, <2>2, <2>4
<1>6. CASE WriteWordFails
  BY <1>5, <1>6 DEF WriteWordFails, Answer
<1>7. CASE ReadBack
  <2>1. request # None /\ marker /\ write.slot \in SlotIndex
    BY <1>7, ReceiptAssumption DEF ReadBack, WriteInv, TypeOK
  <2>2. CASE validate_install_receipt(slots[write.slot])
    <3>1. write.slot \in ValidSlots
      BY <2>1, <2>2 DEF ValidSlots
    <3>2. read_install_receipt = slots[write.slot].receipt
      BY <2>1, <3>1, ReadFindsValid
    <3> QED
      BY <1>7, <2>1, <2>2, <3>1, <3>2, AnswerKeepsInv DEF ReadBack
  <2>3. CASE ~validate_install_receipt(slots[write.slot])
    BY <1>7, <2>1, <2>3, AnswerKeepsInv DEF ReadBack
  <2> QED
    BY <2>2, <2>3
<1>8. CASE PowerLoss
  <2>1. CASE InWords
    BY <1>5, <1>8, <2>1 DEF PowerLoss
  <2>2. CASE ~InWords
    BY <1>8, <2>2, AnswerKeepsInv DEF PowerLoss, Answer
  <2> QED
    BY <2>1, <2>2
<1>9. CASE UNCHANGED vars
  <2>1. SlotsInv' /\ ValidSlots' = ValidSlots
        /\ read_install_receipt' = read_install_receipt
    BY <1>9, SameSlots DEF vars
  <2> QED
    BY <1>9, <2>1 DEF vars, TypeOK, WriteInv, AcknowledgedInv
<1> QED
  BY <1>1, <1>2, <1>3, <1>4, <1>6, <1>7, <1>8, <1>9 DEF Next

THEOREM ReceiptInvHolds == Spec => []ReceiptInv
BY ReceiptStarts, ReceiptKeeps, PTL DEF Spec

-----------------------------------------------------------------------------
(* The properties the run checks.                                          *)

\* The state stays within the two slots and the one request of the module.
THEOREM TypeCorrect == Spec => []TypeOK
BY ReceiptInvHolds, PTL DEF ReceiptInv

\* What was acknowledged is what every later read finds.
THEOREM AcknowledgedStays == Spec => []AcknowledgedIsRecorded
<1>1. ReceiptInv => AcknowledgedIsRecorded
  <2> SUFFICES ASSUME ReceiptInv, NEW r \in acknowledged PROVE r = read_install_receipt
    BY DEF AcknowledgedIsRecorded
  <2> QED
    BY ReadFindsValid DEF ReceiptInv, AcknowledgedInv
<1> QED
  BY <1>1, ReceiptInvHolds, PTL

\* A slot is written only while blank or by the write in progress in it.
THEOREM SpoiledSlotsStay == Spec => OnlyBlankSlotsAreWritten
<1> DEFINE Blank1 == \A i \in SlotIndex :
       slots'[i] # slots[i] =>
         \/ install_receipt_slot_blank(slots[i])
         \/ /\ write # None /\ write.slot = i
            /\ ~slots[i].torn /\ slots[i].words = write.word - 1
<1>1. ReceiptInv /\ [Next]_vars => [Blank1]_vars
  <2> SUFFICES ASSUME ReceiptInv, Next, NEW i \in SlotIndex, slots'[i] # slots[i]
               PROVE  /\ write # None /\ write.slot = i
                      /\ ~slots[i].torn /\ slots[i].words = write.word - 1
    OBVIOUS
  <2>1. InWords /\ slots' \in {Programmed, Torn}
    BY DEF Next, record_install_receipt, AnswerWithoutWrite, BeginWrite, WriteWord,
           WriteWordFails, ReadBack, PowerLoss
  <2>2. write # None /\ write.slot = i
    BY <2>1 DEF InWords, Programmed, Torn, ReceiptInv, TypeOK
  <2> QED
    BY <2>2 DEF ReceiptInv, WriteInv
<1> QED
  BY <1>1, ReceiptInvHolds, PTL DEF Spec, OnlyBlankSlotsAreWritten

-----------------------------------------------------------------------------
(* The two slots implement ReceiptPage.                                    *)

LEMMA RefinesInit == Init => Promise!Init
<1> SUFFICES ASSUME Init PROVE Promise!Init
  OBVIOUS
<1>1. ValidSlots = {}
  BY WordsAssumption DEF Init, BlankSlot, ValidSlots, validate_install_receipt,
                         SlotIndex
<1> QED
  BY <1>1, ReadFindsNone DEF Init, PageInFlight, Promise!Init

\* While words are written the page counts as blank.
LEMMA BlankInWords ==
  ASSUME ReceiptInv, InWords
  PROVE  PageInFlight = Blank
BY NothingValidInWords DEF ReceiptInv, InWords, PageInFlight

\* A word that failed, or the loss of power at it, leaves the page blank,
\* spoiled or recorded: the request fails.
LEMMA FailedWordRefines ==
  ASSUME ReceiptInv, InWords, slots' \in {slots, Programmed, Torn}, write' = None,
         request' \in {request, None}, UNCHANGED <<marker, acknowledged>>
  PROVE  Promise!Fail
<1>1. PageInFlight = Blank /\ request # None
  BY BlankInWords, NothingValidInWords, ReceiptAssumption DEF ReceiptInv
<1>2. \A i \in ValidSlots' : slots'[i].receipt = request
  BY WordOutcome DEF ReceiptInv
<1>3. PageInFlight' \in {Blank, request, Corrupt}
  BY <1>2 DEF PageInFlight, read_install_receipt, First, ValidSlots, SlotIndex
<1> QED
  BY <1>1, <1>3 DEF Promise!Fail

LEMMA RefinesNext == ReceiptInv /\ [Next]_vars => [Promise!Next]_(Promise!vars)
<1> SUFFICES ASSUME ReceiptInv, [Next]_vars
             PROVE  Promise!Next \/ UNCHANGED Promise!vars
  OBVIOUS
<1> USE DEF ReceiptInv
<1>1. ASSUME NEW r \in Receipts, record_install_receipt(r) PROVE Promise!Next
  <2>1. write = None /\ write' = None
    BY <1>1 DEF record_install_receipt
  <2>2. read_install_receipt' = read_install_receipt
    BY <1>1, SameSlots DEF record_install_receipt
  <2>3. Promise!Ask(r)
    BY <1>1, <2>1, <2>2 DEF record_install_receipt, PageInFlight, Promise!Ask
  <2> QED
    BY <2>3 DEF Promise!Next
<1>2. CASE AnswerWithoutWrite
  <2>1. read_install_receipt' = read_install_receipt /\ request \in Receipts
    BY <1>2, SameSlots DEF AnswerWithoutWrite, TypeOK
  <2>2. PageInFlight = read_install_receipt /\ PageInFlight' = PageInFlight
    BY <1>2, <2>1 DEF AnswerWithoutWrite, PageInFlight
  <2>3. CASE read_install_receipt = request
    <3>1. \/ request' = request /\ acknowledged' = acknowledged
          \/ request' = None /\ acknowledged' = acknowledged \cup {request}
      BY <1>2, <2>3 DEF AnswerWithoutWrite, Answer
    <3> QED
      BY <1>2, <2>2, <2>3, <3>1
         DEF AnswerWithoutWrite, Promise!Acknowledge, Promise!Next, Promise!vars
  <2>4. CASE read_install_receipt # request
    BY <1>2, <2>2, <2>4
       DEF AnswerWithoutWrite, Answer, Promise!Fail, Promise!Next
  <2> QED
    BY <2>3, <2>4
<1>3. CASE BeginWrite
  <2>1. ValidSlots = {} /\ ValidSlots' = ValidSlots
    BY <1>3, ReadFindsBlank, SameSlots DEF BeginWrite
  <2>2. PageInFlight = Blank /\ PageInFlight' = Blank
    BY <1>3, <2>1, SameSlots DEF BeginWrite, PageInFlight
  <2> QED
    BY <1>3, <2>2 DEF BeginWrite, Promise!vars
<1>4. CASE WriteWord
  <2>1. /\ PageInFlight = Blank /\ request # None
        /\ write \in [slot : SlotIndex, word : 1 .. Words]
    BY <1>4, BlankInWords, NothingValidInWords, ReceiptAssumption DEF WriteWord
  <2>2. write' # None
    <3>1. write' = [write EXCEPT !.word = @ + 1]
      BY <1>4 DEF WriteWord
    <3>2. write' = [slot |-> write.slot, word |-> write.word + 1]
      BY <2>1, <3>1
    <3> QED
      BY <2>1, <3>2, WordsAssumption DEF SlotIndex
  <2>3. CASE write.word = Words
    <3>1. PageInFlight' = request
      BY <1>4, <2>2, <2>3, WordOutcome DEF WriteWord, PageInFlight
    <3> QED
      BY <1>4, <2>1, <3>1 DEF WriteWord, Promise!Record, Promise!Next
  <2>4. CASE write.word # Words
    <3>1. PageInFlight' = Blank
      BY <1>4, <2>2, <2>4, WordOutcome DEF WriteWord, PageInFlight
    <3> QED
      BY <1>4, <2>1, <3>1 DEF WriteWord, Promise!vars
  <2> QED
    BY <2>3, <2>4
<1>5. CASE WriteWordFails
  BY <1>5, FailedWordRefines DEF WriteWordFails, Answer, Promise!Next
\* After the last word its slot is valid, and the page in flight is the request.
<1>6. ASSUME write # None, ~InWords
      PROVE  /\ request # None /\ PageInFlight = request
             /\ validate_install_receipt(slots[write.slot])
             /\ read_install_receipt = request
  <2>1. write \in [slot : SlotIndex, word : 1 .. Words + 1] /\ request # None
    BY <1>6, ReceiptAssumption DEF TypeOK, WriteInv
  <2>2. slots[write.slot].words = Words
    BY <1>6, <2>1, WordsAssumption DEF InWords, WriteInv
  <2>3. slots[write.slot].receipt = request /\ write.slot \in ValidSlots /\ marker
    BY <1>6, <2>1, <2>2, WordsAssumption
       DEF WriteInv, ValidSlots, validate_install_receipt
  <2> QED
    BY <1>6, <2>1, <2>3, ReadFindsValid DEF PageInFlight, ValidSlots
<1>7. CASE ReadBack
  <2>1. read_install_receipt' = read_install_receipt
    BY <1>7, SameSlots DEF ReadBack
  <2>2. PageInFlight = request /\ PageInFlight' = PageInFlight
    BY <1>6, <1>7, <2>1 DEF ReadBack, PageInFlight
  <2>3. \/ request' = request /\ acknowledged' = acknowledged
        \/ request' = None /\ acknowledged' = acknowledged \cup {request}
    BY <1>6, <1>7 DEF ReadBack, Answer
  <2>4. request # None
    BY <1>6, <1>7 DEF ReadBack
  <2> QED
    BY <2>2, <2>3, <2>4 DEF Promise!Acknowledge, Promise!Next, Promise!vars
<1>8. CASE PowerLoss
  <2>1. CASE InWords
    BY <1>8, <2>1, FailedWordRefines DEF PowerLoss, Promise!Next
  <2>2. CASE ~InWords
    <3>1. read_install_receipt' = read_install_receipt
      BY <1>8, <2>2, SameSlots DEF PowerLoss
    <3>2. PageInFlight' = PageInFlight
      BY <1>6, <1>8, <2>2, <3>1 DEF PowerLoss, PageInFlight
    <3> QED
      BY <1>8, <3>2 DEF PowerLoss, Promise!Fail, Promise!Next
  <2> QED
    BY <2>1, <2>2
<1>9. CASE UNCHANGED vars
  BY <1>9, SameSlots DEF vars, PageInFlight, Promise!vars
<1> QED
  BY <1>1, <1>2, <1>3, <1>4, <1>5, <1>7, <1>8, <1>9 DEF Next

\* The install receipt keeps the promise of ReceiptPage to its host.
THEOREM Refinement == Spec => ImplementsReceiptPage
BY RefinesInit, RefinesNext, ReceiptInvHolds, PTL
   DEF Spec, ImplementsReceiptPage, Promise!Spec

-----------------------------------------------------------------------------
(* LizardCapture: its invariant.                                           *)

Stamped == [at : Nat, accepts : Trials \cup {0}]
Unmarked == [at : Nat, accepts : {0}]
Files == [events : Nat, last : Nat, ordered : BOOLEAN, accepted : SUBSET Trials]
ThreadStates == {"unborn", "running", "done"}
Producers == {"hid", "tap"}
CaptureStages == {"opening", "preflight", "verdict", "merging", "joining", "closed"}
Shareds == [stop : BOOLEAN, invalid : BOOLEAN, completed : BOOLEAN]
Hids == [at : ThreadStates, offers : Seq(Unmarked), seen : SUBSET {"state", "lizard"},
         reports : Nat]
Taps == [at : ThreadStates, offers : Seq(Unmarked), ready : BOOLEAN, events : Nat]
Guides == [at : ThreadStates, offers : Seq(Stamped), accepted : SUBSET Trials]
CommandKinds == {"start", "end", "accepted", "discarded", "finish", "cancel"}
Commands == [kind : CommandKinds, trial : Trials]
Captures == [at : CaptureStages, done : SUBSET Producers, buffered : Seq(Stamped), last : Nat,
             file : Files, failed : BOOLEAN, trailer : {"none", "invalid", "valid"}]
Screens == {"terminal", "capturing", "processing", "results", "left"}
Phases == {"preflight", "invalid", "waiting", "measuring", "review"}
Labs == [screen : Screens, phase : Phases, trial : Trials, attempt : Nat, leaving : BOOLEAN]

CaptureTyped ==
  /\ shared \in Shareds /\ now \in 0 .. MaxTime /\ queue \in Seq(Stamped)
  /\ hid \in Hids /\ tap \in Taps /\ guide \in Guides /\ commands \in Seq(Commands)
  /\ capture \in Captures /\ lab \in Labs /\ made \in Nat

\* No stamp is of the future.
Past(list) == \A i \in DOMAIN list : list[i].at <= now
StampsArePast ==
  \A list \in {hid.offers, tap.offers, guide.offers, queue, capture.buffered} : Past(list)

\* The buffer goes on, in order, where the file ends.
Sorted(list) == \A i, j \in DOMAIN list : i <= j => list[i].at <= list[j].at
From(time, list) == \A i \in DOMAIN list : time <= list[i].at
BufferIsSorted ==
  /\ Sorted(capture.buffered) /\ From(capture.last, capture.buffered)
  /\ capture.file.ordered /\ (~capture.failed => capture.file.last = capture.last)

\* Of a capture that is not invalid every event is on its way or in the file,
\* and so is every accepted trial's marker.
OnTheWay == Len(hid.offers) + Len(tap.offers) + Len(guide.offers) + Len(queue)
MarkedOnTheWay == Accepts(guide.offers) \cup Accepts(queue)
Accounted ==
  ~shared.invalid =>
    /\ ~capture.failed
    /\ made = OnTheWay + Len(capture.buffered) + capture.file.events
    /\ guide.accepted = MarkedOnTheWay \cup Accepts(capture.buffered) \cup capture.file.accepted

\* A thread that does not run has offered what it stamped, and a guide that
\* completed the capture has offered every trial's marker.
ThreadsEnd ==
  /\ hid.at # "running" => hid.offers = << >>
  /\ tap.at # "running" => tap.offers = << >>
  /\ guide.at # "running" => guide.offers = << >>
  /\ Free \/ capture.at \in {"opening", "preflight", "verdict"} => guide.at # "running"
  /\ shared.completed => shared.stop /\ guide.offers = << >> /\ guide.accepted = Trials

\* The file is closed behind the producers.
ClosesLast ==
  /\ capture.at = "opening" => capture.done = {}
  /\ "hid" \in capture.done => hid.at = "done"
  /\ "tap" \in capture.done => tap.at = "done"
  /\ capture.at = "joining" => /\ capture.done = Producers /\ shared.stop /\ capture.buffered = << >>
                               /\ Free \/ shared.completed => queue = << >>
  /\ capture.at # "closed" => capture.trailer = "none"
  /\ capture.trailer = "valid" =>
       /\ capture.done = Producers /\ guide.at = "done"
       /\ capture.file.events = made /\ (Free \/ capture.file.accepted = Trials)

CaptureInvariant ==
  CaptureTyped /\ StampsArePast /\ BufferIsSorted /\ Accounted /\ ThreadsEnd /\ ClosesLast

-----------------------------------------------------------------------------
(* LizardCapture: events in the order of their stamps.                     *)

LEMMA SequenceFacts ==
  ASSUME NEW M, NEW s \in Seq(M)
  PROVE  /\ Len(s) \in Nat /\ DOMAIN s = 1 .. Len(s) /\ \A i \in 1 .. Len(s) : s[i] \in M
         /\ (s = << >>) <=> (Len(s) = 0)
  BY LenProperties, ElementOfSeq, EmptySeq

LEMMA StampedFacts ==
  ASSUME NEW s \in Seq(Stamped)
  PROVE  /\ Len(s) \in Nat /\ DOMAIN s = 1 .. Len(s)
         /\ \A i \in 1 .. Len(s) : s[i] \in Stamped
         /\ \A i \in 1 .. Len(s) : s[i].at \in Nat
<1>1. \A e \in Stamped : e.at \in Nat
  BY DEF Stamped
<1> QED
  BY <1>1, SequenceFacts

LEMMA AcceptsHas ==
  ASSUME NEW s, NEW x
  PROVE  x \in Accepts(s) <=> x # 0 /\ \E i \in DOMAIN s : s[i].accepts = x
  BY DEF Accepts

\* Of sorted events those up to a time are the first ones.
Cuts(s, time, k, n) == \A i \in 1 .. n : i <= k <=> s[i].at <= time

LEMMA UpToCuts ==
  ASSUME NEW s \in Seq(Stamped), Sorted(s), NEW time \in Int
  PROVE  UpTo(s, time) \in 0 .. Len(s) /\ Cuts(s, time, UpTo(s, time), Len(s))
<1> DEFINE T == {n \in Nat : n <= Len(s) => \E k \in 0 .. n : Cuts(s, time, k, n)}
<1>1. /\ Len(s) \in Nat /\ DOMAIN s = 1 .. Len(s)
      /\ \A i \in 1 .. Len(s) : s[i] \in Stamped /\ s[i].at \in Nat
  BY StampedFacts
<1>2. 0 \in T
  <2>1. Cuts(s, time, 0, 0) /\ 0 \in 0 .. 0
    BY DEF Cuts
  <2> QED
    BY <2>1
<1>3. ASSUME NEW n \in Nat, n \in T PROVE n + 1 \in T
  <2>1. SUFFICES ASSUME n + 1 <= Len(s) PROVE \E k \in 0 .. n + 1 : Cuts(s, time, k, n + 1)
    OBVIOUS
  <2>2. PICK k \in 0 .. n : Cuts(s, time, k, n)
    BY <1>1, <1>3, <2>1
  <2>3. CASE s[n + 1].at <= time
    <3>1. ASSUME NEW i \in 1 .. n + 1 PROVE s[i].at <= time
      <4>1. i \in DOMAIN s /\ n + 1 \in DOMAIN s /\ i <= n + 1
        BY <1>1, <2>1
      <4>2. s[i].at <= s[n + 1].at
        BY <4>1 DEF Sorted
      <4> QED
        BY <1>1, <2>3, <4>1, <4>2
    <3>2. Cuts(s, time, n + 1, n + 1)
      BY <3>1 DEF Cuts
    <3> QED
      BY <3>2
  <2>4. CASE ~(s[n + 1].at <= time)
    <3>1. Cuts(s, time, k, n + 1)
      BY <2>2, <2>4 DEF Cuts
    <3> QED
      BY <3>1
  <2> QED
    BY <2>3, <2>4
<1> HIDE DEF T
<1>4. Len(s) \in T
  BY <1>1, <1>2, <1>3, SetInduction
<1>5. PICK k \in 0 .. Len(s) : Cuts(s, time, k, Len(s))
  BY <1>1, <1>4 DEF T
<1>6. {i \in DOMAIN s : s[i].at <= time} = 1 .. k
  BY <1>1, <1>5 DEF Cuts
<1>7. Cardinality(1 .. k) = k
  BY <1>1, FS_Interval
<1> QED
  BY <1>5, <1>6, <1>7 DEF UpTo

\* A sorted buffer cut in two.
Parts(s, k, early, late) ==
  /\ early \in Seq(Stamped) /\ late \in Seq(Stamped)
  /\ Len(early) = k /\ Len(late) = Len(s) - k
  /\ \A i \in 1 .. k : early[i] = s[i]
  /\ \A i \in 1 .. Len(s) - k : late[i] = s[k + i]

LEMMA CutInParts ==
  ASSUME NEW s \in Seq(Stamped), NEW k \in 0 .. Len(s)
  PROVE  Parts(s, k, SubSeq(s, 1, k), SubSeq(s, k + 1, Len(s)))
<1> DEFINE n == Len(s)
           e == SubSeq(s, 1, k)
           l == SubSeq(s, k + 1, n)
<1>1. /\ n \in Nat /\ k \in Int /\ k + 1 \in Int /\ 0 <= k /\ k <= n
      /\ \A i \in 1 .. n : s[i] \in Stamped
  BY SequenceFacts
<1>2. \A i \in 1 .. k : s[i] \in Stamped
  BY <1>1
<1>3. \A i \in k + 1 .. n : s[i] \in Stamped
  BY <1>1
<1>4. /\ e \in Seq(Stamped) /\ Len(e) = IF 1 <= k THEN k - 1 + 1 ELSE 0
      /\ \A i \in 1 .. k - 1 + 1 : e[i] = s[1 + i - 1]
  BY <1>1, <1>2, SubSeqProperties
<1>5. /\ l \in Seq(Stamped) /\ Len(l) = IF k + 1 <= n THEN n - (k + 1) + 1 ELSE 0
      /\ \A i \in 1 .. n - (k + 1) + 1 : l[i] = s[k + 1 + i - 1]
  BY <1>1, <1>3, SubSeqProperties
<1> HIDE DEF n, e, l
<1>6. Len(e) = k /\ Len(l) = n - k
  BY <1>1, <1>4, <1>5
<1>7. \A i \in 1 .. k : e[i] = s[i]
  <2>1. \A i \in 1 .. k : i \in 1 .. k - 1 + 1 /\ 1 + i - 1 = i
    BY <1>1
  <2> QED
    BY <1>4, <2>1
<1>8. \A i \in 1 .. n - k : l[i] = s[k + i]
  <2>1. \A i \in 1 .. n - k : i \in 1 .. n - (k + 1) + 1 /\ k + 1 + i - 1 = k + i
    BY <1>1
  <2> QED
    BY <1>5, <2>1
<1> QED
  BY <1>4, <1>5, <1>6, <1>7, <1>8 DEF Parts, n, e, l

LEMMA PartsOfSorted ==
  ASSUME NEW s \in Seq(Stamped), Sorted(s), NEW k \in 0 .. Len(s), NEW early, NEW late,
         Parts(s, k, early, late)
  PROVE  /\ Sorted(early) /\ Sorted(late) /\ Accepts(s) = Accepts(early) \cup Accepts(late)
         /\ \A i \in 1 .. k : i \in DOMAIN s /\ s[i] = early[i]
         /\ \A i \in 1 .. Len(s) - k : k + i \in DOMAIN s /\ s[k + i] = late[i]
<1>1. Len(s) \in Nat /\ DOMAIN s = 1 .. Len(s)
  BY SequenceFacts
<1>2. DOMAIN early = 1 .. k /\ DOMAIN late = 1 .. Len(s) - k
  BY SequenceFacts DEF Parts
<1>3. \A i \in 1 .. k : i \in DOMAIN s /\ s[i] = early[i]
  BY <1>1 DEF Parts
<1>4. \A i \in 1 .. Len(s) - k : k + i \in DOMAIN s /\ s[k + i] = late[i]
  BY <1>1 DEF Parts
<1>5. Sorted(early)
  BY <1>2, <1>3 DEF Sorted
<1>6. Sorted(late)
  <2>1. ASSUME NEW i \in DOMAIN late, NEW j \in DOMAIN late, i <= j PROVE late[i].at <= late[j].at
    <3>1. k + i \in DOMAIN s /\ k + j \in DOMAIN s /\ k + i <= k + j
      BY <1>1, <1>2, <1>4, <2>1
    <3>2. s[k + i].at <= s[k + j].at
      BY <3>1 DEF Sorted
    <3> QED
      BY <1>2, <1>4, <3>2
  <2> QED
    BY <2>1 DEF Sorted
<1>7. ASSUME NEW i \in DOMAIN s
      PROVE  (\E j \in DOMAIN early : early[j] = s[i]) \/ (\E j \in DOMAIN late : late[j] = s[i])
  <2>1. CASE i <= k
    BY <1>1, <1>2, <1>3, <2>1
  <2>2. CASE ~(i <= k)
    <3>1. i - k \in 1 .. Len(s) - k /\ k + (i - k) = i
      BY <1>1, <2>2
    <3>2. late[i - k] = s[k + (i - k)]
      BY <1>4, <3>1
    <3> QED
      BY <1>2, <3>1, <3>2
  <2> QED
    BY <2>1, <2>2
<1>8. ASSUME NEW x PROVE x \in Accepts(s) <=> x \in Accepts(early) \cup Accepts(late)
  <2>1. (\E i \in DOMAIN s : s[i].accepts = x) <=>
          \/ \E i \in DOMAIN early : early[i].accepts = x
          \/ \E i \in DOMAIN late : late[i].accepts = x
    BY <1>2, <1>3, <1>4, <1>7
  <2> QED
    BY <2>1, AcceptsHas
<1> QED
  BY <1>3, <1>4, <1>5, <1>6, <1>8

\* An event is put where its stamp belongs.
Joins(s, k, e, r) ==
  /\ r \in Seq(Stamped) /\ Len(r) = Len(s) + 1 /\ r[k + 1] = e
  /\ \A i \in 1 .. k : r[i] = s[i]
  /\ \A i \in k + 2 .. Len(s) + 1 : r[i] = s[i - 1]

LEMMA InsertJoins ==
  ASSUME NEW s \in Seq(Stamped), NEW k \in 0 .. Len(s), NEW e \in Stamped, NEW j, j = k + 1
  PROVE  Joins(s, k, e, InsertAt(s, j, e))
<1> DEFINE n == Len(s)
           f == SubSeq(s, 1, k)
           l == SubSeq(s, k + 1, n)
           m == <<e>>
           h == f \o m
           r == h \o l
<1>1. n \in Nat /\ k + 1 - 1 = k /\ k \in Nat /\ k <= n
  BY SequenceFacts
<1>2. InsertAt(s, j, e) = r
  <2>1. j \in Nat /\ k = j - 1
    BY <1>1
  <2>2. InsertAt(s, j, e) = SubSeq(s, 1, k) \o <<e>> \o SubSeq(s, j, Len(s))
    BY <2>1 DEF InsertAt
  <2> QED
    BY <2>2
<1>3. /\ f \in Seq(Stamped) /\ l \in Seq(Stamped) /\ Len(f) = k /\ Len(l) = n - k
      /\ \A i \in 1 .. k : f[i] = s[i]
      /\ \A i \in 1 .. n - k : l[i] = s[k + i]
  BY CutInParts DEF Parts
<1>4. m \in Seq(Stamped) /\ Len(m) = 1 /\ m[1] = e
  OBVIOUS
<1> HIDE DEF n, f, l, m
<1>5. /\ h \in Seq(Stamped) /\ Len(h) = k + 1
      /\ \A i \in 1 .. k + 1 : h[i] = IF i <= k THEN f[i] ELSE m[i - k]
  <2>1. f \in Seq(Stamped) /\ m \in Seq(Stamped)
    BY <1>3, <1>4
  <2>2. /\ h \in Seq(Stamped) /\ Len(h) = Len(f) + Len(m)
        /\ \A i \in 1 .. Len(f) + Len(m) : h[i] = IF i <= Len(f) THEN f[i] ELSE m[i - Len(f)]
    BY ONLY <2>1, ConcatProperties
  <2> QED
    BY <1>3, <1>4, <2>2
<1> HIDE DEF h
<1>6. /\ r \in Seq(Stamped) /\ Len(r) = k + 1 + (n - k)
      /\ \A i \in 1 .. k + 1 + (n - k) : r[i] = IF i <= k + 1 THEN h[i] ELSE l[i - (k + 1)]
  <2>1. h \in Seq(Stamped) /\ l \in Seq(Stamped)
    BY <1>3, <1>5
  <2>2. /\ r \in Seq(Stamped) /\ Len(r) = Len(h) + Len(l)
        /\ \A i \in 1 .. Len(h) + Len(l) : r[i] = IF i <= Len(h) THEN h[i] ELSE l[i - Len(h)]
    BY ONLY <2>1, ConcatProperties
  <2> QED
    BY <1>3, <1>5, <2>2
<1> HIDE DEF r
<1>7. Len(r) = n + 1
  BY <1>1, <1>6
<1>8. \A i \in 1 .. k : r[i] = s[i]
  BY <1>1, <1>3, <1>5, <1>6
<1>9. r[k + 1] = e
  <2>1. k + 1 \in 1 .. k + 1 /\ k + 1 \in 1 .. k + 1 + (n - k) /\ ~(k + 1 <= k) /\ k + 1 - k = 1
    BY <1>1
  <2>2. r[k + 1] = h[k + 1] /\ h[k + 1] = m[k + 1 - k]
    BY <1>5, <1>6, <2>1
  <2> QED
    BY <1>4, <2>1, <2>2
<1>10. ASSUME NEW i \in k + 2 .. n + 1 PROVE r[i] = s[i - 1]
  <2>1. /\ i \in 1 .. k + 1 + (n - k) /\ ~(i <= k + 1) /\ i - (k + 1) \in 1 .. n - k
        /\ k + (i - (k + 1)) = i - 1
    BY <1>1
  <2>2. r[i] = l[i - (k + 1)] /\ l[i - (k + 1)] = s[k + (i - (k + 1))]
    BY <1>3, <1>6, <2>1
  <2> QED
    BY <2>1, <2>2
<1> QED
  BY <1>2, <1>6, <1>7, <1>8, <1>9, <1>10 DEF Joins, n

LEMMA JoinedIsSorted ==
  ASSUME NEW s \in Seq(Stamped), Sorted(s), NEW e \in Stamped, NEW k \in 0 .. Len(s),
         Cuts(s, e.at, k, Len(s)), NEW r, Joins(s, k, e, r)
  PROVE  /\ Sorted(r) /\ Accepts(r) = Accepts(s) \cup ({e.accepts} \ {0})
         /\ \A i \in DOMAIN r : r[i] = e \/ \E j \in DOMAIN s : r[i] = s[j]
<1>1. /\ Len(s) \in Nat /\ DOMAIN s = 1 .. Len(s) /\ DOMAIN r = 1 .. Len(s) + 1 /\ k \in Nat
      /\ k <= Len(s) /\ \A i \in 1 .. Len(s) : s[i].at \in Nat
  BY StampedFacts DEF Joins
<1>2. e.at \in Nat
  BY DEF Stamped
<1>3. \A i \in 1 .. k : r[i] = s[i] /\ i \in DOMAIN s /\ s[i].at <= e.at
  BY <1>1 DEF Joins, Cuts
<1>4. \A i \in k + 2 .. Len(s) + 1 : r[i] = s[i - 1] /\ i - 1 \in DOMAIN s /\ ~(s[i - 1].at <= e.at)
  <2>1. ASSUME NEW i \in k + 2 .. Len(s) + 1
        PROVE  r[i] = s[i - 1] /\ i - 1 \in DOMAIN s /\ ~(s[i - 1].at <= e.at)
    <3>1. i - 1 \in 1 .. Len(s) /\ ~(i - 1 <= k)
      BY <1>1
    <3>2. r[i] = s[i - 1]
      BY DEF Joins
    <3>3. ~(s[i - 1].at <= e.at)
      BY <3>1 DEF Cuts
    <3> QED
      BY <1>1, <3>1, <3>2, <3>3
  <2> QED
    BY <2>1
<1>5. r[k + 1] = e
  BY DEF Joins
<1>6. ASSUME NEW i \in DOMAIN r, NEW j \in DOMAIN r, i <= j PROVE r[i].at <= r[j].at
  <2>1. \A a, b \in DOMAIN s : a <= b => s[a].at <= s[b].at
    BY DEF Sorted
  <2>2. CASE j <= k
    BY <1>1, <1>3, <1>6, <2>1, <2>2
  <2>3. CASE j = k + 1
    <3>1. CASE i = j
      BY <1>2, <1>5, <2>3, <3>1
    <3>2. CASE i # j
      <4>1. i \in 1 .. k
        BY <1>1, <1>6, <2>3, <3>2
      <4> QED
        BY <1>3, <1>5, <2>3, <4>1
    <3> QED
      BY <3>1, <3>2
  <2>4. CASE j >= k + 2
    <3>1. j \in k + 2 .. Len(s) + 1 /\ j - 1 \in 1 .. Len(s)
      BY <1>1, <2>4
    <3>2. r[j] = s[j - 1] /\ j - 1 \in DOMAIN s /\ ~(s[j - 1].at <= e.at) /\ s[j - 1].at \in Nat
      BY <1>1, <1>4, <3>1
    <3>3. CASE i <= k
      <4>1. i \in 1 .. k /\ i <= j - 1
        BY <1>1, <2>4, <3>3
      <4>2. r[i] = s[i] /\ i \in DOMAIN s
        BY <1>3, <4>1
      <4> QED
        BY <2>1, <3>2, <4>1, <4>2
    <3>4. CASE i = k + 1
      BY <1>2, <1>5, <3>2, <3>4
    <3>5. CASE i >= k + 2
      <4>1. i \in k + 2 .. Len(s) + 1 /\ i - 1 <= j - 1
        BY <1>1, <1>6, <3>5
      <4>2. r[i] = s[i - 1] /\ i - 1 \in DOMAIN s
        BY <1>4, <4>1
      <4> QED
        BY <2>1, <3>2, <4>1, <4>2
    <3> QED
      BY <1>1, <3>3, <3>4, <3>5
  <2> QED
    BY <1>1, <2>2, <2>3, <2>4
<1>7. ASSUME NEW i \in DOMAIN r PROVE r[i] = e \/ \E j \in DOMAIN s : r[i] = s[j]
  <2>1. i \in 1 .. k \/ i = k + 1 \/ i \in k + 2 .. Len(s) + 1
    BY <1>1
  <2> QED
    BY <1>3, <1>4, <1>5, <2>1
<1>8. ASSUME NEW j \in DOMAIN s PROVE \E i \in DOMAIN r : r[i] = s[j]
  <2>1. CASE j <= k
    BY <1>1, <1>3, <2>1
  <2>2. CASE ~(j <= k)
    <3>1. j + 1 \in k + 2 .. Len(s) + 1 /\ j + 1 - 1 = j /\ j + 1 \in DOMAIN r
      BY <1>1, <2>2
    <3>2. r[j + 1] = s[j + 1 - 1]
      BY <1>4, <3>1
    <3> QED
      BY <3>1, <3>2
  <2> QED
    BY <2>1, <2>2
<1>9. k + 1 \in DOMAIN r
  BY <1>1
<1>10. ASSUME NEW x PROVE x \in Accepts(r) <=> x \in Accepts(s) \cup ({e.accepts} \ {0})
  <2>1. (\E i \in DOMAIN r : r[i].accepts = x) <=>
          e.accepts = x \/ \E i \in DOMAIN s : s[i].accepts = x
    BY <1>5, <1>7, <1>8, <1>9
  <2> QED
    BY <2>1, AcceptsHas
<1> QED
  BY <1>6, <1>7, <1>10 DEF Sorted

-----------------------------------------------------------------------------
(* LizardCapture: what the merger takes in and lets go.                    *)

Mergers == [buffered : Seq(Stamped), late : BOOLEAN]
Buffered(list) == Sorted(list) /\ From(capture.last, list) /\ Past(list)

LEMMA PushTakes ==
  ASSUME NEW m \in Mergers, Buffered(m.buffered), NEW e \in Stamped, e.at <= now,
         now \in Nat, capture \in Captures
  PROVE  /\ push(m, e) \in Mergers /\ Buffered(push(m, e).buffered)
         /\ ~push(m, e).late =>
              /\ ~m.late /\ Len(push(m, e).buffered) = Len(m.buffered) + 1
              /\ Accepts(push(m, e).buffered) = Accepts(m.buffered) \cup ({e.accepts} \ {0})
<1> DEFINE b == m.buffered
           u == UpTo(b, e.at)
           j == u + 1
           r == InsertAt(b, j, e)
<1>1. b \in Seq(Stamped) /\ e.at \in Nat /\ capture.last \in Nat /\ Sorted(b)
  BY DEF Mergers, Stamped, Captures, Buffered
<1>2. CASE e.at < capture.last
  <2>1. push(m, e) = [m EXCEPT !.late = TRUE]
    BY <1>2 DEF push
  <2>2. TRUE \in BOOLEAN
    OBVIOUS
  <2>3. push(m, e) \in Mergers
    BY <2>1, <2>2, Zenon DEF Mergers
  <2>4. push(m, e).buffered = b /\ push(m, e).late = TRUE
    BY <2>1, Zenon DEF Mergers
  <2> QED
    BY <2>3, <2>4
<1>3. CASE ~(e.at < capture.last)
  <2>1. push(m, e) = [m EXCEPT !.buffered = r]
    BY <1>3 DEF push
  <2> HIDE DEF b
  <2>2. u \in 0 .. Len(b) /\ Cuts(b, e.at, u, Len(b))
    <3>1. e.at \in Int
      BY <1>1
    <3> QED
      BY ONLY <1>1, <3>1, UpToCuts
  <2> HIDE DEF u
  <2>3. Joins(b, u, e, r)
    BY <1>1, <2>2, InsertJoins
  <2> HIDE DEF r, j
  <2>4. /\ Sorted(r) /\ Accepts(r) = Accepts(b) \cup ({e.accepts} \ {0})
        /\ \A i \in DOMAIN r : r[i] = e \/ \E k \in DOMAIN b : r[i] = b[k]
    BY <1>1, <2>2, <2>3, JoinedIsSorted
  <2>5. r \in Seq(Stamped) /\ Len(r) = Len(b) + 1
    BY <2>3 DEF Joins
  <2>6. push(m, e) \in Mergers
    BY <2>1, <2>5, Zenon DEF Mergers
  <2>7. push(m, e).buffered = r /\ push(m, e).late = m.late
    BY <2>1, Zenon DEF Mergers
  <2>8. From(capture.last, b) /\ Past(b)
    BY DEF Buffered, b
  <2>9. From(capture.last, r) /\ Past(r)
    BY <1>1, <1>3, <2>4, <2>8 DEF From, Past
  <2> QED
    BY <2>4, <2>5, <2>6, <2>7, <2>9 DEF Buffered, b
<1> QED
  BY <1>2, <1>3

\* TakenIn, by the function that it is the last value of.
Unmerged == [buffered |-> capture.buffered, late |-> FALSE]
Takes(f) == f = [n \in 0 .. Len(queue) |-> IF n = 0 THEN Unmerged ELSE push(f[n - 1], queue[n])]

\* Mergers whose buffer is in order.
Orderly == {m \in Mergers : Buffered(m.buffered)}

LEMMA FirstIsOrderly ==
  ASSUME CaptureTyped, StampsArePast, BufferIsSorted
  PROVE  Unmerged \in Orderly /\ Unmerged.buffered = capture.buffered
<1>1. capture.buffered \in Seq(Stamped) /\ FALSE \in BOOLEAN
  BY DEF CaptureTyped, Captures
<1>2. Unmerged \in Mergers
  BY <1>1, Zenon DEF Unmerged, Mergers
<1>3. Unmerged.buffered = capture.buffered
  BY Zenon DEF Unmerged
<1>4. Buffered(capture.buffered)
  BY DEF Buffered, BufferIsSorted, StampsArePast
<1> QED
  BY <1>2, <1>3, <1>4 DEF Orderly

LEMMA PushKeepsOrder ==
  ASSUME CaptureTyped, StampsArePast, NEW n \in 1 .. Len(queue), NEW m \in Orderly
  PROVE  /\ push(m, queue[n]) \in Orderly
         /\ ~push(m, queue[n]).late =>
              /\ ~m.late /\ Len(push(m, queue[n]).buffered) = Len(m.buffered) + 1
              /\ Accepts(push(m, queue[n]).buffered)
                   = Accepts(m.buffered) \cup ({queue[n].accepts} \ {0})
<1>1. queue \in Seq(Stamped) /\ now \in Nat /\ capture \in Captures
  BY DEF CaptureTyped
<1>2. queue[n] \in Stamped /\ n \in DOMAIN queue
  BY <1>1, StampedFacts
<1>3. queue[n].at <= now
  BY <1>2 DEF StampsArePast, Past
<1>4. m \in Mergers /\ Buffered(m.buffered)
  BY DEF Orderly
<1> QED
  BY <1>1, <1>2, <1>3, <1>4, PushTakes DEF Orderly

LEMMA TakenInIs ==
  ASSUME CaptureTyped, StampsArePast, BufferIsSorted
  PROVE  \E f \in [0 .. Len(queue) -> Orderly] :
           /\ TakenIn = f[Len(queue)] /\ f[0] = Unmerged
           /\ \A n \in 1 .. Len(queue) : f[n] = push(f[n - 1], queue[n])
<1> DEFINE N == Len(queue)
           X == Orderly
           Take == [p \in (1 .. N) \X X |-> push(p[2], queue[p[1]])]
           g == CHOOSE f : Takes(f)
<1>1. N \in Nat /\ \A n \in 1 .. N : n - 1 \in 0 .. N
  BY LenProperties DEF CaptureTyped
<1>2. Unmerged \in X
  BY FirstIsOrderly
<1>3. \A n \in 1 .. N, m \in X : push(m, queue[n]) \in X
  BY PushKeepsOrder
<1> HIDE DEF X, N
<1>4. Take \in Moves(N, X) /\ \A n \in 1 .. N, m \in X : Take[<<n, m>>] = push(m, queue[n])
  <2>1. \A q \in (1 .. N) \X X : q[1] \in 1 .. N /\ q[2] \in X
    OBVIOUS
  <2> QED
    BY <1>3, <2>1 DEF Moves
<1> HIDE DEF Take
<1>5. PICK f : Recursion(X, Unmerged, N, Take, f)
  BY <1>1, <1>2, <1>4, RecursionExists
<1>6. /\ f \in [0 .. N -> X] /\ f[0] = Unmerged
      /\ \A n \in 1 .. N : f[n] = push(f[n - 1], queue[n])
  <2>1. /\ f \in [0 .. N -> X] /\ f[0] = Unmerged
        /\ \A n \in 1 .. N : f[n] = Take[<<n, f[n - 1]>>]
    BY <1>5 DEF Recursion
  <2>2. \A n \in 1 .. N : f[n - 1] \in X
    BY <1>1, <2>1
  <2> QED
    BY <1>4, <2>1, <2>2
<1>7. Takes(f)
  <2>1. \A n \in 0 .. N : n # 0 => n \in 1 .. N
    BY <1>1
  <2>2. \A n \in 0 .. N : f[n] = IF n = 0 THEN Unmerged ELSE push(f[n - 1], queue[n])
    BY <1>6, <2>1
  <2>3. f = [n \in 0 .. N |-> f[n]]
    BY <1>6
  <2> QED
    BY <2>2, <2>3 DEF Takes, N
<1>8. Takes(g)
  BY <1>7
<1>9. TakenIn = g[N]
  BY DEF TakenIn, Takes, N, Unmerged
<1> HIDE DEF g
<1>10. \A n \in 0 .. N : g[n] = IF n = 0 THEN Unmerged ELSE push(g[n - 1], queue[n])
  BY <1>8, Zenon DEF Takes, N
<1>11. f[N] = g[N]
  <2>1. ASSUME NEW i \in 1 .. N, f[i - 1] = g[i - 1] PROVE f[i] = g[i]
    <3>1. i \in 0 .. N /\ i # 0
      BY <1>1, <2>1
    <3> QED
      BY <1>6, <1>10, <2>1, <3>1
  <2>2. N \in Nat /\ 0 \in 0 .. N
    BY <1>1
  <2>3. f[0] = g[0]
    BY <1>6, <1>10, <2>2
  <2> QED
    BY ONLY <2>1, <2>2, <2>3, RecursionAgrees
<1> QED
  BY <1>6, <1>9, <1>11 DEF N, X

\* The buffer holds what it held and the first events of the queue.
Sums(m, n) ==
  ~m.late => /\ Len(m.buffered) = Len(capture.buffered) + n
             /\ \A x : x \in Accepts(m.buffered) <=>
                  \/ x \in Accepts(capture.buffered)
                  \/ x # 0 /\ \E i \in 1 .. n : queue[i].accepts = x

\* Everything queued is in the buffer, unless it was late.
LEMMA TakenInHoldsAll ==
  ASSUME CaptureTyped, StampsArePast, BufferIsSorted
  PROVE  /\ TakenIn \in Orderly
         /\ ~TakenIn.late =>
              /\ Len(TakenIn.buffered) = Len(capture.buffered) + Len(queue)
              /\ Accepts(TakenIn.buffered) = Accepts(capture.buffered) \cup Accepts(queue)
<1> DEFINE N == Len(queue)
<1>1. PICK f \in [0 .. N -> Orderly] :
        /\ TakenIn = f[N] /\ f[0] = Unmerged
        /\ \A n \in 1 .. N : f[n] = push(f[n - 1], queue[n])
  BY TakenInIs
<1>2. /\ N \in Nat /\ DOMAIN queue = 1 .. N /\ Len(capture.buffered) \in Nat
  BY SequenceFacts DEF CaptureTyped, Captures
<1> DEFINE S == {n \in Nat : n <= N => Sums(f[n], n)}
<1>3. 0 \in S
  <2>1. Unmerged.buffered = capture.buffered
    BY FirstIsOrderly
  <2>2. \A i \in 1 .. 0 : FALSE
    OBVIOUS
  <2>3. Sums(f[0], 0)
    BY <1>1, <1>2, <2>1, <2>2 DEF Sums
  <2> QED
    BY <2>3
<1>4. ASSUME NEW n \in Nat, n \in S PROVE n + 1 \in S
  <2>1. SUFFICES ASSUME n + 1 <= N PROVE Sums(f[n + 1], n + 1)
    OBVIOUS
  <2>2. n \in 0 .. N /\ n + 1 \in 1 .. N /\ n + 1 - 1 = n
    BY <1>2, <2>1
  <2>3. f[n] \in Orderly /\ f[n + 1] = push(f[n], queue[n + 1])
    BY <1>1, <2>2
  <2>4. Sums(f[n], n)
    BY <1>2, <1>4, <2>1
  <2>5. ~f[n + 1].late =>
          /\ ~f[n].late /\ Len(f[n + 1].buffered) = Len(f[n].buffered) + 1
          /\ Accepts(f[n + 1].buffered) = Accepts(f[n].buffered) \cup ({queue[n + 1].accepts} \ {0})
    BY <2>2, <2>3, PushKeepsOrder
  <2>6. \A x : (\E i \in 1 .. n + 1 : queue[i].accepts = x) <=>
                 \/ \E i \in 1 .. n : queue[i].accepts = x
                 \/ queue[n + 1].accepts = x
    <3>1. 1 .. n + 1 = (1 .. n) \cup {n + 1}
      OBVIOUS
    <3> QED
      BY <3>1
  <2>7. ASSUME ~f[n + 1].late PROVE Len(f[n + 1].buffered) = Len(capture.buffered) + (n + 1)
    <3>1. Len(f[n].buffered) = Len(capture.buffered) + n
      BY <2>4, <2>5, <2>7 DEF Sums
    <3>2. Len(f[n + 1].buffered) = Len(f[n].buffered) + 1
      BY <2>5, <2>7
    <3> QED
      BY ONLY <1>2, <3>1, <3>2, n \in Nat
  <2>8. ASSUME ~f[n + 1].late, NEW x
        PROVE  x \in Accepts(f[n + 1].buffered) <=>
                 \/ x \in Accepts(capture.buffered)
                 \/ x # 0 /\ \E i \in 1 .. n + 1 : queue[i].accepts = x
    BY <2>4, <2>5, <2>6, <2>8 DEF Sums
  <2> QED
    BY <2>7, <2>8 DEF Sums
<1> HIDE DEF S
<1>5. N \in S
  BY <1>2, <1>3, <1>4, SetInduction
<1>6. Sums(TakenIn, N)
  BY <1>1, <1>2, <1>5 DEF S
<1>7. TakenIn \in Orderly
  BY <1>1, <1>2
<1>8. ASSUME ~TakenIn.late
      PROVE  Accepts(TakenIn.buffered) = Accepts(capture.buffered) \cup Accepts(queue)
  <2>1. ASSUME NEW x
        PROVE  x \in Accepts(TakenIn.buffered) <=> x \in Accepts(capture.buffered) \cup Accepts(queue)
    BY <1>2, <1>6, <1>8, AcceptsHas DEF Sums
  <2> QED
    BY <2>1
<1> QED
  BY <1>6, <1>7, <1>8 DEF Sums

LEMMA WrittenInOrder ==
  ASSUME NEW file \in Files, file.ordered, NEW r \in Seq(Stamped), Sorted(r), From(file.last, r)
  PROVE  /\ Written(file, r) \in Files /\ Written(file, r).ordered
         /\ Written(file, r).events = file.events + Len(r)
         /\ Written(file, r).accepted = file.accepted \cup Accepts(r)
         /\ r = << >> => Written(file, r).last = file.last
         /\ r # << >> => Written(file, r).last = Last(r).at
<1> DEFINE n == file.events + Len(r)
           l == IF r = << >> THEN file.last ELSE Last(r).at
           o == /\ file.ordered
                /\ \A i \in DOMAIN r : (IF i = 1 THEN file.last ELSE r[i - 1].at) <= r[i].at
           a == file.accepted \cup Accepts(r)
           w == [events |-> n, last |-> l, ordered |-> o, accepted |-> a]
<1>1. /\ Len(r) \in Nat /\ DOMAIN r = 1 .. Len(r) /\ (\A i \in 1 .. Len(r) : r[i] \in Stamped)
      /\ (\A i \in 1 .. Len(r) : r[i].at \in Nat) /\ (r = << >> <=> Len(r) = 0)
  BY StampedFacts, SequenceFacts
<1>2. file.events \in Nat /\ file.last \in Nat /\ file.accepted \subseteq Trials
  BY DEF Files
<1>3. n \in Nat
  BY <1>1, <1>2
<1>4. l \in Nat
  <2>1. CASE r = << >>
    BY <1>2, <2>1
  <2>2. CASE r # << >>
    <3>1. Len(r) \in 1 .. Len(r)
      BY <1>1, <2>2
    <3> QED
      BY <1>1, <2>2, <3>1 DEF Last
  <2> QED
    BY <2>1, <2>2
<1>5. o
  <2>1. ASSUME NEW i \in DOMAIN r PROVE (IF i = 1 THEN file.last ELSE r[i - 1].at) <= r[i].at
    <3>1. CASE i = 1
      BY <3>1 DEF From
    <3>2. CASE i # 1
      <4>1. i - 1 \in DOMAIN r /\ i - 1 <= i
        BY <1>1, <3>2
      <4> QED
        BY <3>2, <4>1 DEF Sorted
    <3> QED
      BY <3>1, <3>2
  <2> QED
    BY <2>1
<1>6. a \subseteq Trials
  <2>1. ASSUME NEW x \in Accepts(r) PROVE x \in Trials
    <3>1. PICK i \in DOMAIN r : x # 0 /\ r[i].accepts = x
      BY AcceptsHas
    <3>2. r[i] \in Stamped
      BY <1>1
    <3> QED
      BY <3>1, <3>2 DEF Stamped
  <2> QED
    BY <1>2, <2>1
<1>7. Written(file, r) = w
  BY Zenon DEF Written
<1>8. r # << >> => l = Last(r).at
  OBVIOUS
<1>9. r = << >> => l = file.last
  OBVIOUS
<1>10. o = TRUE
  BY <1>5
<1> HIDE DEF n, l, o, a
<1>11. w \in Files
  <2>1. o \in BOOLEAN
    BY <1>10
  <2> QED
    BY <1>3, <1>4, <1>6, <2>1, Zenon DEF Files
<1>12. w.events = n /\ w.last = l /\ w.ordered = o /\ w.accepted = a
  BY Zenon
<1> HIDE DEF w
<1> QED
  BY <1>7, <1>8, <1>9, <1>10, <1>11, <1>12 DEF n, a

\* The writes of a drain keep the buffer in order and lose nothing, or the
\* writer has failed.
LEMMA DrainKeeps ==
  ASSUME CaptureTyped, BufferIsSorted, NEW m \in Orderly, NEW time \in Int, NEW fails \in BOOLEAN,
         NEW c, c = drain(m, time, fails)
  PROVE  /\ c \in Captures /\ c.at = capture.at /\ c.done = capture.done
         /\ c.trailer = capture.trailer
         /\ Sorted(c.buffered) /\ From(c.last, c.buffered) /\ Past(c.buffered)
         /\ c.file.ordered /\ (~c.failed => c.file.last = c.last)
         /\ ~c.failed => ~capture.failed
         /\ ~c.failed => Len(c.buffered) + c.file.events = Len(m.buffered) + capture.file.events
         /\ ~c.failed => Accepts(c.buffered) \cup c.file.accepted
                           = Accepts(m.buffered) \cup capture.file.accepted
         /\ now <= time => c.buffered = << >>
<1> DEFINE b == m.buffered
           n == UpTo(b, time)
           ready == SubSeq(b, 1, n)
           rest == SubSeq(b, n + 1, Len(b))
           failed == capture.failed \/ (fails /\ ready # << >>)
           last == IF ready = << >> THEN capture.last ELSE Last(ready).at
           file == IF failed THEN capture.file ELSE Written(capture.file, ready)
<1>1. /\ b \in Seq(Stamped) /\ Sorted(b) /\ From(capture.last, b) /\ Past(b)
  BY DEF Orderly, Mergers, Buffered
<1>2. /\ capture \in Captures /\ capture.last \in Nat /\ capture.file \in Files
      /\ capture.file.ordered /\ capture.file.events \in Nat /\ now \in Nat
      /\ capture.failed \in BOOLEAN /\ (~capture.failed => capture.file.last = capture.last)
  BY DEF CaptureTyped, Captures, Files, BufferIsSorted
<1>3. c = [capture EXCEPT !.buffered = rest, !.failed = failed, !.last = last, !.file = file]
  BY Zenon DEF drain
<1>4. Len(b) \in Nat /\ DOMAIN b = 1 .. Len(b) /\ \A i \in 1 .. Len(b) : b[i].at \in Nat
  BY <1>1, StampedFacts
<1> HIDE DEF b
<1>5. n \in 0 .. Len(b) /\ Cuts(b, time, n, Len(b))
  BY ONLY <1>1, UpToCuts, time \in Int
<1> HIDE DEF n
<1>21. n \in Nat /\ n <= Len(b) /\ Len(b) \in Nat /\ Len(b) - n \in Nat
  BY ONLY <1>4, <1>5
<1>6. Parts(b, n, ready, rest)
  BY ONLY <1>1, <1>5, CutInParts
<1> HIDE DEF ready, rest
<1>7. /\ Sorted(ready) /\ Sorted(rest) /\ Accepts(b) = Accepts(ready) \cup Accepts(rest)
      /\ \A i \in 1 .. n : i \in DOMAIN b /\ b[i] = ready[i]
      /\ \A i \in 1 .. Len(b) - n : n + i \in DOMAIN b /\ b[n + i] = rest[i]
  BY ONLY <1>1, <1>5, <1>6, PartsOfSorted
<1>8. /\ ready \in Seq(Stamped) /\ rest \in Seq(Stamped) /\ Len(ready) = n
      /\ Len(rest) = Len(b) - n /\ DOMAIN ready = 1 .. n /\ DOMAIN rest = 1 .. Len(b) - n
      /\ (ready = << >> <=> n = 0) /\ (rest = << >> <=> Len(b) - n = 0)
  <2>1. ready \in Seq(Stamped) /\ rest \in Seq(Stamped) /\ Len(ready) = n /\ Len(rest) = Len(b) - n
    BY <1>6 DEF Parts
  <2> QED
    BY <2>1, SequenceFacts
<1>9. From(capture.last, ready) /\ From(capture.last, rest) /\ Past(rest)
  BY <1>1, <1>7, <1>8 DEF From, Past
<1>10. last \in Nat /\ From(last, rest)
  <2>1. CASE ready = << >>
    BY <1>2, <1>9, <2>1
  <2>2. CASE ready # << >>
    <3>1. n \in 1 .. n /\ n \in DOMAIN b
      <4>1. n # 0
        BY <1>8, <2>2
      <4>2. n \in 1 .. n /\ n \in 1 .. Len(b)
        BY ONLY <1>21, <4>1
      <4> QED
        BY <1>4, <4>2
    <3>2. last = b[n].at
      BY <1>7, <1>8, <2>2, <3>1 DEF Last
    <3>3. ASSUME NEW i \in DOMAIN rest PROVE b[n].at <= rest[i].at
      <4>1. n + i \in DOMAIN b /\ b[n + i] = rest[i]
        BY <1>7, <1>8
      <4>2. i \in 1 .. Len(b) - n
        BY <1>8
      <4>3. n <= n + i
        BY ONLY <1>21, <4>2
      <4> QED
        BY <1>1, <3>1, <4>1, <4>3 DEF Sorted
    <3> QED
      BY <1>4, <3>1, <3>2, <3>3 DEF From
  <2> QED
    BY <2>1, <2>2
<1>11. ASSUME now <= time PROVE rest = << >>
  <2>1. CASE n = Len(b)
    BY <1>4, <1>8, <2>1
  <2>2. CASE n # Len(b)
    <3>1. n + 1 \in 1 .. Len(b) /\ ~(n + 1 <= n)
      BY ONLY <1>21, <2>2
    <3>2. ~(b[n + 1].at <= time)
      BY <1>5, <3>1 DEF Cuts
    <3>3. b[n + 1].at <= now /\ b[n + 1].at \in Nat
      BY <1>1, <1>4, <3>1 DEF Past
    <3> QED
      BY <1>2, <1>11, <3>2, <3>3
  <2> QED
    BY <2>1, <2>2
<1>12. /\ ~capture.failed =>
            /\ Written(capture.file, ready) \in Files /\ Written(capture.file, ready).ordered
            /\ Written(capture.file, ready).events = capture.file.events + n
            /\ Written(capture.file, ready).accepted = capture.file.accepted \cup Accepts(ready)
            /\ Written(capture.file, ready).last = last
  BY <1>2, <1>8, <1>9, <1>7, WrittenInOrder
<1>13. failed \in BOOLEAN
  BY <1>2
<1>14. /\ file \in Files /\ file.ordered
       /\ ~failed => /\ ~capture.failed /\ file.last = last
                     /\ file.events = capture.file.events + n
                     /\ file.accepted = capture.file.accepted \cup Accepts(ready)
  <2>1. CASE failed
    BY <1>2, <2>1
  <2>2. CASE ~failed
    <3>1. ~capture.failed /\ file = Written(capture.file, ready)
      BY <2>2
    <3> QED
      BY <1>12, <3>1
  <2> QED
    BY <2>1, <2>2
<1> HIDE DEF failed, last, file
<1>15. c \in Captures
  BY <1>2, <1>3, <1>8, <1>10, <1>13, <1>14, Zenon DEF Captures
<1>16. /\ c.buffered = rest /\ c.failed = failed /\ c.last = last /\ c.file = file
       /\ c.at = capture.at /\ c.done = capture.done /\ c.trailer = capture.trailer
  BY <1>2, <1>3, Zenon DEF Captures
<1>17. ASSUME ~failed
       PROVE  /\ Len(rest) + file.events = Len(b) + capture.file.events
              /\ Accepts(rest) \cup file.accepted = Accepts(b) \cup capture.file.accepted
  <2>1. Len(rest) = Len(b) - n /\ file.events = capture.file.events + n
    BY <1>8, <1>14, <1>17
  <2>2. capture.file.events \in Nat
    BY <1>2
  <2>3. Len(rest) + file.events = Len(b) + capture.file.events
    BY ONLY <1>21, <2>1, <2>2
  <2> QED
    BY <1>7, <1>14, <1>17, <2>3
<1>18. c.failed <=> failed
  BY <1>16
<1> HIDE DEF b
<1>19. /\ Sorted(c.buffered) /\ From(c.last, c.buffered) /\ Past(c.buffered)
       /\ c.file.ordered /\ (now <= time => c.buffered = << >>)
  BY <1>7, <1>9, <1>10, <1>11, <1>14, <1>16
<1>20. ASSUME ~c.failed
       PROVE  /\ ~capture.failed /\ c.file.last = c.last
              /\ Len(c.buffered) + c.file.events = Len(b) + capture.file.events
              /\ Accepts(c.buffered) \cup c.file.accepted = Accepts(b) \cup capture.file.accepted
  BY <1>14, <1>16, <1>17, <1>18, <1>20
<1> QED
  BY <1>15, <1>16, <1>19, <1>20 DEF b

\* Each outcome of a merge keeps the buffer in order and holds everything
\* queued, unless it is bad.
LEMMA MergedKeeps ==
  ASSUME CaptureTyped, StampsArePast, BufferIsSorted, NEW time \in Int, NEW m \in Merging(time)
  PROVE  /\ m.capture \in Captures /\ m.capture.done = capture.done
         /\ m.capture.trailer = capture.trailer
         /\ Sorted(m.capture.buffered) /\ From(m.capture.last, m.capture.buffered)
         /\ Past(m.capture.buffered) /\ m.capture.file.ordered
         /\ ~m.capture.failed => m.capture.file.last = m.capture.last
         /\ ~capture.failed /\ ~Bad(m) =>
              /\ ~m.capture.failed
              /\ Len(m.capture.buffered) + m.capture.file.events
                   = Len(capture.buffered) + Len(queue) + capture.file.events
              /\ Accepts(m.capture.buffered) \cup m.capture.file.accepted
                   = Accepts(capture.buffered) \cup Accepts(queue) \cup capture.file.accepted
         /\ now <= time => m.capture.buffered = << >>
<1>1. TakenIn \in Orderly
  BY TakenInHoldsAll
<1>2. PICK fails \in BOOLEAN :
        m = [late |-> TakenIn.late, capture |-> drain(TakenIn, time, fails)]
  <2>1. \E merger \in {TakenIn}, fails \in BOOLEAN :
          m = [late |-> merger.late, capture |-> drain(merger, time, fails)]
    BY DEF Merging
  <2> QED
    BY <2>1
<1> DEFINE c == drain(TakenIn, time, fails)
<1>3. m.capture = c /\ m.late = TakenIn.late
  BY <1>2, Zenon
<1> HIDE DEF c
<1>4. /\ c \in Captures /\ c.at = capture.at /\ c.done = capture.done
      /\ c.trailer = capture.trailer
      /\ Sorted(c.buffered) /\ From(c.last, c.buffered) /\ Past(c.buffered)
      /\ c.file.ordered /\ (~c.failed => c.file.last = c.last)
      /\ ~c.failed => ~capture.failed
      /\ ~c.failed => Len(c.buffered) + c.file.events = Len(TakenIn.buffered) + capture.file.events
      /\ ~c.failed => Accepts(c.buffered) \cup c.file.accepted
                        = Accepts(TakenIn.buffered) \cup capture.file.accepted
      /\ now <= time => c.buffered = << >>
  BY <1>1, DrainKeeps DEF c
<1>5. ASSUME ~capture.failed, ~Bad(m) PROVE ~c.failed /\ ~TakenIn.late
  BY <1>3, <1>5 DEF Bad
<1>6. ~TakenIn.late =>
        /\ Len(TakenIn.buffered) = Len(capture.buffered) + Len(queue)
        /\ Accepts(TakenIn.buffered) = Accepts(capture.buffered) \cup Accepts(queue)
  BY TakenInHoldsAll
<1> QED
  BY <1>3, <1>4, <1>5, <1>6

-----------------------------------------------------------------------------
(* LizardCapture: an event is offered.                                     *)

LEMMA UnmarkedFacts ==
  ASSUME NEW s \in Seq(Unmarked)
  PROVE  s \in Seq(Stamped) /\ Accepts(s) = {}
<1>1. \A e \in Unmarked : e \in Stamped /\ e.accepts = 0
  BY DEF Unmarked, Stamped
<1>2. Len(s) \in Nat /\ DOMAIN s = 1 .. Len(s) /\ \A i \in 1 .. Len(s) : s[i] \in Unmarked
  BY SequenceFacts
<1>3. \A i \in DOMAIN s : s[i].accepts = 0
  BY <1>1, <1>2
<1>4. s \in Seq(Stamped)
  BY <1>1
<1> QED
  BY <1>3, <1>4 DEF Accepts

LEMMA OneOffered ==
  ASSUME NEW s \in Seq(Stamped), s # << >>
  PROVE  /\ Head(s) \in Stamped /\ Tail(s) \in Seq(Stamped) /\ Len(s) = Len(Tail(s)) + 1
         /\ Accepts(s) = Accepts(Tail(s)) \cup ({Head(s).accepts} \ {0})
         /\ Past(s) => Head(s).at <= now /\ Past(Tail(s))
<1> DEFINE t == Tail(s)
<1>1. /\ Len(s) \in Nat /\ DOMAIN s = 1 .. Len(s) /\ Len(s) # 0
      /\ \A i \in 1 .. Len(s) : s[i] \in Stamped
  BY SequenceFacts
<1>2. t \in Seq(Stamped) /\ Len(t) = Len(s) - 1 /\ \A i \in 1 .. Len(t) : t[i] = s[i + 1]
  BY HeadTailProperties
<1> HIDE DEF t
<1>3. Len(t) \in Nat /\ DOMAIN t = 1 .. Len(t) /\ Len(s) = Len(t) + 1
  BY <1>1, <1>2, SequenceFacts
<1>4. 1 \in DOMAIN s /\ Head(s) = s[1] /\ s[1] \in Stamped
  BY <1>1
<1>5. \A i \in DOMAIN t : i + 1 \in DOMAIN s /\ t[i] = s[i + 1]
  BY <1>1, <1>2, <1>3
<1>6. \A i \in DOMAIN s : i = 1 \/ (i - 1 \in DOMAIN t /\ t[i - 1] = s[i])
  BY <1>1, <1>2, <1>3
<1>7. ASSUME NEW x PROVE x \in Accepts(s) <=> x \in Accepts(t) \cup ({s[1].accepts} \ {0})
  <2>1. (\E i \in DOMAIN s : s[i].accepts = x)
          <=> (\E i \in DOMAIN t : t[i].accepts = x) \/ s[1].accepts = x
    BY <1>4, <1>5, <1>6
  <2> QED
    BY <2>1, AcceptsHas
<1>8. Past(s) => s[1].at <= now /\ Past(t)
  BY <1>4, <1>5 DEF Past
<1> QED
  BY <1>2, <1>3, <1>4, <1>7, <1>8 DEF t

LEMMA OneQueued ==
  ASSUME NEW s \in Seq(Stamped), NEW e \in Stamped
  PROVE  /\ Append(s, e) \in Seq(Stamped) /\ Len(Append(s, e)) = Len(s) + 1
         /\ Accepts(Append(s, e)) = Accepts(s) \cup ({e.accepts} \ {0})
         /\ Past(s) /\ e.at <= now => Past(Append(s, e))
<1> DEFINE t == Append(s, e)
           n == Len(s)
<1>1. n \in Nat /\ DOMAIN s = 1 .. n
  BY SequenceFacts
<1>2. t \in Seq(Stamped) /\ Len(t) = n + 1 /\ (\A i \in 1 .. n : t[i] = s[i]) /\ t[n + 1] = e
  BY AppendProperties
<1> HIDE DEF t
<1>3. DOMAIN t = 1 .. n + 1
  BY <1>2, SequenceFacts
<1> HIDE DEF n
<1>4. n + 1 \in DOMAIN t /\ \A i \in DOMAIN s : i \in DOMAIN t /\ t[i] = s[i]
  BY <1>1, <1>2, <1>3
<1>5. \A i \in DOMAIN t : i = n + 1 \/ i \in DOMAIN s
  BY <1>1, <1>3
<1>6. ASSUME NEW x PROVE x \in Accepts(t) <=> x \in Accepts(s) \cup ({e.accepts} \ {0})
  <2>1. (\E i \in DOMAIN t : t[i].accepts = x)
          <=> (\E i \in DOMAIN s : s[i].accepts = x) \/ e.accepts = x
    BY <1>2, <1>4, <1>5
  <2> QED
    BY <2>1, AcceptsHas
<1>7. Past(s) /\ e.at <= now => Past(t)
  BY <1>2, <1>4, <1>5 DEF Past
<1> QED
  BY <1>2, <1>6, <1>7 DEF t, n

LEMMA OfferKeeps ==
  ASSUME NEW o \in Seq(Stamped), o # << >>, Past(o), queue \in Seq(Stamped), Past(queue),
         shared \in Shareds, Offer(Head(o))
  PROVE  /\ Tail(o) \in Seq(Stamped) /\ Past(Tail(o)) /\ queue' \in Seq(Stamped) /\ Past(queue')
         /\ shared' \in Shareds /\ shared'.completed = shared.completed
         /\ (shared.stop => shared'.stop) /\ (shared.invalid => shared'.invalid)
         /\ ~shared'.invalid =>
              /\ Len(queue') + Len(Tail(o)) = Len(queue) + Len(o)
              /\ Accepts(queue') \cup Accepts(Tail(o)) = Accepts(queue) \cup Accepts(o)
<1> DEFINE e == Head(o)
           t == Tail(o)
           a == Append(queue, e)
<1>1. /\ e \in Stamped /\ t \in Seq(Stamped) /\ Len(o) = Len(t) + 1
      /\ Accepts(o) = Accepts(t) \cup ({e.accepts} \ {0}) /\ e.at <= now /\ Past(t)
  BY OneOffered
<1>2. /\ a \in Seq(Stamped) /\ Len(a) = Len(queue) + 1 /\ Past(a)
      /\ Accepts(a) = Accepts(queue) \cup ({e.accepts} \ {0})
  BY <1>1, OneQueued
<1>3. Len(queue) \in Nat /\ Len(t) \in Nat
  BY <1>1, SequenceFacts
<1>4. \/ queue' = queue /\ shared' = shared /\ shared.invalid
      \/ queue' = queue /\ shared' = Invalidated(shared)
      \/ queue' = a /\ shared' = shared
  BY DEF Offer
<1> HIDE DEF e, t, a
<1>5. CASE queue' = queue /\ shared' = shared /\ shared.invalid
  BY <1>1, <1>5 DEF t
<1>6. CASE queue' = queue /\ shared' = Invalidated(shared)
  <2>1. /\ shared' \in Shareds /\ shared'.completed = shared.completed
        /\ shared'.stop /\ shared'.invalid
    BY <1>6, Zenon DEF Invalidated, Shareds
  <2> QED
    BY <1>1, <1>6, <2>1 DEF t
<1>7. CASE queue' = a /\ shared' = shared
  BY <1>1, <1>2, <1>3, <1>7 DEF t
<1> QED
  BY <1>4, <1>5, <1>6, <1>7

-----------------------------------------------------------------------------
(* LizardCapture: the window and the terminal's user.                      *)

\* What the capture's threads keep is not touched by who only asks them to
\* stop, talks to the guide or changes the window.
LEMMA WindowKeeps ==
  ASSUME CaptureInvariant, UNCHANGED <<now, queue, hid, tap, guide, capture, made>>,
         shared' \in Shareds, shared'.invalid = shared.invalid,
         shared'.completed = shared.completed, shared.stop => shared'.stop,
         commands' \in Seq(Commands), lab' \in Labs, Free' <=> Free
  PROVE  CaptureInvariant'
<1>1. CaptureTyped'
  BY DEF CaptureInvariant, CaptureTyped
<1>2. StampsArePast'
  BY DEF CaptureInvariant, StampsArePast, Past
<1>3. BufferIsSorted'
  BY DEF CaptureInvariant, BufferIsSorted, Sorted, From
<1>4. Accounted'
  <2>1. ~shared'.invalid => ~shared.invalid
    OBVIOUS
  <2>2. OnTheWay' = OnTheWay
    BY DEF OnTheWay
  <2>3. MarkedOnTheWay' = MarkedOnTheWay /\ Accepts(capture.buffered)' = Accepts(capture.buffered)
    BY DEF MarkedOnTheWay, Accepts
  <2> QED
    BY <2>1, <2>2, <2>3 DEF CaptureInvariant, Accounted
<1>5. ThreadsEnd'
  BY DEF CaptureInvariant, ThreadsEnd
<1>6. ClosesLast'
  BY DEF CaptureInvariant, ClosesLast
<1> QED
  BY <1>1, <1>2, <1>3, <1>4, <1>5, <1>6 DEF CaptureInvariant

\* A step of the window that sends commands.
LEMMA LabFields ==
  ASSUME CaptureTyped
  PROVE  /\ lab.screen \in Screens /\ lab.phase \in Phases /\ lab.trial \in Trials
         /\ lab.attempt \in Nat /\ lab.leaving \in BOOLEAN
         /\ shared.stop \in BOOLEAN /\ shared.invalid \in BOOLEAN /\ shared.completed \in BOOLEAN
  BY Zenon DEF CaptureTyped, Labs, Shareds

LEMMA SendKeeps ==
  ASSUME CaptureTyped, NEW kind \in CommandKinds, Send(kind)
  PROVE  commands' \in Seq(Commands)
<1>1. [kind |-> kind, trial |-> lab.trial] \in Commands
  BY LabFields, Zenon DEF Commands
<1>2. commands \in Seq(Commands)
  BY DEF CaptureTyped
<1> QED
  BY <1>1, <1>2, AppendProperties DEF Send

LEMMA TrialGoesOnKeeps ==
  ASSUME CaptureInvariant, TrialGoesOn
  PROVE  CaptureInvariant'
<1>1. CaptureTyped /\ shared' = shared /\ shared \in Shareds /\ lab.screen = "capturing"
  BY DEF CaptureInvariant, CaptureTyped, TrialGoesOn, Window
<1>2. PICK kind \in {"start", "end"}, phase \in {"measuring", "review"} :
        Send(kind) /\ lab' = [lab EXCEPT !.phase = phase]
  BY DEF TrialGoesOn
<1>3. commands' \in Seq(Commands)
  BY <1>1, <1>2, SendKeeps DEF CommandKinds
<1>4. phase \in Phases /\ lab \in Labs
  BY <1>1 DEF Phases, CaptureTyped
<1>5. lab' \in Labs /\ lab'.screen = lab.screen
  BY <1>2, <1>4, Zenon DEF Labs
<1> QED
  BY <1>1, <1>3, <1>5, WindowKeeps DEF TrialGoesOn, Window, Free

LEMMA RetryTrialKeeps ==
  ASSUME CaptureInvariant, RetryTrial
  PROVE  CaptureInvariant'
<1>1. CaptureTyped /\ shared' = shared /\ shared \in Shareds /\ lab.screen = "capturing"
  BY DEF CaptureInvariant, CaptureTyped, RetryTrial, Window
<1>2. commands' \in Seq(Commands)
  BY <1>1, SendKeeps DEF CommandKinds, RetryTrial
<1>3. lab.attempt + 1 \in Nat /\ "waiting" \in Phases /\ lab \in Labs
  BY <1>1, LabFields DEF Phases, CaptureTyped
<1>4. lab' = [lab EXCEPT !.attempt = lab.attempt + 1, !.phase = "waiting"]
  BY DEF RetryTrial
<1>5. lab' \in Labs /\ lab'.screen = lab.screen
  BY <1>3, <1>4, Zenon DEF Labs
<1> QED
  BY <1>1, <1>2, <1>5, WindowKeeps DEF RetryTrial, Window, Free

LEMMA AcceptTrialKeeps ==
  ASSUME CaptureInvariant, AcceptTrial
  PROVE  CaptureInvariant'
<1> DEFINE accepted == [kind |-> "accepted", trial |-> lab.trial]
           finish == [kind |-> "finish", trial |-> lab.trial]
           both == <<accepted, finish>>
           last == lab.trial = Cardinality(Trials)
<1>1. /\ CaptureTyped /\ shared' = shared /\ shared \in Shareds /\ lab.screen = "capturing"
      /\ lab \in Labs /\ commands \in Seq(Commands)
  BY DEF CaptureInvariant, CaptureTyped, AcceptTrial, Window
<1>2. accepted \in Commands /\ finish \in Commands
  BY <1>1, LabFields, Zenon DEF Commands, CommandKinds
<1>3. /\ last => /\ commands' = commands \o both
                 /\ lab' = [lab EXCEPT !.screen = "processing"]
      /\ ~last => /\ commands' = Append(commands, accepted)
                  /\ lab' = [lab EXCEPT !.trial = lab.trial + 1, !.attempt = 1, !.phase = "waiting"]
  BY DEF AcceptTrial
<1>4. both \in Seq(Commands)
  BY <1>2
<1> HIDE DEF accepted, finish, both
<1>5. commands' \in Seq(Commands)
  <2>1. CASE last
    <3>1. commands \o both \in Seq(Commands)
      BY ONLY <1>1, <1>4, ConcatProperties
    <3> QED
      BY <1>3, <2>1, <3>1
  <2>2. CASE ~last
    BY ONLY <1>1, <1>2, <1>3, <2>2, AppendProperties
  <2> QED
    BY <2>1, <2>2
<1>6. ~last => lab.trial + 1 \in Trials
  <2>1. Trials = 1 .. Cardinality(Trials) /\ Cardinality(Trials) \in Nat
    BY CaptureAssumption, FS_CardinalityType
  <2> QED
    BY <1>1, <2>1, LabFields
<1>7. 1 \in Nat /\ "waiting" \in Phases /\ "processing" \in Screens
  BY DEF Phases, Screens
<1>8. lab' \in Labs /\ lab'.screen \in {"capturing", "processing"}
  <2>1. CASE last
    BY <1>1, <1>3, <1>7, <2>1, Zenon DEF Labs
  <2>2. CASE ~last
    <3>1. lab' \in Labs /\ lab'.screen = lab.screen
      BY <1>1, <1>3, <1>6, <1>7, <2>2, Zenon DEF Labs
    <3> QED
      BY <1>1, <3>1
  <2> QED
    BY <2>1, <2>2
<1>9. Free' <=> Free
  BY <1>1, <1>8 DEF Free
<1> QED
  BY <1>1, <1>5, <1>8, <1>9, WindowKeeps DEF AcceptTrial, Window

LEMMA CancelKeeps ==
  ASSUME CaptureTyped, cancel
  PROVE  /\ commands' \in Seq(Commands) /\ shared' \in Shareds
         /\ shared'.invalid = shared.invalid /\ shared'.completed = shared.completed
         /\ shared'.stop
<1>1. commands' \in Seq(Commands)
  BY SendKeeps DEF cancel, CommandKinds
<1>2. shared \in Shareds /\ shared' = [shared EXCEPT !.stop = TRUE]
  BY DEF cancel, CaptureTyped
<1>3. shared' \in Shareds /\ shared'.stop
      /\ shared'.invalid = shared.invalid /\ shared'.completed = shared.completed
  BY <1>2, Zenon DEF Shareds
<1> QED
  BY <1>1, <1>3

LEMMA LeavingKeeps ==
  ASSUME CaptureInvariant, CancelCapture \/ LeaveLab
  PROVE  CaptureInvariant'
<1>1. CaptureTyped /\ cancel /\ lab \in Labs /\ ~Free
  BY DEF CaptureInvariant, CaptureTyped, CancelCapture, LeaveLab, Window, Free
<1>2. "processing" \in Screens
  BY DEF Screens
<1>3. lab' \in Labs /\ lab'.screen = "processing"
  <2>1. \/ lab' = [lab EXCEPT !.screen = "processing"]
        \/ lab' = [lab EXCEPT !.screen = "processing", !.leaving = TRUE]
    BY DEF CancelCapture, LeaveLab
  <2> QED
    BY <1>1, <1>2, <2>1, Zenon DEF Labs
<1>4. Free' <=> Free
  BY <1>1, <1>3 DEF Free
<1>5. UNCHANGED <<now, queue, hid, tap, guide, capture, made>>
  BY DEF CancelCapture, LeaveLab, Window
<1> QED
  BY <1>1, <1>3, <1>4, <1>5, CancelKeeps, WindowKeeps

LEMMA TakeFinishedKeeps ==
  ASSUME CaptureInvariant, TakeFinished
  PROVE  CaptureInvariant'
<1>1. CaptureTyped /\ lab \in Labs /\ ~Free /\ shared \in Shareds /\ commands \in Seq(Commands)
  BY DEF CaptureInvariant, CaptureTyped, TakeFinished, Free
<1>2. PICK screen \in {"left", "results"} : lab' = [lab EXCEPT !.screen = screen]
  BY DEF TakeFinished
<1>3. screen \in Screens
  BY DEF Screens
<1>4. lab' \in Labs /\ lab'.screen = screen
  BY <1>1, <1>2, <1>3, Zenon DEF Labs
<1>5. Free' <=> Free
  BY <1>1, <1>4 DEF Free
<1> QED
  BY <1>1, <1>4, <1>5, WindowKeeps DEF TakeFinished

LEMMA InterruptKeeps ==
  ASSUME CaptureInvariant, Interrupt
  PROVE  CaptureInvariant'
<1>1. /\ shared \in Shareds /\ shared' = [shared EXCEPT !.stop = TRUE]
      /\ lab \in Labs /\ lab' = lab /\ commands \in Seq(Commands) /\ commands' = commands
  BY DEF CaptureInvariant, CaptureTyped, Interrupt
<1>2. /\ shared' \in Shareds /\ shared'.stop
      /\ shared'.invalid = shared.invalid /\ shared'.completed = shared.completed
  BY <1>1, Zenon DEF Shareds
<1> QED
  BY <1>1, <1>2, WindowKeeps DEF Interrupt, Free

-----------------------------------------------------------------------------
(* LizardCapture: the producers and the guide.                             *)

LEMMA ThreadFields ==
  ASSUME CaptureTyped
  PROVE  /\ hid.at \in ThreadStates /\ hid.offers \in Seq(Unmarked)
         /\ hid.seen \in SUBSET {"state", "lizard"} /\ hid.reports \in Nat
         /\ tap.at \in ThreadStates /\ tap.offers \in Seq(Unmarked)
         /\ tap.ready \in BOOLEAN /\ tap.events \in Nat
         /\ guide.at \in ThreadStates /\ guide.offers \in Seq(Stamped)
         /\ guide.accepted \in SUBSET Trials
         /\ Len(hid.offers) \in Nat /\ Len(tap.offers) \in Nat /\ Len(guide.offers) \in Nat
         /\ Len(queue) \in Nat /\ Len(capture.buffered) \in Nat /\ capture.file.events \in Nat
         /\ made \in Nat /\ now \in Nat
<1>1. /\ hid \in Hids /\ tap \in Taps /\ guide \in Guides /\ queue \in Seq(Stamped)
      /\ capture \in Captures /\ made \in Nat /\ now \in 0 .. MaxTime
  BY DEF CaptureTyped
<1>2. /\ hid.at \in ThreadStates /\ hid.offers \in Seq(Unmarked)
      /\ hid.seen \in SUBSET {"state", "lizard"} /\ hid.reports \in Nat
  BY <1>1, Zenon DEF Hids
<1>3. /\ tap.at \in ThreadStates /\ tap.offers \in Seq(Unmarked)
      /\ tap.ready \in BOOLEAN /\ tap.events \in Nat
  BY <1>1, Zenon DEF Taps
<1>4. /\ guide.at \in ThreadStates /\ guide.offers \in Seq(Stamped)
      /\ guide.accepted \in SUBSET Trials
  BY <1>1, Zenon DEF Guides
<1>5. capture.buffered \in Seq(Stamped) /\ capture.file \in Files
  BY <1>1, Zenon DEF Captures
<1>6. capture.file.events \in Nat
  BY <1>5, Zenon DEF Files
<1>7. now \in Nat
  BY <1>1, CaptureAssumption
<1> QED
  BY <1>1, <1>2, <1>3, <1>4, <1>5, <1>6, <1>7, LenProperties

LEMMA HidOffersKeeps ==
  ASSUME CaptureInvariant, HidOffers
  PROVE  CaptureInvariant'
<1> DEFINE o == hid.offers
           t == Tail(o)
<1>1. /\ CaptureTyped /\ o \in Seq(Unmarked) /\ o # << >> /\ Offer(Head(o))
      /\ queue \in Seq(Stamped) /\ shared \in Shareds /\ hid \in Hids
      /\ Past(o) /\ Past(queue) /\ hid' = [hid EXCEPT !.offers = t]
      /\ UNCHANGED <<now, tap, guide, commands, capture, lab, made>>
  BY ThreadFields DEF CaptureInvariant, CaptureTyped, HidOffers, Offers, StampsArePast
<1>2. t \in Seq(Unmarked)
  BY <1>1, HeadTailProperties
<1> HIDE DEF o, t
<1>3. o \in Seq(Stamped) /\ Accepts(o) = {} /\ Accepts(t) = {}
  BY <1>1, <1>2, UnmarkedFacts
<1>4. /\ Past(t) /\ queue' \in Seq(Stamped) /\ Past(queue')
      /\ shared' \in Shareds /\ shared'.completed = shared.completed
      /\ (shared.stop => shared'.stop) /\ (shared.invalid => shared'.invalid)
      /\ ~shared'.invalid =>
           /\ Len(queue') + Len(t) = Len(queue) + Len(o)
           /\ Accepts(queue') \cup Accepts(t) = Accepts(queue) \cup Accepts(o)
  BY <1>1, <1>3, OfferKeeps DEF t
<1>5. hid' \in Hids /\ hid'.at = hid.at /\ hid'.offers = t
  BY <1>1, <1>2, Zenon DEF Hids
<1>6. CaptureTyped'
  BY <1>1, <1>4, <1>5 DEF CaptureTyped
<1>7. StampsArePast'
  BY <1>1, <1>4, <1>5 DEF CaptureInvariant, StampsArePast, Past
<1>8. BufferIsSorted'
  BY <1>1 DEF CaptureInvariant, BufferIsSorted, Sorted, From
<1>9. Accounted'
  <2>1. SUFFICES ASSUME ~shared'.invalid PROVE Accounted'
    BY DEF Accounted
  <2>2. /\ ~capture.failed
        /\ made = OnTheWay + Len(capture.buffered) + capture.file.events
        /\ guide.accepted = MarkedOnTheWay \cup Accepts(capture.buffered) \cup capture.file.accepted
    BY <1>4, <2>1 DEF CaptureInvariant, Accounted
  <2>3. Len(queue') \in Nat /\ Len(t) \in Nat
    BY <1>2, <1>4, LenProperties
  <2>4. OnTheWay' = OnTheWay
    <3> DEFINE a == Len(tap.offers)
               b == Len(guide.offers)
               x == Len(o)
               y == Len(t)
               q == Len(queue)
               r == Len(queue')
    <3>1. OnTheWay' = y + a + b + r
      BY <1>1, <1>5 DEF OnTheWay
    <3>2. OnTheWay = x + a + b + q
      BY DEF OnTheWay, o
    <3>3. a \in Nat /\ b \in Nat /\ x \in Nat /\ y \in Nat /\ q \in Nat /\ r \in Nat
      BY <1>1, <2>3, ThreadFields DEF o
    <3>4. r + y = q + x
      BY <1>4, <2>1
    <3> HIDE DEF a, b, x, y, q, r
    <3> QED
      BY ONLY <3>1, <3>2, <3>3, <3>4
  <2>5. MarkedOnTheWay' = MarkedOnTheWay
    <3>1. Accepts(queue') = Accepts(queue)
      BY <1>3, <1>4, <2>1
    <3> QED
      BY <1>1, <3>1 DEF MarkedOnTheWay
  <2> QED
    BY <1>1, <2>2, <2>4, <2>5 DEF Accounted, Accepts
<1>10. hid.at = "running"
  BY <1>1 DEF CaptureInvariant, ThreadsEnd, o
<1>11. ThreadsEnd'
  BY <1>1, <1>4, <1>5, <1>10 DEF CaptureInvariant, ThreadsEnd, Free
<1>12. ClosesLast'
  BY <1>1, <1>5, <1>10 DEF CaptureInvariant, ClosesLast, Producers
<1> QED
  BY <1>6, <1>7, <1>8, <1>9, <1>11, <1>12 DEF CaptureInvariant

LEMMA TapOffersKeeps ==
  ASSUME CaptureInvariant, TapOffers
  PROVE  CaptureInvariant'
<1> DEFINE o == tap.offers
           t == Tail(o)
<1>1. /\ CaptureTyped /\ o \in Seq(Unmarked) /\ o # << >> /\ Offer(Head(o))
      /\ queue \in Seq(Stamped) /\ shared \in Shareds /\ tap \in Taps
      /\ Past(o) /\ Past(queue) /\ tap' = [tap EXCEPT !.offers = t]
      /\ UNCHANGED <<now, hid, guide, commands, capture, lab, made>>
  BY ThreadFields DEF CaptureInvariant, CaptureTyped, TapOffers, Offers, StampsArePast
<1>2. t \in Seq(Unmarked)
  BY <1>1, HeadTailProperties
<1> HIDE DEF o, t
<1>3. o \in Seq(Stamped) /\ Accepts(o) = {} /\ Accepts(t) = {}
  BY <1>1, <1>2, UnmarkedFacts
<1>4. /\ Past(t) /\ queue' \in Seq(Stamped) /\ Past(queue')
      /\ shared' \in Shareds /\ shared'.completed = shared.completed
      /\ (shared.stop => shared'.stop) /\ (shared.invalid => shared'.invalid)
      /\ ~shared'.invalid =>
           /\ Len(queue') + Len(t) = Len(queue) + Len(o)
           /\ Accepts(queue') \cup Accepts(t) = Accepts(queue) \cup Accepts(o)
  BY <1>1, <1>3, OfferKeeps DEF t
<1>5. tap' \in Taps /\ tap'.at = tap.at /\ tap'.offers = t
  BY <1>1, <1>2, Zenon DEF Taps
<1>6. CaptureTyped'
  BY <1>1, <1>4, <1>5 DEF CaptureTyped
<1>7. StampsArePast'
  BY <1>1, <1>4, <1>5 DEF CaptureInvariant, StampsArePast, Past
<1>8. BufferIsSorted'
  BY <1>1 DEF CaptureInvariant, BufferIsSorted, Sorted, From
<1>9. Accounted'
  <2>1. SUFFICES ASSUME ~shared'.invalid PROVE Accounted'
    BY DEF Accounted
  <2>2. /\ ~capture.failed
        /\ made = OnTheWay + Len(capture.buffered) + capture.file.events
        /\ guide.accepted = MarkedOnTheWay \cup Accepts(capture.buffered) \cup capture.file.accepted
    BY <1>4, <2>1 DEF CaptureInvariant, Accounted
  <2>3. Len(queue') \in Nat /\ Len(t) \in Nat
    BY <1>2, <1>4, LenProperties
  <2>4. OnTheWay' = OnTheWay
    <3> DEFINE a == Len(hid.offers)
               b == Len(guide.offers)
               x == Len(o)
               y == Len(t)
               q == Len(queue)
               r == Len(queue')
    <3>1. OnTheWay' = a + y + b + r
      BY <1>1, <1>5 DEF OnTheWay
    <3>2. OnTheWay = a + x + b + q
      BY DEF OnTheWay, o
    <3>3. a \in Nat /\ b \in Nat /\ x \in Nat /\ y \in Nat /\ q \in Nat /\ r \in Nat
      BY <1>1, <2>3, ThreadFields DEF o
    <3>4. r + y = q + x
      BY <1>4, <2>1
    <3> HIDE DEF a, b, x, y, q, r
    <3> QED
      BY ONLY <3>1, <3>2, <3>3, <3>4
  <2>5. MarkedOnTheWay' = MarkedOnTheWay
    <3>1. Accepts(queue') = Accepts(queue)
      BY <1>3, <1>4, <2>1
    <3> QED
      BY <1>1, <3>1 DEF MarkedOnTheWay
  <2> QED
    BY <1>1, <2>2, <2>4, <2>5 DEF Accounted, Accepts
<1>10. tap.at = "running"
  BY <1>1 DEF CaptureInvariant, ThreadsEnd, o
<1>11. ThreadsEnd'
  BY <1>1, <1>4, <1>5, <1>10 DEF CaptureInvariant, ThreadsEnd, Free
<1>12. ClosesLast'
  BY <1>1, <1>5, <1>10 DEF CaptureInvariant, ClosesLast, Producers
<1> QED
  BY <1>6, <1>7, <1>8, <1>9, <1>11, <1>12 DEF CaptureInvariant

LEMMA GuideOffersKeeps ==
  ASSUME CaptureInvariant, GuideOffers
  PROVE  CaptureInvariant'
<1> DEFINE o == guide.offers
           t == Tail(o)
<1>1. /\ CaptureTyped /\ o \in Seq(Stamped) /\ o # << >> /\ Offer(Head(o))
      /\ queue \in Seq(Stamped) /\ shared \in Shareds /\ guide \in Guides
      /\ Past(o) /\ Past(queue) /\ guide' = [guide EXCEPT !.offers = t]
      /\ UNCHANGED <<now, hid, tap, commands, capture, lab, made>>
  BY ThreadFields DEF CaptureInvariant, CaptureTyped, GuideOffers, Offers, StampsArePast
<1> HIDE DEF o, t
<1>2. /\ t \in Seq(Stamped) /\ Past(t) /\ queue' \in Seq(Stamped) /\ Past(queue')
      /\ shared' \in Shareds /\ shared'.completed = shared.completed
      /\ (shared.stop => shared'.stop) /\ (shared.invalid => shared'.invalid)
      /\ ~shared'.invalid =>
           /\ Len(queue') + Len(t) = Len(queue) + Len(o)
           /\ Accepts(queue') \cup Accepts(t) = Accepts(queue) \cup Accepts(o)
  BY <1>1, OfferKeeps DEF t
<1>3. guide' \in Guides /\ guide'.at = guide.at /\ guide'.offers = t
      /\ guide'.accepted = guide.accepted
  BY <1>1, <1>2, Zenon DEF Guides
<1>4. CaptureTyped'
  BY <1>1, <1>2, <1>3 DEF CaptureTyped
<1>5. StampsArePast'
  BY <1>1, <1>2, <1>3 DEF CaptureInvariant, StampsArePast, Past
<1>6. BufferIsSorted'
  BY <1>1 DEF CaptureInvariant, BufferIsSorted, Sorted, From
<1>7. Accounted'
  <2>1. SUFFICES ASSUME ~shared'.invalid PROVE Accounted'
    BY DEF Accounted
  <2>2. /\ ~capture.failed
        /\ made = OnTheWay + Len(capture.buffered) + capture.file.events
        /\ guide.accepted = MarkedOnTheWay \cup Accepts(capture.buffered) \cup capture.file.accepted
    BY <1>2, <2>1 DEF CaptureInvariant, Accounted
  <2>3. Len(queue') \in Nat /\ Len(t) \in Nat
    BY <1>2, LenProperties
  <2>4. OnTheWay' = OnTheWay
    <3> DEFINE a == Len(hid.offers)
               b == Len(tap.offers)
               x == Len(o)
               y == Len(t)
               q == Len(queue)
               r == Len(queue')
    <3>1. OnTheWay' = a + b + y + r
      BY <1>1, <1>3 DEF OnTheWay
    <3>2. OnTheWay = a + b + x + q
      BY DEF OnTheWay, o
    <3>3. a \in Nat /\ b \in Nat /\ x \in Nat /\ y \in Nat /\ q \in Nat /\ r \in Nat
      BY <1>1, <2>3, ThreadFields DEF o
    <3>4. r + y = q + x
      BY <1>2, <2>1
    <3> HIDE DEF a, b, x, y, q, r
    <3> QED
      BY ONLY <3>1, <3>2, <3>3, <3>4
  <2>5. MarkedOnTheWay' = MarkedOnTheWay
    <3>1. Accepts(t) \cup Accepts(queue') = Accepts(o) \cup Accepts(queue)
      BY <1>2, <2>1
    <3> QED
      BY <1>3, <3>1 DEF MarkedOnTheWay, o
  <2> QED
    BY <1>1, <1>3, <2>2, <2>4, <2>5 DEF Accounted, Accepts
<1>8. guide.at = "running" /\ ~Free /\ ~shared.completed
  BY <1>1 DEF CaptureInvariant, ThreadsEnd, o
<1>9. ThreadsEnd'
  BY <1>1, <1>2, <1>3, <1>8 DEF CaptureInvariant, ThreadsEnd, Free
<1>10. ClosesLast'
  BY <1>1, <1>2, <1>3, <1>8 DEF CaptureInvariant, ClosesLast, Free
<1> QED
  BY <1>4, <1>5, <1>6, <1>7, <1>9, <1>10 DEF CaptureInvariant

\* A step that stamps, moves and writes nothing.
SameEvents ==
  /\ UNCHANGED <<now, queue, made>>
  /\ hid' \in Hids /\ hid'.offers = hid.offers
  /\ tap' \in Taps /\ tap'.offers = tap.offers
  /\ guide' \in Guides /\ guide'.offers = guide.offers /\ guide'.accepted = guide.accepted
  /\ capture' \in Captures /\ capture'.buffered = capture.buffered /\ capture'.last = capture.last
  /\ capture'.file = capture.file /\ (capture'.failed <=> capture.failed)
  /\ shared' \in Shareds /\ (shared.invalid => shared'.invalid)

LEMMA SameEventsKeeps ==
  ASSUME CaptureInvariant, SameEvents, commands' \in Seq(Commands), lab' \in Labs
  PROVE  CaptureTyped' /\ StampsArePast' /\ BufferIsSorted' /\ Accounted'
<1>1. CaptureTyped'
  BY DEF CaptureInvariant, CaptureTyped, SameEvents
<1>2. StampsArePast'
  BY DEF CaptureInvariant, StampsArePast, Past, SameEvents
<1>3. BufferIsSorted'
  BY DEF CaptureInvariant, BufferIsSorted, Sorted, From, SameEvents
<1>4. Accounted'
  <2>1. ~shared'.invalid => ~shared.invalid
    BY DEF SameEvents
  <2>2. OnTheWay' = OnTheWay
    BY DEF OnTheWay, SameEvents
  <2>3. MarkedOnTheWay' = MarkedOnTheWay /\ Accepts(capture.buffered)' = Accepts(capture.buffered)
    BY DEF MarkedOnTheWay, Accepts, SameEvents
  <2> QED
    BY <2>1, <2>2, <2>3 DEF CaptureInvariant, Accounted, SameEvents
<1> QED
  BY <1>1, <1>2, <1>3, <1>4

\* What the steps of the threads find.
LEMMA Typed ==
  ASSUME CaptureInvariant
  PROVE  /\ CaptureTyped /\ hid \in Hids /\ tap \in Taps /\ guide \in Guides /\ shared \in Shareds
         /\ capture \in Captures /\ lab \in Labs /\ commands \in Seq(Commands)
         /\ queue \in Seq(Stamped)
  BY DEF CaptureInvariant, CaptureTyped

LEMMA InvalidatedIs ==
  ASSUME shared \in Shareds
  PROVE  /\ Invalidated(shared) \in Shareds /\ Invalidated(shared).invalid
         /\ Invalidated(shared).stop /\ Invalidated(shared).completed = shared.completed
  BY Zenon DEF Shareds, Invalidated

LEMMA HidFailsKeeps ==
  ASSUME CaptureInvariant, HidFails
  PROVE  CaptureInvariant'
<1>1. /\ shared' = Invalidated(shared)
      /\ UNCHANGED <<now, queue, hid, tap, guide, commands, capture, lab, made>>
  BY DEF HidFails
<1>2. shared' \in Shareds /\ shared'.invalid /\ shared'.stop /\ shared'.completed = shared.completed
  BY <1>1, Typed, InvalidatedIs
<1>3. SameEvents
  BY <1>1, <1>2, Typed DEF SameEvents
<1>4. ThreadsEnd'
  BY <1>1, <1>2 DEF CaptureInvariant, ThreadsEnd, Free
<1>5. ClosesLast'
  BY <1>1, <1>2 DEF CaptureInvariant, ClosesLast, Free
<1> QED
  BY <1>1, <1>3, <1>4, <1>5, Typed, SameEventsKeeps DEF CaptureInvariant

LEMMA HidEndsKeeps ==
  ASSUME CaptureInvariant, HidEnds
  PROVE  CaptureInvariant'
<1>1. /\ hid.offers = << >> /\ hid' = [hid EXCEPT !.at = "done"]
      /\ UNCHANGED <<shared, now, queue, tap, guide, commands, capture, lab, made>>
  BY DEF HidEnds
<1>2. "done" \in ThreadStates
  BY DEF ThreadStates
<1>3. hid' \in Hids /\ hid'.at = "done" /\ hid'.offers = hid.offers
  BY <1>1, <1>2, Typed, Zenon DEF Hids
<1>4. SameEvents
  BY <1>1, <1>3, Typed DEF SameEvents
<1>5. ThreadsEnd'
  BY <1>1, <1>3 DEF CaptureInvariant, ThreadsEnd, Free
<1>6. ClosesLast'
  BY <1>1, <1>3 DEF CaptureInvariant, ClosesLast, Free
<1> QED
  BY <1>1, <1>4, <1>5, <1>6, Typed, SameEventsKeeps DEF CaptureInvariant

LEMMA TapReadyKeeps ==
  ASSUME CaptureInvariant, TapReady
  PROVE  CaptureInvariant'
<1>1. /\ tap' = [tap EXCEPT !.ready = TRUE]
      /\ UNCHANGED <<shared, now, queue, hid, guide, commands, capture, lab, made>>
  BY DEF TapReady
<1>2. tap' \in Taps /\ tap'.at = tap.at /\ tap'.offers = tap.offers
  BY <1>1, Typed, Zenon DEF Taps
<1>3. SameEvents
  BY <1>1, <1>2, Typed DEF SameEvents
<1>4. ThreadsEnd'
  BY <1>1, <1>2 DEF CaptureInvariant, ThreadsEnd, Free
<1>5. ClosesLast'
  BY <1>1, <1>2 DEF CaptureInvariant, ClosesLast, Free
<1> QED
  BY <1>1, <1>3, <1>4, <1>5, Typed, SameEventsKeeps DEF CaptureInvariant

LEMMA TapEndsKeeps ==
  ASSUME CaptureInvariant, TapEnds
  PROVE  CaptureInvariant'
<1>1. /\ tap.offers = << >> /\ tap' = [tap EXCEPT !.at = "done"]
      /\ (shared.stop /\ shared' = shared) \/ shared' = Invalidated(shared)
      /\ UNCHANGED <<now, queue, hid, guide, commands, capture, lab, made>>
  BY DEF TapEnds
<1>2. "done" \in ThreadStates
  BY DEF ThreadStates
<1>3. tap' \in Taps /\ tap'.at = "done" /\ tap'.offers = tap.offers
  BY <1>1, <1>2, Typed, Zenon DEF Taps
<1>4. /\ shared' \in Shareds /\ (shared.invalid => shared'.invalid) /\ shared'.stop
      /\ shared'.completed = shared.completed
  BY <1>1, Typed, InvalidatedIs
<1>5. SameEvents
  BY <1>1, <1>3, <1>4, Typed DEF SameEvents
<1>6. ThreadsEnd'
  BY <1>1, <1>3, <1>4 DEF CaptureInvariant, ThreadsEnd, Free
<1>7. ClosesLast'
  BY <1>1, <1>3, <1>4 DEF CaptureInvariant, ClosesLast, Free
<1> QED
  BY <1>1, <1>5, <1>6, <1>7, Typed, SameEventsKeeps DEF CaptureInvariant

LEMMA GuideEndsKeeps ==
  ASSUME CaptureInvariant, GuideEnds
  PROVE  CaptureInvariant'
<1>1. /\ guide.offers = << >> /\ guide' = [guide EXCEPT !.at = "done"]
      /\ UNCHANGED <<shared, now, queue, hid, tap, commands, capture, lab, made>>
  BY DEF GuideEnds
<1>2. "done" \in ThreadStates
  BY DEF ThreadStates
<1>3. guide' \in Guides /\ guide'.at = "done" /\ guide'.offers = guide.offers
      /\ guide'.accepted = guide.accepted
  BY <1>1, <1>2, Typed, Zenon DEF Guides
<1>4. SameEvents
  BY <1>1, <1>3, Typed DEF SameEvents
<1>5. ThreadsEnd'
  BY <1>1, <1>3 DEF CaptureInvariant, ThreadsEnd, Free
<1>6. ClosesLast'
  BY <1>1, <1>3 DEF CaptureInvariant, ClosesLast, Free
<1> QED
  BY <1>1, <1>4, <1>5, <1>6, Typed, SameEventsKeeps DEF CaptureInvariant

LEMMA FinishOrCancelKeeps ==
  ASSUME CaptureInvariant, FinishOrCancel
  PROVE  CaptureInvariant'
<1>1. /\ guide.at = "running" /\ guide.offers = << >> /\ ~shared.stop
      /\ commands # << >> /\ commands' = Tail(commands)
      /\ UNCHANGED <<now, queue, hid, tap, capture, lab, guide, made>>
  BY DEF FinishOrCancel, Polls, TakeCommand
<1>2. \/ guide.accepted = Trials /\ shared' = [shared EXCEPT !.completed = TRUE, !.stop = TRUE]
      \/ shared' = Invalidated(shared)
  BY DEF FinishOrCancel
<1>3. commands' \in Seq(Commands)
  BY <1>1, Typed, HeadTailProperties
<1>4. /\ shared' \in Shareds /\ (shared.invalid => shared'.invalid) /\ shared'.stop
      /\ shared'.completed => shared.completed \/ guide.accepted = Trials
  <2>1. CASE guide.accepted = Trials /\ shared' = [shared EXCEPT !.completed = TRUE, !.stop = TRUE]
    <3>1. shared' \in Shareds /\ shared'.invalid = shared.invalid /\ shared'.stop
      BY <2>1, Typed, Zenon DEF Shareds
    <3> QED
      BY <2>1, <3>1
  <2>2. CASE shared' = Invalidated(shared)
    BY <2>2, Typed, InvalidatedIs
  <2> QED
    BY <1>2, <2>1, <2>2
<1>5. SameEvents
  BY <1>1, <1>4, Typed DEF SameEvents
<1>6. ThreadsEnd'
  BY <1>1, <1>4 DEF CaptureInvariant, ThreadsEnd, Free
<1>7. ClosesLast'
  BY <1>1, <1>4 DEF CaptureInvariant, ClosesLast, Free
<1> QED
  BY <1>1, <1>3, <1>5, <1>6, <1>7, Typed, SameEventsKeeps DEF CaptureInvariant

LEMMA OpeningKeeps ==
  ASSUME CaptureInvariant, OpenController \/ OpenFails
  PROVE  CaptureInvariant'
<1>1. /\ capture.at = "opening"
      /\ UNCHANGED <<shared, now, queue, guide, commands, lab, made>>
      /\ \/ /\ capture' = [capture EXCEPT !.at = "preflight"]
            /\ hid' = [hid EXCEPT !.at = "running"] /\ tap' = [tap EXCEPT !.at = "running"]
         \/ /\ capture' = [capture EXCEPT !.at = "closed", !.trailer = "invalid"]
            /\ UNCHANGED <<hid, tap>>
  BY DEF OpenController, OpenFails
<1>2. /\ "running" \in ThreadStates /\ "preflight" \in CaptureStages /\ "closed" \in CaptureStages
      /\ "invalid" \in {"none", "invalid", "valid"}
  BY DEF ThreadStates, CaptureStages
<1>3. /\ hid' \in Hids /\ hid'.offers = hid.offers /\ (hid'.at = hid.at \/ hid'.at = "running")
      /\ tap' \in Taps /\ tap'.offers = tap.offers /\ (tap'.at = tap.at \/ tap'.at = "running")
  <2>1. CASE hid' = [hid EXCEPT !.at = "running"] /\ tap' = [tap EXCEPT !.at = "running"]
    <3>1. hid' \in Hids /\ hid'.offers = hid.offers /\ hid'.at = "running"
      BY <1>2, <2>1, Typed, Zenon DEF Hids
    <3>2. tap' \in Taps /\ tap'.offers = tap.offers /\ tap'.at = "running"
      BY <1>2, <2>1, Typed, Zenon DEF Taps
    <3> QED
      BY <3>1, <3>2
  <2>2. CASE UNCHANGED <<hid, tap>>
    BY <2>2, Typed
  <2> QED
    BY <1>1, <2>1, <2>2
<1>4. /\ capture' \in Captures /\ capture'.done = capture.done
      /\ capture'.buffered = capture.buffered /\ capture'.last = capture.last
      /\ capture'.file = capture.file /\ capture'.failed = capture.failed
      /\ \/ capture'.at = "preflight" /\ capture'.trailer = capture.trailer
         \/ capture'.at = "closed" /\ capture'.trailer = "invalid"
  <2>1. CASE capture' = [capture EXCEPT !.at = "preflight"]
    BY <1>2, <2>1, Typed, Zenon DEF Captures
  <2>2. CASE capture' = [capture EXCEPT !.at = "closed", !.trailer = "invalid"]
    BY <1>2, <2>2, Typed, Zenon DEF Captures
  <2> QED
    BY <1>1, <2>1, <2>2
<1>5. SameEvents
  BY <1>1, <1>3, <1>4, Typed DEF SameEvents
<1>6. ThreadsEnd'
  BY <1>1, <1>3, <1>4 DEF CaptureInvariant, ThreadsEnd, Free
<1>7. ClosesLast'
  BY <1>1, <1>3, <1>4 DEF CaptureInvariant, ClosesLast, Free
<1> QED
  BY <1>1, <1>5, <1>6, <1>7, Typed, SameEventsKeeps DEF CaptureInvariant

LEMMA PreflightVerdictKeeps ==
  ASSUME CaptureInvariant, PreflightVerdict
  PROVE  CaptureInvariant'
<1>1. /\ capture.at = "verdict" /\ capture' = [capture EXCEPT !.at = "merging"]
      /\ shared' = shared \/ shared' = Invalidated(shared)
      /\ UNCHANGED <<now, queue, hid, tap, commands, made>>
  BY DEF PreflightVerdict
<1>2. PICK at \in {"done", "running"} : guide' = [guide EXCEPT !.at = at] /\ (Free => at = "done")
  BY DEF PreflightVerdict
<1>3. /\ lab' = lab \/ \E phase \in Phases : lab' = [lab EXCEPT !.phase = phase]
  BY DEF PreflightVerdict, Phases
<1>4. at \in ThreadStates /\ "merging" \in CaptureStages
  BY DEF ThreadStates, CaptureStages
<1>5. /\ shared' \in Shareds /\ (shared.invalid => shared'.invalid)
      /\ (shared.stop => shared'.stop) /\ shared'.completed = shared.completed
  BY <1>1, Typed, InvalidatedIs
<1>6. /\ guide' \in Guides /\ guide'.at = at /\ guide'.offers = guide.offers
      /\ guide'.accepted = guide.accepted
  BY <1>2, <1>4, Typed, Zenon DEF Guides
<1>7. /\ capture' \in Captures /\ capture'.at = "merging" /\ capture'.done = capture.done
      /\ capture'.buffered = capture.buffered /\ capture'.last = capture.last
      /\ capture'.file = capture.file /\ capture'.failed = capture.failed
      /\ capture'.trailer = capture.trailer
  BY <1>1, <1>4, Typed, Zenon DEF Captures
<1>8. lab' \in Labs /\ lab'.screen = lab.screen
  <2>1. ASSUME NEW phase \in Phases, lab' = [lab EXCEPT !.phase = phase]
        PROVE  lab' \in Labs /\ lab'.screen = lab.screen
    BY <2>1, Typed, Zenon DEF Labs
  <2> QED
    BY <1>3, <2>1, Typed
<1>9. SameEvents
  BY <1>1, <1>5, <1>6, <1>7, Typed DEF SameEvents
<1>10. guide.offers = << >>
  BY <1>1 DEF CaptureInvariant, ThreadsEnd
<1>11. ThreadsEnd'
  BY <1>1, <1>2, <1>5, <1>6, <1>7, <1>8, <1>10 DEF CaptureInvariant, ThreadsEnd, Free
<1>12. ClosesLast'
  BY <1>1, <1>5, <1>6, <1>7, <1>8 DEF CaptureInvariant, ClosesLast, Free
<1> QED
  BY <1>1, <1>8, <1>9, <1>11, <1>12, Typed, SameEventsKeeps DEF CaptureInvariant

\* A pointer event or a report is stamped with the clock.
LEMMA PlainIs ==
  ASSUME CaptureTyped
  PROVE  /\ <<Plain>> \in Seq(Unmarked) /\ Len(<<Plain>>) = 1 /\ Past(<<Plain>>)
         /\ Accepts(<<Plain>>) = {}
<1>1. now \in Nat /\ 0 \in {0}
  BY ThreadFields
<1>2. Plain \in Unmarked /\ Plain.at = now /\ Plain.accepts = 0
  BY <1>1, Zenon DEF Plain, Unmarked
<1> DEFINE p == Plain
           s == <<p>>
<1>3. p \in Unmarked /\ p.at = now
  BY <1>2
<1> HIDE DEF p
<1>4. s \in Seq(Unmarked) /\ Len(s) = 1 /\ s[1] = p /\ DOMAIN s = {1}
  BY <1>3
<1>5. Past(s)
  BY <1>1, <1>3, <1>4 DEF Past
<1> QED
  BY <1>4, <1>5, UnmarkedFacts DEF p

LEMMA OneMoreStamped ==
  ASSUME CaptureTyped, made' = made + 1, UNCHANGED <<queue, capture>>,
         NEW h, h = Len(hid'.offers), NEW t, t = Len(tap'.offers), NEW g, g = Len(guide'.offers),
         \/ h = Len(hid.offers) + 1 /\ t = Len(tap.offers) /\ g = Len(guide.offers)
         \/ h = Len(hid.offers) /\ t = Len(tap.offers) + 1 /\ g = Len(guide.offers)
         \/ h = Len(hid.offers) /\ t = Len(tap.offers) /\ g = Len(guide.offers) + 1,
         made = OnTheWay + Len(capture.buffered) + capture.file.events
  PROVE  made' = OnTheWay' + Len(capture.buffered) + capture.file.events
<1> DEFINE a == Len(hid.offers)
           b == Len(tap.offers)
           c == Len(guide.offers)
           q == Len(queue)
           n == Len(capture.buffered)
           f == capture.file.events
           x == OnTheWay
           y == OnTheWay'
           r == made'
<1>1. /\ a \in Nat /\ b \in Nat /\ c \in Nat /\ q \in Nat /\ n \in Nat /\ f \in Nat
      /\ \/ h = a + 1 /\ t = b /\ g = c
         \/ h = a /\ t = b + 1 /\ g = c
         \/ h = a /\ t = b /\ g = c + 1
  BY ThreadFields
<1>2. y = h + t + g + q
  BY DEF OnTheWay
<1>3. x = a + b + c + q
  BY DEF OnTheWay
<1>4. r = x + n + f + 1
  OBVIOUS
<1> HIDE DEF a, b, c, q, n, f, x, y, r
<1>5. y = x + 1 /\ x \in Nat
  BY ONLY <1>1, <1>2, <1>3
<1>6. r = y + n + f
  BY ONLY <1>1, <1>4, <1>5
<1> QED
  BY <1>6 DEF n, f, y, r

LEMMA HidReportKeeps ==
  ASSUME CaptureInvariant, HidReport
  PROVE  CaptureInvariant'
<1> DEFINE s == <<Plain>>
<1>1. /\ hid.at = "running" /\ hid.offers = << >> /\ ~shared.stop /\ made' = made + 1
      /\ UNCHANGED <<shared, now, queue, tap, guide, commands, capture, lab>>
  BY DEF HidReport, Polls
<1>2. PICK kind \in {"state", "lizard"} :
        hid' = [hid EXCEPT !.offers = s, !.reports = hid.reports + 1,
                           !.seen = hid.seen \cup {kind}]
  BY DEF HidReport
<1>3. s \in Seq(Unmarked) /\ Len(s) = 1 /\ Past(s) /\ Accepts(s) = {}
  BY PlainIs, Typed
<1> HIDE DEF s
<1>4. hid.reports + 1 \in Nat /\ hid.seen \cup {kind} \in SUBSET {"state", "lizard"}
  BY ThreadFields, Typed
<1>5. hid' \in Hids /\ hid'.at = hid.at /\ hid'.offers = s
  BY <1>2, <1>3, <1>4, Typed, Zenon DEF Hids
<1>6. CaptureTyped'
  BY <1>1, <1>5, ThreadFields, Typed DEF CaptureTyped
<1>7. StampsArePast'
  BY <1>1, <1>3, <1>5 DEF CaptureInvariant, StampsArePast, Past
<1>8. BufferIsSorted'
  BY <1>1 DEF CaptureInvariant, BufferIsSorted, Sorted, From
<1>9. Accounted'
  <2>1. /\ Len(hid'.offers) = Len(hid.offers) + 1
        /\ Len(tap'.offers) = Len(tap.offers) /\ Len(guide'.offers) = Len(guide.offers)
    <3>1. Len(hid.offers) = 0 /\ Len(hid'.offers) = 1
      BY <1>1, <1>3, <1>5
    <3> QED
      BY <1>1, <3>1
  <2>2. MarkedOnTheWay' = MarkedOnTheWay /\ Accepts(capture.buffered)' = Accepts(capture.buffered)
    BY <1>1 DEF MarkedOnTheWay, Accepts
  <2>3. made = OnTheWay + Len(capture.buffered) + capture.file.events
          => made' = OnTheWay' + Len(capture.buffered) + capture.file.events
    BY <1>1, <2>1, OneMoreStamped, Typed
  <2> QED
    BY <1>1, <2>2, <2>3 DEF CaptureInvariant, Accounted
<1>10. ThreadsEnd'
  BY <1>1, <1>5 DEF CaptureInvariant, ThreadsEnd, Free
<1>11. ClosesLast'
  BY <1>1, <1>5 DEF CaptureInvariant, ClosesLast, Free, Producers
<1> QED
  BY <1>6, <1>7, <1>8, <1>9, <1>10, <1>11 DEF CaptureInvariant

LEMMA TapEventKeeps ==
  ASSUME CaptureInvariant, TapEvent
  PROVE  CaptureInvariant'
<1> DEFINE s == <<Plain>>
<1>1. /\ tap.at = "running" /\ tap.offers = << >> /\ ~shared.stop /\ made' = made + 1
      /\ tap' = [tap EXCEPT !.offers = s, !.events = tap.events + 1]
      /\ UNCHANGED <<shared, now, queue, hid, guide, commands, capture, lab>>
  BY DEF TapEvent, Polls
<1>3. s \in Seq(Unmarked) /\ Len(s) = 1 /\ Past(s) /\ Accepts(s) = {}
  BY PlainIs, Typed
<1> HIDE DEF s
<1>4. tap.events + 1 \in Nat
  BY ThreadFields, Typed
<1>5. tap' \in Taps /\ tap'.at = tap.at /\ tap'.offers = s
  BY <1>1, <1>3, <1>4, Typed, Zenon DEF Taps
<1>6. CaptureTyped'
  BY <1>1, <1>5, ThreadFields, Typed DEF CaptureTyped
<1>7. StampsArePast'
  BY <1>1, <1>3, <1>5 DEF CaptureInvariant, StampsArePast, Past
<1>8. BufferIsSorted'
  BY <1>1 DEF CaptureInvariant, BufferIsSorted, Sorted, From
<1>9. Accounted'
  <2>1. /\ Len(tap'.offers) = Len(tap.offers) + 1
        /\ Len(hid'.offers) = Len(hid.offers) /\ Len(guide'.offers) = Len(guide.offers)
    <3>1. Len(tap.offers) = 0 /\ Len(tap'.offers) = 1
      BY <1>1, <1>3, <1>5
    <3> QED
      BY <1>1, <3>1
  <2>2. MarkedOnTheWay' = MarkedOnTheWay /\ Accepts(capture.buffered)' = Accepts(capture.buffered)
    BY <1>1 DEF MarkedOnTheWay, Accepts
  <2>3. made = OnTheWay + Len(capture.buffered) + capture.file.events
          => made' = OnTheWay' + Len(capture.buffered) + capture.file.events
    BY <1>1, <2>1, OneMoreStamped, Typed
  <2> QED
    BY <1>1, <2>2, <2>3 DEF CaptureInvariant, Accounted
<1>10. ThreadsEnd'
  BY <1>1, <1>5 DEF CaptureInvariant, ThreadsEnd, Free
<1>11. ClosesLast'
  BY <1>1, <1>5 DEF CaptureInvariant, ClosesLast, Free, Producers
<1> QED
  BY <1>6, <1>7, <1>8, <1>9, <1>10, <1>11 DEF CaptureInvariant

LEMMA MarkerIs ==
  ASSUME CaptureTyped, NEW c \in Commands
  PROVE  /\ <<Marker(c)>> \in Seq(Stamped) /\ Len(<<Marker(c)>>) = 1 /\ Past(<<Marker(c)>>)
         /\ Accepts(<<Marker(c)>>) = IF c.kind = "accepted" THEN {c.trial} ELSE {}
<1> DEFINE k == IF c.kind = "accepted" THEN c.trial ELSE 0
           p == Marker(c)
           s == <<p>>
<1>1. now \in Nat
  BY ThreadFields
<1>2. c.trial \in Trials
  BY Zenon DEF Commands
<1>3. c.trial # 0
  <2>1. 0 \notin 1 .. Cardinality(Trials)
    BY CaptureAssumption, FS_CardinalityType
  <2> QED
    BY <1>2, <2>1, CaptureAssumption
<1>4. k \in Trials \cup {0}
  BY <1>2
<1>5. p = [at |-> now, accepts |-> k]
  BY DEF Marker
<1> HIDE DEF k, p
<1>6. p \in Stamped /\ p.at = now /\ p.accepts = k
  BY <1>1, <1>4, <1>5, Zenon DEF Stamped
<1>7. s \in Seq(Stamped) /\ Len(s) = 1 /\ s[1] = p /\ DOMAIN s = {1}
  BY <1>6
<1> HIDE DEF s
<1>8. Past(s)
  BY <1>1, <1>6, <1>7 DEF Past
<1>9. Accepts(s) = {k} \ {0}
  BY <1>6, <1>7 DEF Accepts
<1>10. Accepts(s) = IF c.kind = "accepted" THEN {c.trial} ELSE {}
  BY <1>3, <1>9 DEF k
<1> QED
  BY <1>7, <1>8, <1>10 DEF s, p

LEMMA MarkTrialKeeps ==
  ASSUME CaptureInvariant, MarkTrial
  PROVE  CaptureInvariant'
<1> DEFINE c == Head(commands)
           s == <<Marker(c)>>
           a == IF c.kind = "accepted" THEN guide.accepted \cup {c.trial} ELSE guide.accepted
           x == IF c.kind = "accepted" THEN {c.trial} ELSE {}
<1>1. /\ guide.at = "running" /\ guide.offers = << >> /\ ~shared.stop /\ made' = made + 1
      /\ commands # << >> /\ commands' = Tail(commands)
      /\ guide' = [guide EXCEPT !.offers = s, !.accepted = a]
      /\ UNCHANGED <<shared, now, queue, hid, tap, capture, lab>>
  BY DEF MarkTrial, Polls, TakeCommand
<1>2. c \in Commands /\ commands' \in Seq(Commands)
  BY <1>1, Typed, HeadTailProperties
<1> HIDE DEF c
<1>3. s \in Seq(Stamped) /\ Len(s) = 1 /\ Past(s) /\ Accepts(s) = x
  BY <1>2, MarkerIs, Typed
<1>4. c.trial \in Trials
  BY <1>2, Zenon DEF Commands
<1>5. a \in SUBSET Trials /\ a = guide.accepted \cup x
  BY <1>4, ThreadFields, Typed
<1> HIDE DEF s, a, x
<1>6. guide' \in Guides /\ guide'.at = guide.at /\ guide'.offers = s /\ guide'.accepted = a
  BY <1>1, <1>3, <1>5, Typed, Zenon DEF Guides
<1>7. CaptureTyped'
  BY <1>1, <1>2, <1>6, ThreadFields, Typed DEF CaptureTyped
<1>8. StampsArePast'
  BY <1>1, <1>3, <1>6 DEF CaptureInvariant, StampsArePast, Past
<1>9. BufferIsSorted'
  BY <1>1 DEF CaptureInvariant, BufferIsSorted, Sorted, From
<1>10. Accounted'
  <2>1. /\ Len(guide'.offers) = Len(guide.offers) + 1
        /\ Len(hid'.offers) = Len(hid.offers) /\ Len(tap'.offers) = Len(tap.offers)
    <3>1. Len(guide.offers) = 0 /\ Len(guide'.offers) = 1
      BY <1>1, <1>3, <1>6
    <3> QED
      BY <1>1, <3>1
  <2>2. MarkedOnTheWay' = MarkedOnTheWay \cup x /\ Accepts(capture.buffered)' = Accepts(capture.buffered)
    <3>1. Accepts(guide.offers) = {} /\ Accepts(guide'.offers) = x
      BY <1>1, <1>3, <1>6 DEF Accepts
    <3>2. MarkedOnTheWay' = x \cup Accepts(queue)
      BY <1>1, <3>1 DEF MarkedOnTheWay
    <3> QED
      BY <1>1, <3>1, <3>2 DEF MarkedOnTheWay
  <2>3. made = OnTheWay + Len(capture.buffered) + capture.file.events
          => made' = OnTheWay' + Len(capture.buffered) + capture.file.events
    BY <1>1, <2>1, OneMoreStamped, Typed
  <2>4. ASSUME ~shared.invalid
        PROVE  /\ ~capture.failed
               /\ made' = OnTheWay' + Len(capture.buffered) + capture.file.events
               /\ a = MarkedOnTheWay' \cup Accepts(capture.buffered) \cup capture.file.accepted
    <3>1. ~capture.failed /\ made = OnTheWay + Len(capture.buffered) + capture.file.events
      BY <2>4 DEF CaptureInvariant, Accounted
    <3>2. guide.accepted = MarkedOnTheWay \cup Accepts(capture.buffered) \cup capture.file.accepted
      BY <2>4 DEF CaptureInvariant, Accounted
    <3>3. made' = OnTheWay' + Len(capture.buffered) + capture.file.events
      BY <2>3, <3>1
    <3> QED
      BY <1>5, <2>2, <3>1, <3>2, <3>3
  <2> QED
    BY <1>1, <1>6, <2>2, <2>4 DEF Accounted
<1>11. ThreadsEnd'
  BY <1>1, <1>6 DEF CaptureInvariant, ThreadsEnd, Free
<1>12. ClosesLast'
  BY <1>1, <1>6 DEF CaptureInvariant, ClosesLast, ThreadsEnd, Free
<1> QED
  BY <1>7, <1>8, <1>9, <1>10, <1>11, <1>12 DEF CaptureInvariant

LEMMA ClockAdvancesKeeps ==
  ASSUME CaptureInvariant, ClockAdvances
  PROVE  CaptureInvariant'
<1>1. /\ now < MaxTime /\ now' = now + 1
      /\ UNCHANGED <<shared, queue, hid, tap, guide, commands, capture, lab, made>>
  BY DEF ClockAdvances
<1>2. now \in Nat /\ now' \in 0 .. MaxTime
  BY <1>1, ThreadFields, Typed, CaptureAssumption
<1>3. CaptureTyped'
  BY <1>1, <1>2, Typed DEF CaptureTyped
<1>4. ASSUME NEW s \in Seq(Stamped), Past(s) PROVE \A i \in DOMAIN s : s[i].at <= now'
  <2>1. ASSUME NEW i \in DOMAIN s PROVE s[i].at <= now'
    <3>1. s[i].at \in Nat
      BY StampedFacts
    <3>2. s[i].at <= now
      BY <1>4 DEF Past
    <3> QED
      BY <1>1, <1>2, <3>1, <3>2
  <2> QED
    BY <2>1
<1>5. StampsArePast'
  <2>1. /\ hid.offers \in Seq(Stamped) /\ tap.offers \in Seq(Stamped) /\ guide.offers \in Seq(Stamped)
        /\ queue \in Seq(Stamped) /\ capture.buffered \in Seq(Stamped)
    BY ThreadFields, Typed, UnmarkedFacts DEF Captures
  <2> QED
    BY <1>1, <1>4, <2>1 DEF CaptureInvariant, StampsArePast, Past
<1>6. BufferIsSorted'
  BY <1>1 DEF CaptureInvariant, BufferIsSorted, Sorted, From
<1>7. Accounted'
  <2>1. OnTheWay' = OnTheWay
    BY <1>1 DEF OnTheWay
  <2>2. MarkedOnTheWay' = MarkedOnTheWay /\ Accepts(capture.buffered)' = Accepts(capture.buffered)
    BY <1>1 DEF MarkedOnTheWay, Accepts
  <2> QED
    BY <1>1, <2>1, <2>2 DEF CaptureInvariant, Accounted
<1>8. ThreadsEnd'
  BY <1>1 DEF CaptureInvariant, ThreadsEnd, Free
<1>9. ClosesLast'
  BY <1>1 DEF CaptureInvariant, ClosesLast, Free
<1> QED
  BY <1>3, <1>5, <1>6, <1>7, <1>8, <1>9 DEF CaptureInvariant

-----------------------------------------------------------------------------
(* LizardCapture: the capture's thread.                                    *)

\* A merge leaves nothing behind: what was queued is in the buffer or in the
\* file, or the capture is invalid.
LEMMA DrainedKeeps ==
  ASSUME CaptureInvariant, NEW time \in Int, NEW m \in Merging(time), queue' = << >>,
         UNCHANGED <<now, hid, tap, guide, commands, lab, made>>,
         capture' \in Captures, capture'.buffered = m.capture.buffered,
         capture'.last = m.capture.last, capture'.file = m.capture.file,
         capture'.failed <=> m.capture.failed,
         shared' \in Shareds, shared.invalid \/ Bad(m) => shared'.invalid
  PROVE  /\ CaptureTyped' /\ StampsArePast' /\ BufferIsSorted' /\ Accounted'
         /\ now <= time => capture'.buffered = << >>
<1>1. /\ m.capture \in Captures
      /\ Sorted(m.capture.buffered) /\ From(m.capture.last, m.capture.buffered)
      /\ Past(m.capture.buffered) /\ m.capture.file.ordered
      /\ ~m.capture.failed => m.capture.file.last = m.capture.last
      /\ ~capture.failed /\ ~Bad(m) =>
           /\ ~m.capture.failed
           /\ Len(m.capture.buffered) + m.capture.file.events
                = Len(capture.buffered) + Len(queue) + capture.file.events
           /\ Accepts(m.capture.buffered) \cup m.capture.file.accepted
                = Accepts(capture.buffered) \cup Accepts(queue) \cup capture.file.accepted
      /\ now <= time => m.capture.buffered = << >>
  BY MergedKeeps DEF CaptureInvariant
<1>2. CaptureTyped'
  BY Typed, EmptySeq DEF CaptureTyped
<1>3. StampsArePast'
  BY <1>1 DEF CaptureInvariant, StampsArePast, Past
<1>4. BufferIsSorted'
  BY <1>1 DEF BufferIsSorted, Sorted, From
<1>5. Accounted'
  <2>1. SUFFICES ASSUME ~shared'.invalid PROVE Accounted'
    BY DEF Accounted
  <2>2. ~shared.invalid /\ ~Bad(m)
    BY <2>1
  <2>3. /\ ~capture.failed
        /\ made = OnTheWay + Len(capture.buffered) + capture.file.events
        /\ guide.accepted = MarkedOnTheWay \cup Accepts(capture.buffered) \cup capture.file.accepted
    BY <2>2 DEF CaptureInvariant, Accounted
  <2>4. made = OnTheWay' + Len(capture'.buffered) + capture'.file.events
    <3> DEFINE a == Len(hid.offers)
               b == Len(tap.offers)
               c == Len(guide.offers)
               q == Len(queue)
               n == Len(capture.buffered)
               f == capture.file.events
               o == Len(capture'.buffered)
               g == capture'.file.events
               x == OnTheWay
               y == OnTheWay'
    <3>1. a \in Nat /\ b \in Nat /\ c \in Nat /\ q \in Nat /\ n \in Nat /\ f \in Nat
      BY ThreadFields, Typed
    <3>2. o \in Nat /\ g \in Nat
      <4>1. capture'.buffered \in Seq(Stamped) /\ capture'.file \in Files
        BY Zenon DEF Captures
      <4>2. capture'.file.events \in Nat
        BY <4>1, Zenon DEF Files
      <4> QED
        BY <4>1, <4>2, LenProperties
    <3>3. x = a + b + c + q
      BY DEF OnTheWay
    <3>4. y = a + b + c + 0
      <4>1. Len(queue') = 0
        BY EmptySeq
      <4> QED
        BY <4>1 DEF OnTheWay
    <3>5. made = x + n + f
      BY <2>3
    <3>6. o + g = n + q + f
      BY <1>1, <2>2, <2>3
    <3> HIDE DEF a, b, c, q, n, f, o, g, x, y
    <3>7. made = y + o + g
      BY ONLY <3>1, <3>2, <3>3, <3>4, <3>5, <3>6
    <3> QED
      BY <3>7 DEF o, g, y
  <2>5. guide.accepted = MarkedOnTheWay' \cup Accepts(capture'.buffered) \cup capture'.file.accepted
    <3>1. MarkedOnTheWay' = Accepts(guide.offers)
      <4>1. Accepts(queue') = {}
        BY DEF Accepts
      <4> QED
        BY <4>1 DEF MarkedOnTheWay
    <3>2. Accepts(capture'.buffered) \cup capture'.file.accepted
            = Accepts(capture.buffered) \cup Accepts(queue) \cup capture.file.accepted
      BY <1>1, <2>2, <2>3
    <3> QED
      BY <2>3, <3>1, <3>2 DEF MarkedOnTheWay
  <2>6. ~capture'.failed
    BY <1>1, <2>2, <2>3
  <2> QED
    BY <2>4, <2>5, <2>6 DEF Accounted
<1> QED
  BY <1>1, <1>2, <1>3, <1>4, <1>5

LEMMA Clock ==
  ASSUME CaptureTyped
  PROVE  cutoff \in Int /\ MaxTime \in Int /\ now <= MaxTime
  BY CaptureAssumption DEF CaptureTyped, cutoff

\* DrainUpTo, of a capture that goes on.
LEMMA DrainUpToKeeps ==
  ASSUME CaptureInvariant, NEW time \in Int, NEW next, next.at \in CaptureStages,
         next.done \in SUBSET Producers, DrainUpTo(time, next),
         UNCHANGED <<now, hid, tap, guide, commands, lab, made>>
  PROVE  /\ CaptureTyped' /\ StampsArePast' /\ BufferIsSorted' /\ Accounted'
         /\ capture'.at = next.at /\ capture'.done = next.done /\ capture'.trailer = capture.trailer
         /\ (shared.stop => shared'.stop) /\ shared'.completed = shared.completed
         /\ queue' = << >>
<1>1. PICK m \in Merging(time) :
        /\ queue' = << >>
        /\ capture' = [m.capture EXCEPT !.at = next.at, !.done = next.done]
        /\ shared' = IF Bad(m) THEN Invalidated(shared) ELSE shared
  BY Zenon DEF DrainUpTo
<1>2. m.capture \in Captures /\ m.capture.trailer = capture.trailer
  BY MergedKeeps DEF CaptureInvariant
<1>3. /\ capture' \in Captures /\ capture'.buffered = m.capture.buffered
      /\ capture'.last = m.capture.last /\ capture'.file = m.capture.file
      /\ capture'.failed = m.capture.failed /\ capture'.at = next.at
      /\ capture'.done = next.done /\ capture'.trailer = m.capture.trailer
  BY <1>1, <1>2, Zenon DEF Captures
<1>4. /\ shared' \in Shareds /\ (shared.invalid \/ Bad(m) => shared'.invalid)
      /\ (shared.stop => shared'.stop) /\ shared'.completed = shared.completed
  <2>1. CASE Bad(m)
    BY <1>1, <2>1, Typed, InvalidatedIs
  <2>2. CASE ~Bad(m)
    BY <1>1, <2>2, Typed
  <2> QED
    BY <2>1, <2>2
<1>5. CaptureTyped' /\ StampsArePast' /\ BufferIsSorted' /\ Accounted'
  BY <1>1, <1>3, <1>4, DrainedKeeps
<1> QED
  BY <1>1, <1>2, <1>3, <1>4, <1>5

LEMMA PreflightKeeps ==
  ASSUME CaptureInvariant, PreflightWaits \/ PreflightEnds
  PROVE  CaptureInvariant'
<1>1. PICK at \in {"preflight", "verdict"} :
        DrainUpTo(cutoff, [at |-> at, done |-> {}])
  BY DEF PreflightWaits, PreflightEnds
<1>2. /\ capture.at = "preflight"
      /\ UNCHANGED <<now, hid, tap, guide, commands, lab, made>>
  BY DEF PreflightWaits, PreflightEnds
<1> DEFINE next == [at |-> at, done |-> {}]
<1>3. next.at = at /\ next.done = {} /\ DrainUpTo(cutoff, next)
  BY <1>1
<1> HIDE DEF next
<1>4. /\ next.at \in CaptureStages /\ next.done \in SUBSET Producers /\ cutoff \in Int
  BY <1>3, Clock, Typed DEF CaptureStages
<1>5. /\ CaptureTyped' /\ StampsArePast' /\ BufferIsSorted' /\ Accounted'
      /\ capture'.at = next.at /\ capture'.done = next.done /\ capture'.trailer = capture.trailer
      /\ (shared.stop => shared'.stop) /\ shared'.completed = shared.completed
  BY <1>2, <1>3, <1>4, DrainUpToKeeps
<1>6. ThreadsEnd'
  BY <1>2, <1>3, <1>5 DEF CaptureInvariant, ThreadsEnd, Free
<1>7. ClosesLast'
  BY <1>2, <1>3, <1>5 DEF CaptureInvariant, ClosesLast, Free
<1> QED
  BY <1>5, <1>6, <1>7 DEF CaptureInvariant

LEMMA MergeRoundKeeps ==
  ASSUME CaptureInvariant, MergeRound
  PROVE  CaptureInvariant'
<1>1. /\ capture.at = "merging"
      /\ UNCHANGED <<now, hid, tap, guide, commands, lab, made>>
  BY DEF MergeRound
<1>2. /\ Done \in SUBSET Producers /\ ("hid" \in Done => hid.at = "done")
      /\ ("tap" \in Done => tap.at = "done")
  BY DEF Done, Producers
<1>3. CASE capture' = [capture EXCEPT !.done = Done] /\ UNCHANGED <<queue, shared>>
  <2>1. /\ capture' \in Captures /\ capture'.at = capture.at /\ capture'.done = Done
        /\ capture'.buffered = capture.buffered /\ capture'.last = capture.last
        /\ capture'.file = capture.file /\ capture'.failed = capture.failed
        /\ capture'.trailer = capture.trailer
    BY <1>2, <1>3, Typed, Zenon DEF Captures
  <2>2. SameEvents
    BY <1>1, <1>3, <2>1, Typed DEF SameEvents
  <2>3. ThreadsEnd'
    BY <1>1, <1>3, <2>1 DEF CaptureInvariant, ThreadsEnd, Free
  <2>4. ClosesLast'
    BY <1>1, <1>2, <1>3, <2>1 DEF CaptureInvariant, ClosesLast, Free
  <2> QED
    BY <1>1, <2>2, <2>3, <2>4, Typed, SameEventsKeeps DEF CaptureInvariant
<1>4. CASE DrainUpTo(cutoff, [at |-> "merging", done |-> Done])
  <2> DEFINE next == [at |-> "merging", done |-> Done]
  <2>1. next.at = "merging" /\ next.done = Done /\ DrainUpTo(cutoff, next)
    BY <1>4
  <2> HIDE DEF next
  <2>2. /\ next.at \in CaptureStages /\ next.done \in SUBSET Producers /\ cutoff \in Int
    BY <1>2, <2>1, Clock, Typed DEF CaptureStages
  <2>3. /\ CaptureTyped' /\ StampsArePast' /\ BufferIsSorted' /\ Accounted'
        /\ capture'.at = next.at /\ capture'.done = next.done /\ capture'.trailer = capture.trailer
        /\ (shared.stop => shared'.stop) /\ shared'.completed = shared.completed
    BY <1>1, <2>1, <2>2, DrainUpToKeeps
  <2>4. ThreadsEnd'
    BY <1>1, <2>1, <2>3 DEF CaptureInvariant, ThreadsEnd, Free
  <2>5. ClosesLast'
    BY <1>1, <1>2, <2>1, <2>3 DEF CaptureInvariant, ClosesLast, Free
  <2> QED
    BY <2>3, <2>4, <2>5 DEF CaptureInvariant
<1> QED
  BY <1>3, <1>4 DEF MergeRound

LEMMA MergeRestKeeps ==
  ASSUME CaptureInvariant, MergeRest
  PROVE  CaptureInvariant'
<1>1. /\ capture.at = "merging" /\ capture.done = Producers /\ queue' = << >>
      /\ UNCHANGED <<now, hid, tap, guide, commands, lab, made>>
  BY DEF MergeRest, Producers
<1>2. PICK m \in Merging(MaxTime) :
        /\ capture' = [m.capture EXCEPT !.at = "joining"]
        /\ shared' = [shared EXCEPT !.stop = TRUE, !.invalid = shared.invalid \/ Bad(m)]
  BY Zenon DEF MergeRest
<1>3. MaxTime \in Int /\ now <= MaxTime
  BY Clock, Typed
<1>4. m.capture \in Captures /\ m.capture.trailer = capture.trailer /\ m.capture.done = capture.done
  BY <1>3, MergedKeeps DEF CaptureInvariant
<1>5. /\ capture' \in Captures /\ capture'.buffered = m.capture.buffered
      /\ capture'.last = m.capture.last /\ capture'.file = m.capture.file
      /\ capture'.failed = m.capture.failed /\ capture'.at = "joining"
      /\ capture'.done = m.capture.done /\ capture'.trailer = m.capture.trailer
  <2>1. "joining" \in CaptureStages
    BY DEF CaptureStages
  <2> QED
    BY <1>2, <1>4, <2>1, Zenon DEF Captures
<1>6. /\ shared' \in Shareds /\ (shared.invalid \/ Bad(m) => shared'.invalid)
      /\ shared'.stop /\ shared'.completed = shared.completed
  <2> DEFINE i == shared.invalid \/ Bad(m)
  <2>1. i \in BOOLEAN
    BY LabFields, Typed DEF Bad
  <2>2. shared' = [shared EXCEPT !.stop = TRUE, !.invalid = i]
    BY <1>2
  <2> HIDE DEF i
  <2>3. /\ shared' \in Shareds /\ shared'.invalid = i /\ shared'.stop = TRUE
        /\ shared'.completed = shared.completed
    BY <2>1, <2>2, Typed, Zenon DEF Shareds
  <2> QED
    BY <2>3 DEF i
<1>7. /\ CaptureTyped' /\ StampsArePast' /\ BufferIsSorted' /\ Accounted'
      /\ capture'.buffered = << >>
  BY <1>1, <1>3, <1>5, <1>6, DrainedKeeps
<1>8. ThreadsEnd'
  BY <1>1, <1>5, <1>6 DEF CaptureInvariant, ThreadsEnd, Free
<1>9. ClosesLast'
  BY <1>1, <1>4, <1>5, <1>6, <1>7 DEF CaptureInvariant, ClosesLast, Free
<1> QED
  BY <1>7, <1>8, <1>9 DEF CaptureInvariant

LEMMA CloseFileKeeps ==
  ASSUME CaptureInvariant, CloseFile
  PROVE  CaptureInvariant'
<1>1. /\ capture.at = "joining" /\ guide.at = "done"
      /\ UNCHANGED <<shared, now, queue, hid, tap, guide, commands, lab, made>>
  BY DEF CloseFile
<1>2. PICK trailer \in {"none", "invalid", "valid"} :
        /\ capture' = [capture EXCEPT !.at = "closed", !.trailer = trailer]
        /\ trailer = "valid" => ~shared.invalid /\ (Free \/ shared.completed)
  BY DEF CloseFile
<1>3. "closed" \in CaptureStages
  BY DEF CaptureStages
<1>4. /\ capture' \in Captures /\ capture'.at = "closed" /\ capture'.done = capture.done
      /\ capture'.buffered = capture.buffered /\ capture'.last = capture.last
      /\ capture'.file = capture.file /\ capture'.failed = capture.failed
      /\ capture'.trailer = trailer
  BY <1>2, <1>3, Typed, Zenon DEF Captures
<1>5. SameEvents
  BY <1>1, <1>4, Typed DEF SameEvents
<1>6. ThreadsEnd'
  BY <1>1, <1>4 DEF CaptureInvariant, ThreadsEnd, Free
<1>7. ASSUME trailer = "valid"
      PROVE  capture.file.events = made /\ (Free \/ capture.file.accepted = Trials)
  <2>1. ~shared.invalid /\ (Free \/ shared.completed)
    BY <1>2, <1>7
  <2>2. queue = << >> /\ capture.buffered = << >> /\ hid.at = "done" /\ tap.at = "done"
    BY <1>1, <2>1 DEF CaptureInvariant, ClosesLast, Producers
  <2>3. hid.offers = << >> /\ tap.offers = << >> /\ guide.offers = << >>
    BY <1>1, <2>2 DEF CaptureInvariant, ThreadsEnd
  <2>4. /\ made = OnTheWay + Len(capture.buffered) + capture.file.events
        /\ guide.accepted = MarkedOnTheWay \cup Accepts(capture.buffered) \cup capture.file.accepted
    BY <2>1 DEF CaptureInvariant, Accounted
  <2>5. OnTheWay = 0
    BY <2>2, <2>3, EmptySeq DEF OnTheWay
  <2>6. capture.file.events = made
    <3> DEFINE f == capture.file.events
               n == Len(capture.buffered)
    <3>1. n = 0 /\ f \in Nat /\ made = 0 + n + f
      BY <2>2, <2>4, <2>5, ThreadFields, Typed, EmptySeq
    <3> HIDE DEF f, n
    <3>2. f = made
      BY ONLY <3>1
    <3> QED
      BY <3>2 DEF f
  <2>7. guide.accepted = capture.file.accepted
    <3>1. Accepts(<< >>) = {}
      BY DEF Accepts
    <3> QED
      BY <2>2, <2>3, <2>4, <3>1 DEF MarkedOnTheWay
  <2>8. Free \/ guide.accepted = Trials
    BY <2>1 DEF CaptureInvariant, ThreadsEnd
  <2> QED
    BY <2>6, <2>7, <2>8
<1>8. ClosesLast'
  BY <1>1, <1>4, <1>7 DEF CaptureInvariant, ClosesLast, Free
<1> QED
  BY <1>1, <1>5, <1>6, <1>8, Typed, SameEventsKeeps DEF CaptureInvariant

-----------------------------------------------------------------------------
(* LizardCapture: the invariant.                                           *)

LEMMA CaptureStarts ==
  ASSUME CaptureInit
  PROVE  CaptureInvariant
<1>1. /\ shared = [stop |-> FALSE, invalid |-> FALSE, completed |-> FALSE]
      /\ now = 0 /\ queue = << >> /\ made = 0 /\ commands = << >>
      /\ hid = [at |-> "unborn", offers |-> << >>, seen |-> {}, reports |-> 0]
      /\ tap = [at |-> "unborn", offers |-> << >>, ready |-> FALSE, events |-> 0]
      /\ guide = [at |-> "unborn", offers |-> << >>, accepted |-> {}]
      /\ capture = [at |-> "opening", done |-> {}, buffered |-> << >>, last |-> 0,
                    file |-> [events |-> 0, last |-> 0, ordered |-> TRUE, accepted |-> {}],
                    failed |-> FALSE, trailer |-> "none"]
  BY DEF CaptureInit
<1>2. PICK screen \in {"capturing", "terminal"} :
        lab = [screen |-> screen, phase |-> "preflight", trial |-> 1, attempt |-> 1,
               leaving |-> FALSE]
  BY DEF CaptureInit
<1>3. CaptureTyped
  <2>1. shared \in Shareds
    BY <1>1 DEF Shareds
  <2>2. now \in 0 .. MaxTime /\ queue \in Seq(Stamped) /\ commands \in Seq(Commands) /\ made \in Nat
    BY <1>1, CaptureAssumption, EmptySeq
  <2>3. hid \in Hids /\ tap \in Taps /\ guide \in Guides
    BY <1>1, EmptySeq DEF Hids, Taps, Guides, ThreadStates
  <2>4. capture \in Captures
    <3>1. [events |-> 0, last |-> 0, ordered |-> TRUE, accepted |-> {}] \in Files
      BY DEF Files
    <3> QED
      BY <1>1, <3>1, EmptySeq DEF Captures, CaptureStages
  <2>5. lab \in Labs
    <3>1. 1 \in Trials
      <4>1. Cardinality(Trials) \in Nat /\ Cardinality(Trials) # 0
        BY CaptureAssumption, FS_CardinalityType, FS_EmptySet
      <4>2. 1 \in 1 .. Cardinality(Trials)
        BY <4>1
      <4> QED
        BY <4>2, CaptureAssumption
    <3> QED
      BY <1>2, <3>1 DEF Labs, Screens, Phases
  <2> QED
    BY <2>1, <2>2, <2>3, <2>4, <2>5 DEF CaptureTyped
<1>4. StampsArePast
  BY <1>1 DEF StampsArePast, Past
<1>5. BufferIsSorted
  BY <1>1 DEF BufferIsSorted, Sorted, From
<1>6. Accounted
  <2>1. Accepts(<< >>) = {} /\ Len(<< >>) = 0
    BY EmptySeq DEF Accepts
  <2> QED
    BY <1>1, <2>1 DEF Accounted, OnTheWay, MarkedOnTheWay
<1>7. ThreadsEnd
  BY <1>1 DEF ThreadsEnd
<1>8. ClosesLast
  BY <1>1 DEF ClosesLast, Producers
<1> QED
  BY <1>3, <1>4, <1>5, <1>6, <1>7, <1>8 DEF CaptureInvariant

LEMMA CaptureStutters ==
  ASSUME CaptureInvariant, UNCHANGED captureVars
  PROVE  CaptureInvariant'
<1>1. SameEvents
  BY Typed DEF SameEvents, captureVars
<1>2. ThreadsEnd' /\ ClosesLast'
  BY DEF CaptureInvariant, ThreadsEnd, ClosesLast, Free, captureVars
<1> QED
  BY <1>1, <1>2, Typed, SameEventsKeeps DEF CaptureInvariant, captureVars

LEMMA CaptureKeeps ==
  ASSUME CaptureInvariant, [CaptureNext]_captureVars
  PROVE  CaptureInvariant'
<1>1. CASE Producer
  BY <1>1, HidOffersKeeps, TapOffersKeeps, HidEndsKeeps, TapEndsKeeps DEF Producer
<1>2. CASE Guide
  BY <1>2, GuideOffersKeeps, MarkTrialKeeps, FinishOrCancelKeeps, GuideEndsKeeps DEF Guide
<1>3. CASE Writer
  BY <1>3, OpeningKeeps, PreflightKeeps, PreflightVerdictKeeps, MergeRoundKeeps, MergeRestKeeps,
     CloseFileKeeps, TakeFinishedKeeps DEF Writer
<1>4. CASE Events
  BY <1>4, OpeningKeeps, HidReportKeeps, HidFailsKeeps, TapReadyKeeps, TapEventKeeps, TapEndsKeeps
     DEF Events
<1>5. CASE User
  BY <1>5, TrialGoesOnKeeps, RetryTrialKeeps, AcceptTrialKeeps, LeavingKeeps, InterruptKeeps DEF User
<1>6. CASE ClockAdvances
  BY <1>6, ClockAdvancesKeeps
<1>7. CASE UNCHANGED captureVars
  BY <1>7, CaptureStutters
<1> QED
  BY <1>1, <1>2, <1>3, <1>4, <1>5, <1>6, <1>7 DEF CaptureNext

\* The invariant of the capture: every event is counted once, wherever it is
\* between the thread that stamped it and the file, unless the capture is
\* invalid (apps/sc-visualizer/src/lizard/capture.rs).
THEOREM CaptureIsAccountedFor == CaptureSpec => []CaptureInvariant
<1>1. CaptureInit => CaptureInvariant
  BY CaptureStarts
<1>2. CaptureInvariant /\ [CaptureNext]_captureVars => CaptureInvariant'
  BY CaptureKeeps
<1> QED
  BY <1>1, <1>2, PTL DEF CaptureSpec

\* A capture whose trailer says valid is complete and in order, for any number
\* of trials, any queue and any reorder window: the merger's, the queue's and
\* the writer's losses all mark it invalid before the trailer is written.
THEOREM ValidCaptureIsComplete == CaptureSpec => []ValidIsComplete
<1>1. CaptureInvariant => ValidIsComplete
  BY DEF CaptureInvariant, ClosesLast, BufferIsSorted, ValidIsComplete
<1> QED
  BY <1>1, CaptureIsAccountedFor, PTL

=============================================================================
