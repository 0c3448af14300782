---------------------------- MODULE ReleaseCache ----------------------------
(***************************************************************************)
(* The signed release catalog on disk (release-updater network.rs,         *)
(* cache.rs, manifest.rs) and the processes that refresh it: the menu      *)
(* app's checker at start and the App Center's worker.  A refresh asks     *)
(* whether it is due, takes the file lock, asks again, fetches the         *)
(* published metadata, verifies it, compares it with what is cached and    *)
(* replaces the file.  The server may answer with any release it ever      *)
(* published, or with something unsigned; a process may be killed at any   *)
(* step.                                                                   *)
(***************************************************************************)
EXTENDS Naturals, FiniteSets

CONSTANTS
    Clients,     \* the processes that refresh
    NoRelease,     \* no metadata, no lock
    MaxRelease,  \* bound: the newest release
    MaxRefreshes \* bound: refreshes started by one client

ASSUME CacheAssumption == NoRelease \notin Clients

VARIABLES
    published, \* the newest release on the server
    cache,     \* [metadata, checked: whether last-check is recent, artifact]
    lock,      \* catalog-refresh.lock
    client     \* client -> its refresh

cacheVars == <<published, cache, lock, client>>

Unsigned == 0
Fresh(c) == [at |-> "idle", forced |-> FALSE, fetched |-> NoRelease, cached |-> NoRelease,
             catalog |-> NoRelease, stale |-> FALSE, runs |-> c]

CacheInit ==
    /\ published = 1
    /\ cache = [metadata |-> NoRelease, checked |-> FALSE, artifact |-> NoRelease]
    /\ lock = NoRelease
    /\ client = [c \in Clients |-> Fresh(0)]

Step(c, at) == client' = [client EXCEPT ![c].at = at]
Returns(c, catalog, stale) ==
    client' = [client EXCEPT ![c] = [Fresh(@.runs) EXCEPT !.catalog = catalog, !.stale = stale]]
Unlock == lock' = NoRelease

(* load_manifest: only verified metadata was ever stored. *)
Loaded == cache.metadata

-----------------------------------------------------------------------------
(* refresh_catalog_cancellable.                                            *)

refresh_due(c) == client[c].forced \/ ~cache.checked

Begin(c) ==
    /\ client[c].at = "idle" /\ client[c].runs < MaxRefreshes
    /\ \E forced \in BOOLEAN :
          client' = [client EXCEPT ![c] = [Fresh(@.runs + 1) EXCEPT !.at = "due", !.forced = forced]]
    /\ UNCHANGED <<published, cache, lock>>

NotDue(c) ==
    /\ client[c].at = "due" /\ ~refresh_due(c)
    /\ Returns(c, Loaded, FALSE)
    /\ UNCHANGED <<published, cache, lock>>

\* Fault: the refresh does not take the lock.
Lock_not_taken(c) ==
    /\ client[c].at = "due" /\ refresh_due(c)
    /\ Step(c, "locked") /\ UNCHANGED lock
    /\ UNCHANGED <<published, cache>>

Lock(c) ==
    /\ client[c].at = "due" /\ refresh_due(c)
    /\ lock = NoRelease /\ lock' = c
    /\ Step(c, "locked")
    /\ UNCHANGED <<published, cache>>

(* Somebody else may have refreshed while this one waited. *)
Recheck(c) ==
    /\ client[c].at = "locked"
    /\ IF refresh_due(c) THEN Step(c, "fetching") /\ UNCHANGED lock
       ELSE Returns(c, Loaded, FALSE) /\ Unlock
    /\ UNCHANGED <<published, cache>>

(* fetch_metadata: any release that was ever published, or forged bytes. *)
Fetch(c) ==
    /\ client[c].at = "fetching"
    /\ \E bytes \in 1..published \cup {Unsigned} :
          client' = [client EXCEPT ![c].fetched = bytes, ![c].at = "verifying"]
    /\ UNCHANGED <<published, cache, lock>>

(* A refresh that fails falls back to what is cached. *)
Fails(c) == Returns(c, Loaded, TRUE) /\ Unlock /\ UNCHANGED <<published, cache>>
FetchFails(c) == client[c].at = "fetching" /\ Fails(c)

verify_signed_manifest(bytes) == bytes # Unsigned

(* store_manifest: verify, and load what is cached. *)
VerifyMetadata(c) ==
    /\ client[c].at = "verifying"
    /\ IF verify_signed_manifest(client[c].fetched)
       THEN /\ client' = [client EXCEPT ![c].at = "comparing", ![c].cached = Loaded]
            /\ UNCHANGED <<published, cache, lock>>
       ELSE Fails(c)

(* Rollback is refused against what was read, then the file is replaced. *)
Store(c) ==
    /\ client[c].at = "comparing"
    /\ IF client[c].cached # NoRelease /\ client[c].fetched < client[c].cached
       THEN Fails(c)
       ELSE \/ /\ cache' = [cache EXCEPT !.metadata = client[c].fetched]
               /\ Step(c, "storing") /\ UNCHANGED <<published, lock>>
            \/ Fails(c)

(* mark_check_success, whose failure is ignored. *)
Mark(c) ==
    /\ client[c].at = "storing"
    /\ \E marked \in {cache.checked, TRUE} : cache' = [cache EXCEPT !.checked = marked]
    /\ Returns(c, client[c].fetched, FALSE) /\ Unlock
    /\ UNCHANGED published

-----------------------------------------------------------------------------
(* Around a refresh.                                                       *)

(* ensure_release_artifact: a cached file that matches the signed          *)
(* descriptor, or a download that does.                                    *)
ensure_release_artifact(c) ==
    /\ client[c].at = "idle" /\ client[c].catalog # NoRelease
    /\ \/ cache.artifact = client[c].catalog /\ UNCHANGED cache /\ Step(c, "using")
       \/ /\ cache.artifact # client[c].catalog
          /\ \E bytes \in {Unsigned, client[c].catalog} :
                /\ cache' = [cache EXCEPT !.artifact = bytes]
                /\ IF bytes = client[c].catalog THEN Step(c, "using") ELSE UNCHANGED client
    /\ UNCHANGED <<published, lock>>

(* The verified file has been flashed or staged. *)
Used(c) == client[c].at = "using" /\ Step(c, "idle") /\ UNCHANGED <<published, cache, lock>>

(* The process is killed, which releases its lock (external). *)
Killed(c) ==
    /\ client[c].at # "idle"
    /\ client' = [client EXCEPT ![c] = Fresh(@.runs)]
    /\ lock' = IF lock = c THEN NoRelease ELSE lock
    /\ UNCHANGED <<published, cache>>

(* A newer release is published; the last check is a day old (external). *)
Publish == published < MaxRelease /\ published' = published + 1 /\ UNCHANGED <<cache, lock, client>>
Expire == cache.checked /\ cache' = [cache EXCEPT !.checked = FALSE] /\ UNCHANGED <<published, lock, client>>

CacheNext ==
    \/ \E c \in Clients : \/ Begin(c) \/ NotDue(c) \/ Lock(c) \/ Recheck(c) \/ Fetch(c) \/ FetchFails(c)
                          \/ VerifyMetadata(c) \/ Store(c) \/ Mark(c)
                          \/ ensure_release_artifact(c) \/ Used(c) \/ Killed(c)
    \/ Publish \/ Expire
CacheSpec == CacheInit /\ [][CacheNext]_cacheVars

-----------------------------------------------------------------------------
(* The catalog never goes back: whatever an old mirror answers and however *)
(* two refreshes and a kill interleave, the cached release is replaced     *)
(* only by one at least as new, and always by a signed one.                *)
CatalogNeverGoesBack ==
    [][ cache'.metadata # cache.metadata =>
           /\ verify_signed_manifest(cache'.metadata)
           /\ cache.metadata # NoRelease => cache'.metadata >= cache.metadata ]_cacheVars
=============================================================================
