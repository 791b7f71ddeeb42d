---------------------------- MODULE ClientAnchors ----------------------------
(***************************************************************************)
(* The client's trust anchors: a signed manifest is loaded at startup and  *)
(* reloaded by the refresher, against a rollback floor that several client *)
(* processes keep as one marker file per accepted version in a shared      *)
(* directory.  The published file may be spoiled or go back to an older    *)
(* document, processes die, the power goes, the volume may be lost.        *)
(*                                                                         *)
(* A manifest is its version; Expires, Revokes and RetiredAfter say what   *)
(* it holds.  A read of the small marker directory is one step.            *)
(***************************************************************************)
EXTENDS Integers, FiniteSetsExt

CONSTANTS
    Clients, Versions,
    Expires,         \* version -> expires_at
    Revokes,         \* version -> it lists the root as revoked
    RetiredAfter,    \* version -> the root's valid_until, or Unset
    bootstrap,
    ceiling,         \* or Unset
    Unset,
    MaxTime, MaxPublishes, MaxLosses       \* bounds

ASSUME AnchorAssumption ==
    /\ Versions \subseteq Nat \ {0} /\ bootstrap \in Nat
    /\ Expires \in [Versions -> Nat \ {0}] /\ Revokes \in [Versions -> BOOLEAN]
    /\ RetiredAfter \in [Versions -> Nat \cup {Unset}]
    /\ ceiling # Unset => bootstrap <= ceiling
    /\ MaxTime \in Nat

VARIABLES
    manifest,    \* the manifest file: a version, or Spoiled
    now, publishes, losses,
    markers, disk, \* the markers in the directory, and those a power loss leaves
    client,      \* client -> [pc, at, doc, had, anchors, expires, since, floorAt]
    recorded     \* versions whose record returned since the volume was new

Spoiled == 0

anchorVars == <<manifest, now, publishes, losses, markers, disk, client, recorded>>

\* at: the instant of the load; had: the floor `record` read; since: what had been
\* recorded by then; floorAt: the same, for the anchors in force.
Down == [pc |-> "down", at |-> 0, doc |-> 0, had |-> 0, anchors |-> 0, expires |-> 0,
         since |-> 0, floorAt |-> 0]

AnchorInit ==
    /\ manifest \in Versions /\ now = 0 /\ publishes = 0 /\ losses = 0
    /\ markers = {} /\ disk = {}
    /\ client = [c \in Clients |-> Down]
    /\ recorded = {}

----------------------------------------------------------------------------
(* FileManifestFloor and the issuer set *)

read_floor(held) == Max(held \cup {0})

check_ceiling(v) == ceiling = Unset \/ v <= ceiling

min_version == Max({read_floor(markers), bootstrap})

\* resolve_issuer: expiry outranks everything, retirement outranks current, and a
\* revoked root resolves to nothing.
trusts(v, t) ==
    /\ t <= Expires[v] /\ ~ Revokes[v]
    /\ RetiredAfter[v] # Unset => t <= RetiredAfter[v]

----------------------------------------------------------------------------
(* A load, at startup and by the refresher *)

outside == <<manifest, now, publishes, losses>>
directory == <<markers, disk, recorded>>

Goes(c, r) == client' = [client EXCEPT ![c] = r]

\* AnchorLoader::new opens the floor, within its bounds or not at all.
StartClient(c) ==
    /\ client[c].pc = "down" /\ check_ceiling(read_floor(markers))
    /\ Goes(c, [Down EXCEPT !.pc = "read", !.at = now])
    /\ UNCHANGED <<outside, directory>>

\* The refresher's interval is over; the clock is read before the file is.
Refresh(c) ==
    /\ client[c].pc = "serving"
    /\ Goes(c, [client[c] EXCEPT !.pc = "read", !.at = now])
    /\ UNCHANGED <<outside, directory>>

\* A load that fails ends a starting client.  A running one keeps its anchors,
\* unless their manifest has expired: then it withdraws them.
Failed(c) ==
    IF client[c].expires = 0 THEN Down
    ELSE [client[c] EXCEPT !.pc = "serving", !.at = 0, !.doc = 0, !.had = 0, !.since = 0,
            !.anchors = IF client[c].at >= client[c].expires THEN 0 ELSE @]

ReadManifest(c) ==
    /\ client[c].pc = "read"
    /\ Goes(c, IF manifest = Spoiled THEN Failed(c)
               ELSE [client[c] EXCEPT !.pc = "floor", !.doc = manifest])
    /\ UNCHANGED <<outside, directory>>

\* min_version, then load_signed_manifest against it: expiry and rollback.  Or the
\* directory cannot be read, or the document is not one the pins vouch for.
Verify(c) ==
    /\ client[c].pc = "floor"
    /\ \/ Goes(c, IF /\ check_ceiling(read_floor(markers))
                     /\ client[c].at <= Expires[client[c].doc]
                     /\ client[c].doc >= min_version
                  THEN [client[c] EXCEPT !.pc = "record"] ELSE Failed(c))
       \/ Goes(c, Failed(c))
    /\ UNCHANGED <<outside, directory>>

RecordUnchecked(c) ==
    /\ client[c].pc = "record"
    /\ Goes(c, [client[c] EXCEPT !.pc = "create", !.had = read_floor(markers),
                  !.since = read_floor(recorded)])
    /\ UNCHANGED <<outside, directory>>

\* record reads the directory again: raised past this version meanwhile, or a
\* version above the ceiling, and the load is discarded.
Record(c) ==
    LET stored == read_floor(markers) IN
    /\ client[c].pc = "record"
    /\ \/ Goes(c, IF /\ check_ceiling(stored) /\ check_ceiling(client[c].doc)
                     /\ stored <= client[c].doc
                  THEN [client[c] EXCEPT !.pc = "create", !.had = stored,
                          !.since = read_floor(recorded)]
                  ELSE Failed(c))
       \/ Goes(c, Failed(c))
    /\ UNCHANGED <<outside, directory>>

\* persist: the marker is created unless it is there, ...
Create(c) ==
    /\ client[c].pc = "create"
    /\ \/ markers' = markers \cup {client[c].doc} /\ Goes(c, [client[c] EXCEPT !.pc = "sync"])
       \/ client[c].doc \notin markers /\ Goes(c, Failed(c)) /\ UNCHANGED markers
    /\ UNCHANGED <<outside, disk, recorded>>

\* ... or was created, and its own fsync failed.
CreateUnsynced(c) ==
    /\ client[c].pc = "create" /\ client[c].doc \notin markers
    /\ markers' = markers \cup {client[c].doc} /\ Goes(c, Failed(c))
    /\ UNCHANGED <<outside, disk, recorded>>

SyncDirUnlessSeen(c) ==
    /\ client[c].pc = "sync"
    /\ disk' = IF client[c].had = client[c].doc THEN disk ELSE markers
    /\ recorded' = recorded \cup {client[c].doc}
    /\ Goes(c, [client[c] EXCEPT !.pc = IF client[c].had = client[c].doc THEN "swap" ELSE "prune"])
    /\ UNCHANGED <<outside, markers>>

\* The directory's fsync, also for a marker another process created.
SyncDir(c) ==
    /\ client[c].pc = "sync"
    /\ \/ /\ disk' = markers /\ recorded' = recorded \cup {client[c].doc}
          /\ Goes(c, [client[c] EXCEPT !.pc = IF client[c].had = client[c].doc
                                              THEN "swap" ELSE "prune"])
       \/ Goes(c, Failed(c)) /\ UNCHANGED <<disk, recorded>>
    /\ UNCHANGED <<outside, markers>>

\* prune_below, as far as it gets.
Prune(c) ==
    /\ client[c].pc = "prune"
    /\ \E pruned \in SUBSET {v \in markers : v < client[c].doc} : markers' = markers \ pruned
    /\ Goes(c, [client[c] EXCEPT !.pc = "swap"])
    /\ UNCHANGED <<outside, disk, recorded>>

\* The anchors and their expiry are in force.
Swap(c) ==
    /\ client[c].pc = "swap"
    /\ Goes(c, [client[c] EXCEPT !.pc = "serving", !.at = 0, !.doc = 0, !.had = 0, !.since = 0,
                  !.anchors = client[c].doc, !.expires = Expires[client[c].doc],
                  !.floorAt = client[c].since])
    /\ UNCHANGED <<outside, directory>>

----------------------------------------------------------------------------
(* The world *)

\* The distribution writes a document, a newer or an older one, or spoils the file.
Publish ==
    /\ publishes < MaxPublishes /\ publishes' = publishes + 1
    /\ manifest' \in (Versions \cup {Spoiled}) \ {manifest}
    /\ UNCHANGED <<now, losses, directory, client>>

ClockTick ==
    /\ now < MaxTime /\ now' = now + 1
    /\ UNCHANGED <<manifest, publishes, losses, directory, client>>

Kill(c) ==
    /\ client[c].pc # "down" /\ losses < MaxLosses /\ losses' = losses + 1
    /\ Goes(c, Down)
    /\ UNCHANGED <<manifest, now, publishes, directory>>

\* What was not synced may be there or not.
PowerLoss ==
    /\ losses < MaxLosses /\ losses' = losses + 1
    /\ \E kept \in SUBSET (markers \cup disk) :
         /\ markers \cap disk \subseteq kept
         /\ markers' = kept /\ disk' = kept
    /\ client' = [c \in Clients |-> Down]
    /\ UNCHANGED <<manifest, now, publishes, recorded>>

\* An ephemeral volume is gone after a restart: only the bootstrap is left.
VolumeLost ==
    /\ losses < MaxLosses /\ losses' = losses + 1
    /\ markers' = {} /\ disk' = {} /\ recorded' = {}
    /\ client' = [c \in Clients |-> Down]
    /\ UNCHANGED <<manifest, now, publishes>>

AnchorNext ==
    \/ \E c \in Clients :
         \/ StartClient(c) \/ Refresh(c) \/ ReadManifest(c) \/ Verify(c) \/ Record(c)
         \/ Create(c) \/ CreateUnsynced(c) \/ SyncDir(c) \/ Prune(c) \/ Swap(c) \/ Kill(c)
    \/ Publish \/ ClockTick \/ PowerLoss \/ VolumeLost

AnchorSpec == AnchorInit /\ [][AnchorNext]_anchorVars

----------------------------------------------------------------------------
(* What the floor promises *)

AnchorTypeOK ==
    /\ manifest \in Versions \cup {Spoiled} /\ now \in 0 .. MaxTime
    /\ markers \subseteq Versions /\ disk \subseteq Versions /\ recorded \subseteq Versions
    /\ \A c \in Clients :
         /\ client[c].pc \in {"down", "serving", "read", "floor", "record", "create", "sync",
                              "prune", "swap"}
         /\ {client[c].doc, client[c].had, client[c].anchors} \subseteq Versions \cup {0}

\* An accepted version is never forgotten: once record has returned for it, what the
\* directory says, now and after any loss of power, is at least that version, although
\* every writer prunes and none holds a lock.
FloorKept ==
    recorded # {} =>
      Max(recorded) <= read_floor(markers) /\ Max(recorded) <= read_floor(disk)

\* No roll-back: the anchors in force come from no version below the bootstrap, nor
\* below one that any client had recorded when their own load was about to be.
NotRolledBack ==
    \A c \in Clients : client[c].anchors # 0 =>
      client[c].anchors >= client[c].floorAt /\ client[c].anchors >= bootstrap

\* So a revocation is not walked back: a client trusts the root only if its anchors do
\* and no version that was recorded before theirs, and is not older, revoked it.
RevokedStaysRevoked ==
    \A c \in Clients : client[c].anchors # 0 /\ trusts(client[c].anchors, now) =>
      \A v \in recorded : Revokes[v] /\ v <= client[c].floorAt => v < client[c].anchors

\* A client's anchors never go back.  An accepted manifest version is not forgotten
\* over any loss of power (record, persist, prune_below), the anchors in force come
\* from no version below one recorded when their load came to be, also when that
\* happened since the floor was read (load_signed_manifest_with_floor), and a revoked
\* root is not trusted again through an older document.
AnchorsNeverRollBack == AnchorTypeOK /\ FloorKept /\ NotRolledBack /\ RevokedStaysRevoked
=============================================================================
