------------------------------ MODULE TrustStore ------------------------------
(***************************************************************************)
(* The store of trust anchors on disk: runs of tools/sync_trust_store.py   *)
(* that replace it, and calls of core/trust/store.py load() that read and  *)
(* verify it meanwhile (the daemon's /status, a signature in progress).    *)
(* Nothing excludes one run from another, nor a run from a load; all runs  *)
(* share the staging directory.                                            *)
(*                                                                         *)
(* A file's content is named by the run that downloaded it, which stands   *)
(* for its sha256, too.  A directory is a function from the names in it.   *)
(* A manifest is a function from names to contents, a signature the pair   *)
(* of a key and a manifest.                                                *)
(***************************************************************************)
EXTENDS Naturals, Sequences, Functions

CONSTANTS Syncs,    \* runs of the tool
          DevKey,   \* runs without a signing key: each generates its own
          Loads,    \* calls of load
          Items,    \* the names in sources.yaml, in order
          OpKey,    \* the operator's signing key
          Nothing   \* no directory, no key, no manifest

ManifestJson == "manifest.json"
ManifestSig == "manifest.sig"
Files == {Items[i] : i \in DOMAIN Items}
Names == Files \cup {ManifestJson, ManifestSig}

\* What a run downloads and lists in its manifest, what a file can hold, and what a
\* directory can look like.
Contents == UNION {[D -> Syncs] : D \in SUBSET Files}
Stored == Syncs \cup Contents \cup ((Syncs \cup {OpKey}) \X Contents)
Directories == UNION {[D -> Stored] : D \in SUBSET Names}

ASSUME TrustAssumption ==
    /\ DevKey \subseteq Syncs
    /\ Items \in Seq(STRING) /\ ManifestJson \notin Files /\ ManifestSig \notin Files
    /\ Nothing \notin Syncs \cup {OpKey} /\ OpKey \notin Syncs
    /\ \A D \in SUBSET Names : Nothing \notin [D -> Stored]

VARIABLES
    current,  \* the store: names to contents, or Nothing when there is no directory
    staging,  \* the staging directory
    pub,      \* the pinned public key
    sync,     \* [Syncs -> step of run()]
    at,       \* [Syncs -> position in Items]
    staged,   \* [Syncs -> what it downloaded: names to contents]
    listed,   \* [Syncs -> names rmtree still has to remove]
    alone,    \* observer: [Syncs -> no other run since it started]
    load,     \* [Loads -> step of load()]
    toRead,   \* [Loads -> names still to read or to check]
    entries,  \* [Loads -> certificates and CRLs read]
    read,     \* [Loads -> manifest.json as read]
    undisturbed \* observer: [Loads -> no step of a run since it started]

syncVars == <<sync, at, staged, listed, alone>>
loadVars == <<load, toRead, entries, read, undisturbed>>
diskVars == <<current, staging, pub>>
vars == <<diskVars, syncVars, loadVars>>

Empty == [n \in {} |-> Nothing]
Put(dir, n, content) == [m \in DOMAIN dir \cup {n} |-> IF m = n THEN content ELSE dir[m]]
Drop(dir, n) == Restrict(dir, DOMAIN dir \ {n})
Set(f, x, v) == [f EXCEPT ![x] = v]
Here == IF current = Nothing THEN {} ELSE DOMAIN current

Init ==
    /\ current = Nothing /\ staging = Empty /\ pub = Nothing
    /\ sync = [s \in Syncs |-> "idle"]
    /\ at = [s \in Syncs |-> 1]
    /\ staged = [s \in Syncs |-> Empty]
    /\ listed = [s \in Syncs |-> {}]
    /\ alone = [s \in Syncs |-> FALSE]
    /\ load = [l \in Loads |-> "idle"]
    /\ toRead = [l \in Loads |-> {}]
    /\ entries = [l \in Loads |-> Empty]
    /\ read = [l \in Loads |-> Nothing]
    /\ undisturbed = [l \in Loads |-> FALSE]

-----------------------------------------------------------------------------
(* tools/sync_trust_store.py run() *)

Over == {"idle", "done", "stopped"}
Running(s) == sync[s] \notin Over

\* Every step of a run disturbs the loads in progress.
Disturb == /\ undisturbed' = [l \in Loads |-> FALSE]
           /\ UNCHANGED <<load, toRead, entries, read>>

SyncTo(s, step) == sync' = Set(sync, s, step)

\* The staging directory is removed and made anew.
StartSync(s) ==
    /\ sync[s] = "idle"
    /\ SyncTo(s, "download")
    /\ staging' = Empty
    /\ alone' = [t \in Syncs |-> t = s /\ \A u \in Syncs : ~Running(u)]
    /\ Disturb
    /\ UNCHANGED <<current, pub, at, staged, listed>>

\* One item is downloaded, or skipped over an error.
Download(s) ==
    /\ sync[s] = "download" /\ at[s] \in DOMAIN Items
    /\ at' = Set(at, s, at[s] + 1)
    /\ \/ /\ staging' = Put(staging, Items[at[s]], s)
          /\ staged' = Set(staged, s, Put(staged[s], Items[at[s]], s))
       \/ UNCHANGED <<staging, staged>>
    /\ Disturb
    /\ UNCHANGED <<current, pub, sync, listed, alone>>

\* The operator answers YES, after the manifest and the changes are shown.
Confirm(s) ==
    /\ sync[s] = "download" /\ at[s] \notin DOMAIN Items /\ staged[s] # Empty
    /\ SyncTo(s, "apply")
    /\ Disturb
    /\ UNCHANGED <<diskVars, at, staged, listed, alone>>

\* Bug: a generated key is not pinned.
Pinned_OpKeyOnly(s) == IF s \in DevKey THEN pub ELSE OpKey

KeyOf(s) == IF s \in DevKey THEN s ELSE OpKey

\* The public key on disk once run s has its signing key.
Pinned(s) == KeyOf(s)

\* _obtain_signing_key; rmtree lists the old store.
StartApply(s) ==
    /\ sync[s] = "apply"
    /\ pub' = Pinned(s)
    /\ listed' = Set(listed, s, Here)
    /\ SyncTo(s, "remove")
    /\ Disturb
    /\ UNCHANGED <<current, staging, at, staged, alone>>

\* rmtree removes a file; one that is gone raises.  A file that came since may
\* be in a subdirectory that is still to be listed.
Remove(s) ==
    /\ sync[s] = "remove" /\ listed[s] # {}
    /\ \E n \in listed[s] \cup Here :
          IF n \in Here
          THEN /\ current' = Drop(current, n)
               /\ listed' = Set(listed, s, listed[s] \ {n})
               /\ UNCHANGED sync
          ELSE SyncTo(s, "stopped") /\ UNCHANGED <<current, listed>>
    /\ Disturb
    /\ UNCHANGED <<staging, pub, at, staged, alone>>

\* The directory is removed, unless a file came in, and made anew.
Renew(s) ==
    /\ sync[s] = "remove" /\ listed[s] = {}
    /\ IF Here = {}
       THEN current' = Empty /\ SyncTo(s, "copy") /\ at' = Set(at, s, 1)
       ELSE SyncTo(s, "stopped") /\ UNCHANGED <<current, at>>
    /\ Disturb
    /\ UNCHANGED <<staging, pub, staged, listed, alone>>

\* A staged file is copied; one that is gone raises.
Copy(s) ==
    /\ sync[s] = "copy" /\ at[s] \in DOMAIN Items
    /\ LET n == Items[at[s]] IN
       \/ /\ n \notin DOMAIN staged[s]
          /\ at' = Set(at, s, at[s] + 1)
          /\ UNCHANGED <<current, sync>>
       \/ /\ n \in DOMAIN staged[s] /\ n \in DOMAIN staging
          /\ current' = Put(current, n, staging[n])
          /\ at' = Set(at, s, at[s] + 1)
          /\ UNCHANGED sync
       \/ /\ n \in DOMAIN staged[s] /\ n \notin DOMAIN staging
          /\ SyncTo(s, "stopped")
          /\ UNCHANGED <<current, at>>
    /\ Disturb
    /\ UNCHANGED <<staging, pub, staged, listed, alone>>

\* Bug: the manifest is made of what the staging directory holds by then.
Manifest_FromStaging(s) == staging

\* What the manifest of run s lists.
Manifest(s) == staged[s]

WriteManifest(s) ==
    /\ sync[s] = "copy" /\ at[s] \notin DOMAIN Items
    /\ current' = Put(current, ManifestJson, Manifest(s))
    /\ SyncTo(s, "sign")
    /\ Disturb
    /\ UNCHANGED <<staging, pub, at, staged, listed, alone>>

WriteSig(s) ==
    /\ sync[s] = "sign"
    /\ current' = Put(current, ManifestSig, <<KeyOf(s), Manifest(s)>>)
    /\ SyncTo(s, "done")
    /\ Disturb
    /\ UNCHANGED <<staging, pub, at, staged, listed, alone>>

\* The run ends early: --dry-run, no YES, nothing downloaded, an I/O error, a crash.
Stop(s) ==
    /\ Running(s)
    /\ SyncTo(s, "stopped")
    /\ Disturb
    /\ UNCHANGED <<diskVars, at, staged, listed, alone>>

SyncStep(s) == \/ StartSync(s) \/ Download(s) \/ Confirm(s)
               \/ StartApply(s) \/ Remove(s) \/ Renew(s) \/ Copy(s)
               \/ WriteManifest(s) \/ WriteSig(s) \/ Stop(s)

-----------------------------------------------------------------------------
(* core/trust/store.py load() *)

LoadTo(l, step) == load' = Set(load, l, step)

\* The files of the directory are listed.
StartLoad(l) ==
    /\ load[l] = "idle"
    /\ LoadTo(l, IF current = Nothing THEN "unverified" ELSE "read")
    /\ toRead' = Set(toRead, l, Here \cap Files)
    /\ undisturbed' = Set(undisturbed, l, TRUE)
    /\ UNCHANGED <<diskVars, syncVars, entries, read>>

\* A certificate or CRL is read, unless it is gone.
ReadEntry(l) ==
    /\ load[l] = "read" /\ toRead[l] # {}
    /\ \E n \in toRead[l] :
          /\ toRead' = Set(toRead, l, toRead[l] \ {n})
          /\ IF n \in Here
             THEN entries' = Set(entries, l, Put(entries[l], n, current[n]))
             ELSE UNCHANGED entries
    /\ UNCHANGED <<diskVars, syncVars, load, read, undisturbed>>

ReadManifest(l) ==
    /\ load[l] = "read" /\ toRead[l] = {}
    /\ IF ManifestJson \in Here
       THEN read' = Set(read, l, current[ManifestJson]) /\ LoadTo(l, "sig")
       ELSE LoadTo(l, "unverified") /\ UNCHANGED read
    /\ UNCHANGED <<diskVars, syncVars, toRead, entries, undisturbed>>

\* manifest.sig signs manifest m with the pinned key.
SigValid(m) == ManifestSig \in Here /\ pub # Nothing /\ current[ManifestSig] = <<pub, m>>

CheckSig(l) ==
    /\ load[l] = "sig"
    /\ IF SigValid(read[l]) /\ read[l] # Empty
       THEN LoadTo(l, "hash") /\ toRead' = Set(toRead, l, DOMAIN read[l])
       ELSE LoadTo(l, "unverified") /\ UNCHANGED toRead
    /\ UNCHANGED <<diskVars, syncVars, entries, read, undisturbed>>

\* Bug: a file of the manifest need only exist.
HashMatches_Exists(m, n) == n \in Here

\* File n has the sha256 that manifest m states.
HashMatches(m, n) == n \in Here /\ current[n] = m[n]

CheckHash(l) ==
    /\ load[l] = "hash" /\ toRead[l] # {}
    /\ \E n \in toRead[l] :
          IF HashMatches(read[l], n)
          THEN toRead' = Set(toRead, l, toRead[l] \ {n}) /\ UNCHANGED load
          ELSE LoadTo(l, "unverified") /\ UNCHANGED toRead
    /\ UNCHANGED <<diskVars, syncVars, entries, read, undisturbed>>

\* Bug: files that the manifest does not list are not looked for.
NoStranger_Unchecked(m) == TRUE

\* Every certificate and CRL on disk is in manifest m.
NoStranger(m) == Here \cap Files \subseteq DOMAIN m

CheckStrangers(l) ==
    /\ load[l] = "hash" /\ toRead[l] = {}
    /\ LoadTo(l, IF NoStranger(read[l]) THEN "verified" ELSE "unverified")
    /\ UNCHANGED <<diskVars, syncVars, toRead, entries, read, undisturbed>>

LoadStep(l) == \/ StartLoad(l) \/ ReadEntry(l) \/ ReadManifest(l)
               \/ CheckSig(l) \/ CheckHash(l) \/ CheckStrangers(l)

Next == (\E s \in Syncs : SyncStep(s)) \/ (\E l \in Loads : LoadStep(l))

Spec == Init /\ [][Next]_vars

-----------------------------------------------------------------------------
\* The files are in their places, and a file or a manifest is always somebody's.
TypeOK ==
    /\ current # Nothing =>
          /\ DOMAIN current \subseteq Names
          /\ \A n \in Here \cap Files : current[n] \in Syncs
          /\ ManifestJson \in Here => current[ManifestJson] \in Contents \ {Empty}
    /\ staging \in Contents
    /\ pub \in Syncs \cup {OpKey, Nothing}
    /\ sync \in [Syncs -> Over \cup {"download", "apply", "remove", "copy", "sign"}]
    /\ at \in [Syncs -> 1 .. Len(Items) + 1]
    /\ staged \in [Syncs -> Contents]
    /\ listed \in [Syncs -> SUBSET Names]
    /\ load \in [Loads -> {"idle", "read", "sig", "hash", "verified", "unverified"}]
    /\ toRead \in [Loads -> SUBSET Files]
    /\ entries \in [Loads -> Contents]

\* What a load would answer if nothing moved.
Verifies ==
    /\ ManifestJson \in Here
    /\ LET m == current[ManifestJson] IN
       /\ SigValid(m)
       /\ \A n \in DOMAIN m : HashMatches(m, n)
       /\ NoStranger(m)

StoredFiles == Restrict(current, Here \cap Files)

(***************************************************************************)
(* Whatever runs overlap and wherever they stop, a store that verifies is  *)
(* all of what one run downloaded, and nothing else; that run came to its  *)
(* end and holds the pinned key (_verify_file_hashes, apply_store).        *)
(***************************************************************************)
VerifiedStoreIsOneDownload ==
    Verifies => \E s \in Syncs : /\ StoredFiles = staged[s]
                                 /\ pub = KeyOf(s)
                                 /\ sync[s] = "done"

(***************************************************************************)
(* A load that says "verified" trusts exactly the certificates the signed  *)
(* manifest lists, unless a run took a step during the load: load() reads  *)
(* every file before the manifest, and again to hash it (store.py:310-345, *)
(* 420-448), so such a run can exchange them in between.                   *)
(***************************************************************************)
VerifiedLoadIsSigned ==
    \A l \in Loads :
        load[l] = "verified" /\ undisturbed[l] => entries[l] = read[l]

(***************************************************************************)
(* A run that reported success, with no other run beside it or since, has  *)
(* left a store that verifies and is what it downloaded: copy, manifest,   *)
(* signature and pinned key fit together (apply_store 294-318).            *)
(***************************************************************************)
LoneSyncVerifies ==
    \A s \in Syncs :
        sync[s] = "done" /\ alone[s] => Verifies /\ StoredFiles = staged[s]
===============================================================================
