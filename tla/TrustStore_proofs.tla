--------------------------- MODULE TrustStore_proofs ---------------------------
(***************************************************************************)
(* Proofs about TrustStore, for any runs, loads and items, and any key of  *)
(* the operator.                                                           *)
(*                                                                         *)
(* What a run downloaded does not change once it began to apply it, and a  *)
(* signature on disk is always of what a run that ended downloaded         *)
(* (Signed): so much holds whatever runs overlap.  Of a run that had no    *)
(* other beside it the invariant says what the directories hold at each    *)
(* of its steps (LoneRuns), and of a load during which no run took a step  *)
(* what it has seen of the store (QuietLoads).                             *)
(***************************************************************************)
EXTENDS TrustStore, TLAPS

\* The store is a directory; files and the manifest in it are somebody's.
DiskTyped ==
    /\ current = Nothing \/ current \in Directories
    /\ \A n \in Here \cap Files : current[n] \in Syncs
    /\ ManifestJson \in Here => current[ManifestJson] \in Contents \ {Empty}
    /\ pub \in Syncs \cup {OpKey, Nothing}

SyncSteps == Over \cup {"download", "apply", "remove", "copy", "sign"}

SyncTyped ==
    /\ staging \in Contents
    /\ sync \in [Syncs -> SyncSteps]
    /\ at \in [Syncs -> 1 .. Len(Items) + 1]
    /\ staged \in [Syncs -> Contents]
    /\ listed \in [Syncs -> SUBSET Names]
    /\ alone \in [Syncs -> BOOLEAN]

\* A run that has not begun holds nothing, one that applies has something.
Progress ==
    \A s \in Syncs :
        /\ sync[s] = "idle" => staged[s] = Empty
        /\ sync[s] \in {"apply", "remove", "copy", "sign", "done"} => staged[s] # Empty
        /\ sync[s] \in {"copy", "sign", "done"} => current # Nothing

\* A signature on disk is that of a run that came to its end.
Signed ==
    ManifestSig \in Here =>
        \E s \in Syncs : sync[s] = "done" /\ current[ManifestSig] = <<KeyOf(s), staged[s]>>

LoadTyped ==
    /\ load \in [Loads -> {"idle", "read", "sig", "hash", "verified", "unverified"}]
    /\ toRead \in [Loads -> SUBSET Files]
    /\ entries \in [Loads -> Contents]
    /\ DOMAIN read = Loads
    /\ undisturbed \in [Loads -> BOOLEAN]
    /\ \A l \in Loads : load[l] \in {"sig", "hash", "verified"} => read[l] \in Contents
    /\ \A l \in Loads : load[l] = "idle" => entries[l] = Empty

(***************************************************************************)
(* With no other run since it started, the staging directory is what the   *)
(* run downloaded, and the store what of it the run has copied.            *)
(***************************************************************************)
Agrees(s) == \A n \in Here \cap Files : n \in DOMAIN staged[s] /\ current[n] = staged[s][n]

LoneRun(s) ==
    /\ \A t \in Syncs \ {s} : ~Running(t)
    /\ sync[s] # "idle"
    /\ sync[s] \in {"download", "apply", "remove", "copy"} => staging = staged[s]
    /\ sync[s] \in {"remove", "copy", "sign", "done"} => pub = KeyOf(s)
    /\ sync[s] \in {"copy", "sign", "done"} => Agrees(s)
    /\ sync[s] = "copy" =>
          \A i \in 1 .. at[s] - 1 : Items[i] \in DOMAIN staged[s] => Items[i] \in Here
    /\ sync[s] = "sign" => DOMAIN staged[s] \cup {ManifestJson} \subseteq Here
    /\ sync[s] = "done" => DOMAIN staged[s] \cup {ManifestJson, ManifestSig} \subseteq Here
    /\ sync[s] \in {"sign", "done"} => current[ManifestJson] = staged[s]
    /\ sync[s] = "done" => current[ManifestSig] = <<pub, staged[s]>>

LoneRuns == \A s \in Syncs : alone[s] => LoneRun(s)

(***************************************************************************)
(* With no step of a run since it started, what a load has read is what is *)
(* on disk, and what it has checked is so.                                 *)
(***************************************************************************)
QuietLoad(l) ==
    /\ load[l] \in {"read", "sig", "hash"} =>
          \A n \in DOMAIN entries[l] : entries[l][n] = current[n]
    /\ load[l] = "read" => DOMAIN entries[l] \cup toRead[l] = Here \cap Files
    /\ load[l] \in {"sig", "hash"} => DOMAIN entries[l] = Here \cap Files
    /\ load[l] = "hash" => \A n \in DOMAIN read[l] \ toRead[l] : HashMatches(read[l], n)
    /\ load[l] = "verified" => entries[l] = read[l]

QuietLoads == \A l \in Loads : undisturbed[l] => QuietLoad(l)

TInv == DiskTyped /\ SyncTyped /\ Progress /\ Signed /\ LoadTyped

-----------------------------------------------------------------------------
(* Directories *)

LEMMA ItemsAre ==
    /\ Len(Items) \in Nat /\ DOMAIN Items = 1 .. Len(Items)
    /\ \A i \in DOMAIN Items : Items[i] \in Files /\ Items[i] \in Names
  BY TrustAssumption DEF Files, Names

LEMMA NoDirectory == Nothing \notin Directories
  BY TrustAssumption DEF Directories

LEMMA EmptyIs == Empty \in Contents /\ Empty \in Directories /\ DOMAIN Empty = {}
<1>1. Empty \in [{} -> Syncs] /\ Empty \in [{} -> Stored]
  BY DEF Empty
<1> QED
  BY <1>1 DEF Empty, Contents, Directories

\* A content is a function on some of the items; a directory one on some of the names.
LEMMA ContentsAre ==
    \A d : d \in Contents <=> /\ d = [n \in DOMAIN d |-> d[n]] /\ DOMAIN d \subseteq Files
                              /\ \A n \in DOMAIN d : d[n] \in Syncs
<1> TAKE d
<1>1. ASSUME d \in Contents
      PROVE  /\ d = [n \in DOMAIN d |-> d[n]] /\ DOMAIN d \subseteq Files
             /\ \A n \in DOMAIN d : d[n] \in Syncs
  BY <1>1 DEF Contents
<1>2. ASSUME d = [n \in DOMAIN d |-> d[n]], DOMAIN d \subseteq Files,
             \A n \in DOMAIN d : d[n] \in Syncs
      PROVE  d \in Contents
  <2>1. d \in [DOMAIN d -> Syncs]
    BY <1>2
  <2> QED
    BY <1>2, <2>1 DEF Contents
<1> QED
  BY <1>1, <1>2

LEMMA DirectoriesAre ==
    \A d : d \in Directories <=> /\ d = [n \in DOMAIN d |-> d[n]] /\ DOMAIN d \subseteq Names
                                 /\ \A n \in DOMAIN d : d[n] \in Stored
<1> TAKE d
<1>1. ASSUME d \in Directories
      PROVE  /\ d = [n \in DOMAIN d |-> d[n]] /\ DOMAIN d \subseteq Names
             /\ \A n \in DOMAIN d : d[n] \in Stored
  BY <1>1 DEF Directories
<1>2. ASSUME d = [n \in DOMAIN d |-> d[n]], DOMAIN d \subseteq Names,
             \A n \in DOMAIN d : d[n] \in Stored
      PROVE  d \in Directories
  <2>1. d \in [DOMAIN d -> Stored]
    BY <1>2
  <2> QED
    BY <1>2, <2>1 DEF Directories
<1> QED
  BY <1>1, <1>2

LEMMA PutContents ==
    ASSUME NEW d \in Contents, NEW n \in Files, NEW s \in Syncs
    PROVE  Put(d, n, s) \in Contents
<1>1. d = [m \in DOMAIN d |-> d[m]] /\ DOMAIN d \subseteq Files /\ \A m \in DOMAIN d : d[m] \in Syncs
  BY ContentsAre
<1> DEFINE P == Put(d, n, s)
<1>2. DOMAIN P = DOMAIN d \cup {n} /\ P = [m \in DOMAIN P |-> P[m]]
  BY DEF Put
<1>3. P[n] = s /\ \A m \in DOMAIN d \ {n} : P[m] = d[m]
  BY DEF Put
<1>4. DOMAIN P \subseteq Files /\ \A m \in DOMAIN P : P[m] \in Syncs
  BY <1>1, <1>2, <1>3
<1> HIDE DEF P
<1>5. P \in Contents
  BY <1>2, <1>4, ContentsAre
<1> QED
  BY <1>5 DEF P

\* A file is written into the store.
LEMMA PutDisk ==
    ASSUME DiskTyped, current # Nothing, NEW n \in Names, NEW c \in Stored,
           n \in Files => c \in Syncs, n = ManifestJson => c \in Contents \ {Empty},
           current' = Put(current, n, c), pub' = pub
    PROVE  /\ DiskTyped' /\ current' # Nothing
           /\ Here' = Here \cup {n} /\ current'[n] = c
           /\ \A m \in Here \ {n} : current'[m] = current[m]
<1>1. current \in Directories /\ Here = DOMAIN current
  BY DEF DiskTyped, Here
<1>2. /\ DOMAIN current' = DOMAIN current \cup {n} /\ current'[n] = c
      /\ \A m \in DOMAIN current \ {n} : current'[m] = current[m]
      /\ current' = [m \in DOMAIN current' |-> current'[m]]
  <2> DEFINE P == Put(current, n, c)
  <2>1. /\ DOMAIN P = DOMAIN current \cup {n}
        /\ P[n] = c
        /\ \A m \in DOMAIN current \ {n} : P[m] = current[m]
        /\ P = [m \in DOMAIN P |-> P[m]]
    BY DEF Put
  <2> HIDE DEF P
  <2>2. current' = P
    BY DEF P
  <2> QED
    BY <2>1, <2>2
<1>3. current' \in Directories
  BY <1>1, <1>2, DirectoriesAre
<1>4. current' # Nothing /\ Here' = DOMAIN current'
  BY <1>3, NoDirectory DEF Here
<1> QED
  BY <1>1, <1>2, <1>3, <1>4 DEF DiskTyped

\* A file is removed from it.
LEMMA DropDisk ==
    ASSUME DiskTyped, current # Nothing, NEW n, current' = Drop(current, n), pub' = pub
    PROVE  /\ DiskTyped' /\ current' # Nothing
           /\ Here' = Here \ {n}
           /\ \A m \in Here \ {n} : current'[m] = current[m]
<1>1. current \in Directories /\ Here = DOMAIN current
  BY DEF DiskTyped, Here
<1>2. /\ DOMAIN current' = DOMAIN current \ {n}
      /\ \A m \in DOMAIN current \ {n} : current'[m] = current[m]
      /\ current' = [m \in DOMAIN current' |-> current'[m]]
  BY DEF Drop, Restrict
<1>3. current' \in Directories
  BY <1>1, <1>2, DirectoriesAre
<1>4. current' # Nothing /\ Here' = DOMAIN current'
  BY <1>3, NoDirectory DEF Here
<1> QED
  BY <1>1, <1>2, <1>3, <1>4 DEF DiskTyped

-----------------------------------------------------------------------------
(* Types *)

LEMMA SyncSets == /\ \A s \in Syncs : KeyOf(s) \in Syncs \cup {OpKey}
                  /\ ManifestJson \in Names /\ ManifestSig \in Names
                  /\ ManifestJson \notin Files /\ ManifestSig \notin Files
                  /\ ManifestJson # ManifestSig
                  /\ Files \subseteq Names
                  /\ Syncs \subseteq Stored /\ Contents \subseteq Stored
                  /\ \A k \in Syncs \cup {OpKey}, c \in Contents : <<k, c>> \in Stored
  BY TrustAssumption DEF KeyOf, Names, Stored, ManifestJson, ManifestSig

LEMMA TInvInit == Init => TInv
<1> SUFFICES ASSUME Init PROVE TInv
  OBVIOUS
<1>1. Here = {}
  BY DEF Init, Here
<1>2. DiskTyped
  BY <1>1 DEF DiskTyped, Init
<1>3. SyncTyped
  BY EmptyIs, ItemsAre DEF SyncTyped, Init, SyncSteps, Over
<1>4. Progress
  BY DEF Progress, Init
<1>5. Signed
  BY <1>1 DEF Signed
<1>6. LoadTyped
  BY EmptyIs DEF LoadTyped, Init
<1> QED
  BY <1>2, <1>3, <1>4, <1>5, <1>6 DEF TInv

\* What a run that copies puts into the store.
LEMMA CopyPuts ==
    ASSUME TInv, NEW s \in Syncs, Copy(s), current' # current
    PROVE  \E n \in Files \cap DOMAIN staged[s] \cap DOMAIN staging :
              /\ n = Items[at[s]] /\ staging[n] \in Syncs
              /\ current' = Put(current, n, staging[n])
              /\ at' = [at EXCEPT ![s] = at[s] + 1] /\ sync' = sync
<1>1. staging \in Contents /\ Items[at[s]] \in Files
  BY ItemsAre DEF TInv, SyncTyped, Copy
<1>2. \A n \in DOMAIN staging : staging[n] \in Syncs
  BY <1>1, ContentsAre
<1> QED
  BY <1>1, <1>2 DEF Copy, Set

LEMMA SyncDiskTyped ==
    ASSUME TInv, NEW s \in Syncs, SyncStep(s)
    PROVE  DiskTyped' /\ (current # Nothing => current' # Nothing)
<1>1. CASE current' = current
  <2>1. pub' \in Syncs \cup {OpKey, Nothing}
    BY SyncSets DEF TInv, DiskTyped, SyncStep, StartSync, Download, Confirm, StartApply, Remove,
       Renew, Copy, WriteManifest, WriteSig, Stop, diskVars, Pinned
  <2> QED
    BY <1>1, <2>1 DEF TInv, DiskTyped, Here
<1>2. CASE Remove(s) /\ current' # current
  <2>1. PICK n : n \in Here /\ current' = Drop(current, n) /\ pub' = pub
    BY <1>2 DEF Remove
  <2>2. current # Nothing
    BY <2>1 DEF Here
  <2> QED
    BY <2>1, <2>2, DropDisk DEF TInv
<1>3. CASE Renew(s) /\ current' # current
  <2>1. current' = Empty /\ pub' = pub
    BY <1>3 DEF Renew
  <2>2. current' # Nothing /\ current' \in Directories /\ Here' = {}
    BY <2>1, EmptyIs, NoDirectory DEF Here
  <2> QED
    BY <2>1, <2>2 DEF TInv, DiskTyped
<1>4. CASE Copy(s) /\ current' # current
  <2>1. PICK n \in Files : staging[n] \in Syncs /\ current' = Put(current, n, staging[n])
    BY <1>4, CopyPuts
  <2>2. current # Nothing /\ pub' = pub
    BY <1>4 DEF TInv, Progress, Copy
  <2> QED
    BY <2>1, <2>2, SyncSets, PutDisk DEF TInv
<1>5. CASE WriteManifest(s)
  <2>1. current # Nothing /\ pub' = pub /\ staged[s] \in Contents \ {Empty}
    BY <1>5 DEF TInv, Progress, SyncTyped, WriteManifest
  <2>2. current' = Put(current, ManifestJson, staged[s])
    BY <1>5 DEF WriteManifest, Manifest
  <2> QED
    BY <2>1, <2>2, SyncSets, PutDisk DEF TInv
<1>6. CASE WriteSig(s)
  <2>1. current # Nothing /\ pub' = pub /\ staged[s] \in Contents
    BY <1>6 DEF TInv, Progress, SyncTyped, WriteSig
  <2>2. current' = Put(current, ManifestSig, <<KeyOf(s), staged[s]>>)
    BY <1>6 DEF WriteSig, Manifest
  <2>3. <<KeyOf(s), staged[s]>> \in Stored
    BY <2>1, SyncSets
  <2> QED
    BY <2>1, <2>2, <2>3, SyncSets, PutDisk DEF TInv
<1> QED
  BY <1>1, <1>2, <1>3, <1>4, <1>5, <1>6
     DEF SyncStep, StartSync, Download, Confirm, StartApply, Stop, diskVars

LEMMA SyncSyncTyped ==
    ASSUME TInv, NEW s \in Syncs, SyncStep(s)
    PROVE  SyncTyped'
<1> USE DEF SyncTyped, SyncTo, Set
<1>0. SyncTyped
  BY DEF TInv
<1>1. CASE StartSync(s)
  BY <1>0, <1>1, EmptyIs DEF StartSync, SyncSteps, Over
<1>2. CASE Download(s)
  <2>1. Items[at[s]] \in Files /\ at[s] + 1 \in 1 .. Len(Items) + 1
    BY <1>0, <1>2, ItemsAre DEF Download
  <2>2. /\ Put(staging, Items[at[s]], s) \in Contents
        /\ Put(staged[s], Items[at[s]], s) \in Contents
    BY <1>0, <2>1, PutContents
  <2>3. staging' \in Contents /\ staged' \in [Syncs -> Contents]
    BY <1>0, <1>2, <2>2 DEF Download
  <2> QED
    BY <1>0, <1>2, <2>1, <2>3 DEF Download
<1>3. CASE Confirm(s)
  BY <1>0, <1>3 DEF Confirm, diskVars, SyncSteps
<1>4. CASE StartApply(s)
  <2>1. Here \subseteq Names
    BY DirectoriesAre DEF TInv, DiskTyped, Here
  <2> QED
    BY <1>0, <1>4, <2>1 DEF StartApply, SyncSteps
<1>5. CASE Remove(s)
  BY <1>0, <1>5 DEF Remove, SyncSteps, Over
<1>6. CASE Renew(s)
  <2>1. 1 \in 1 .. Len(Items) + 1
    BY ItemsAre
  <2>2. sync' \in [Syncs -> SyncSteps]
    BY <1>0, <1>6 DEF Renew, SyncSteps, Over
  <2>3. at' \in [Syncs -> 1 .. Len(Items) + 1]
    BY <1>0, <1>6, <2>1 DEF Renew
  <2> QED
    BY <1>0, <1>6, <2>2, <2>3 DEF Renew
<1>7. CASE Copy(s)
  <2>1. at[s] + 1 \in 1 .. Len(Items) + 1
    BY <1>0, <1>7, ItemsAre DEF Copy
  <2>2. \/ at' = at /\ sync' = [sync EXCEPT ![s] = "stopped"]
        \/ at' = [at EXCEPT ![s] = at[s] + 1] /\ sync' = sync
    BY <1>7 DEF Copy
  <2>3. UNCHANGED <<staging, staged, listed, alone>>
    BY <1>7 DEF Copy
  <2> QED
    BY <1>0, <2>1, <2>2, <2>3 DEF SyncSteps, Over
<1>8. CASE WriteManifest(s)
  BY <1>0, <1>8 DEF WriteManifest, SyncSteps
<1>9. CASE WriteSig(s)
  BY <1>0, <1>9 DEF WriteSig, SyncSteps, Over
<1>10. CASE Stop(s)
  BY <1>0, <1>10 DEF Stop, diskVars, SyncSteps, Over
<1> QED
  BY <1>1, <1>2, <1>3, <1>4, <1>5, <1>6, <1>7, <1>8, <1>9, <1>10 DEF SyncStep

\* Which runs a step of run s moves, and what they keep.
LEMMA SyncMoves ==
    ASSUME TInv, NEW s \in Syncs, SyncStep(s)
    PROVE  /\ \A t \in Syncs \ {s} : sync'[t] = sync[t] /\ staged'[t] = staged[t] /\ at'[t] = at[t]
           /\ sync[s] # "download" => staged'[s] = staged[s]
           /\ sync[s] # "done"
           /\ undisturbed' = [l \in Loads |-> FALSE]
           /\ UNCHANGED <<load, toRead, entries, read>>
<1>1. SyncTyped
  BY DEF TInv
<1>2. UNCHANGED <<load, toRead, entries, read>> /\ undisturbed' = [l \in Loads |-> FALSE]
  BY DEF SyncStep, StartSync, Download, Confirm, StartApply, Remove, Renew, Copy,
     WriteManifest, WriteSig, Stop, Disturb
<1>3. /\ sync[s] # "done"
      /\ staged' = staged \/ (sync[s] = "download" /\ \E x : staged' = [staged EXCEPT ![s] = x])
  BY DEF SyncStep, StartSync, Download, Confirm, StartApply, Remove, Renew, Copy,
     WriteManifest, WriteSig, Stop, Set, diskVars, Running, Over
<1>4. sync' = sync \/ \E x : sync' = [sync EXCEPT ![s] = x]
  BY DEF SyncStep, StartSync, Download, Confirm, StartApply, Remove, Renew, Copy,
     WriteManifest, WriteSig, Stop, Set, SyncTo
<1>5. at' = at \/ \E x : at' = [at EXCEPT ![s] = x]
  BY DEF SyncStep, StartSync, Download, Confirm, StartApply, Remove, Renew, Copy,
     WriteManifest, WriteSig, Stop, Set
<1>6. \A t \in Syncs \ {s} : sync'[t] = sync[t]
  BY <1>1, <1>4 DEF SyncTyped
<1>7. \A t \in Syncs \ {s} : at'[t] = at[t]
  BY <1>1, <1>5 DEF SyncTyped
<1>8. \A t \in Syncs \ {s} : staged'[t] = staged[t]
  BY <1>1, <1>3 DEF SyncTyped
<1> QED
  BY <1>2, <1>3, <1>6, <1>7, <1>8

LEMMA SyncProgress ==
    ASSUME TInv, NEW s \in Syncs, SyncStep(s)
    PROVE  Progress'
<1>1. SyncTyped /\ Progress
  BY DEF TInv
<1>2. \A t \in Syncs \ {s} : sync'[t] = sync[t] /\ staged'[t] = staged[t]
  BY SyncMoves
<1>3. current # Nothing => current' # Nothing
  BY SyncDiskTyped
<1>4. sync'[s] # "idle"
  BY <1>1 DEF SyncStep, StartSync, Download, Confirm, StartApply, Remove, Renew, Copy,
     WriteManifest, WriteSig, Stop, SyncTo, Set, SyncTyped, Running, Over
<1>5. sync'[s] \in {"apply", "remove", "copy", "sign", "done"} =>
         /\ staged'[s] = staged[s] /\ staged[s] # Empty
  BY <1>1 DEF SyncStep, StartSync, Download, Confirm, StartApply, Remove, Renew, Copy,
     WriteManifest, WriteSig, Stop, SyncTo, Set, SyncTyped, Progress, Running, Over
<1>6. sync'[s] \in {"copy", "sign", "done"} => sync[s] \in {"copy", "sign"} \/ current' = Empty
  BY <1>1 DEF SyncStep, StartSync, Download, Confirm, StartApply, Remove, Renew, Copy,
     WriteManifest, WriteSig, Stop, SyncTo, Set, SyncTyped, Running, Over
<1>7. sync'[s] \in {"copy", "sign", "done"} => current' # Nothing
  BY <1>1, <1>3, <1>6, EmptyIs, NoDirectory DEF Progress
<1> QED
  BY <1>1, <1>2, <1>3, <1>4, <1>5, <1>7 DEF Progress

\* A signature stays until the store is removed, and its run keeps what it downloaded.
LEMMA SyncSigned ==
    ASSUME TInv, NEW s \in Syncs, SyncStep(s)
    PROVE  Signed'
<1> SUFFICES ASSUME (ManifestSig \in Here)'
             PROVE  (\E t \in Syncs : sync[t] = "done" /\ current[ManifestSig] = <<KeyOf(t), staged[t]>>)'
  BY DEF Signed
<1>1. SyncTyped
  BY DEF TInv
<1>2. CASE WriteSig(s)
  <2>1. current # Nothing /\ staged'[s] = staged[s] /\ sync'[s] = "done"
    BY <1>1, <1>2 DEF TInv, Progress, WriteSig, SyncTo, Set, SyncTyped
  <2>2. current'[ManifestSig] = <<KeyOf(s), staged[s]>>
    BY <1>2 DEF WriteSig, Manifest, Put
  <2>3. KeyOf(s)' = KeyOf(s)
    BY DEF KeyOf
  <2> QED
    BY <2>1, <2>2, <2>3
<1>3. CASE ~ WriteSig(s)
  <2>1. ManifestSig \in Here /\ current'[ManifestSig] = current[ManifestSig]
    <3>1. CASE current' = current
      BY <3>1 DEF Here
    <3>2. CASE Remove(s) /\ current' # current
      <4>1. PICK n : n \in Here /\ current' = Drop(current, n) /\ pub' = pub
        BY <3>2 DEF Remove
      <4>2. current # Nothing
        BY <4>1 DEF Here
      <4> QED
        BY <4>1, <4>2, DropDisk DEF TInv
    <3>3. CASE Renew(s) /\ current' # current
      BY <3>3, EmptyIs DEF Renew, Here
    <3>4. CASE Copy(s) /\ current' # current
      <4>1. PICK n \in Files : staging[n] \in Syncs /\ current' = Put(current, n, staging[n])
        BY <3>4, CopyPuts
      <4>2. current # Nothing /\ pub' = pub
        BY <3>4 DEF TInv, Progress, Copy
      <4> QED
        BY <4>1, <4>2, SyncSets, PutDisk DEF TInv
    <3>5. CASE WriteManifest(s)
      <4>1. current # Nothing /\ pub' = pub /\ staged[s] \in Contents \ {Empty}
        BY <3>5 DEF TInv, Progress, SyncTyped, WriteManifest
      <4>2. current' = Put(current, ManifestJson, staged[s])
        BY <3>5 DEF WriteManifest, Manifest
      <4> QED
        BY <4>1, <4>2, SyncSets, PutDisk DEF TInv
    <3> QED
      BY <1>3, <3>1, <3>2, <3>3, <3>4, <3>5
         DEF SyncStep, StartSync, Download, Confirm, StartApply, Stop, diskVars
  <2>2. PICK t \in Syncs : sync[t] = "done" /\ current[ManifestSig] = <<KeyOf(t), staged[t]>>
    BY <2>1 DEF TInv, Signed
  <2>3. t # s /\ sync'[t] = "done" /\ staged'[t] = staged[t] /\ KeyOf(t)' = KeyOf(t)
    BY <2>2, SyncMoves DEF KeyOf
  <2> QED
    BY <2>1, <2>2, <2>3
<1> QED
  BY <1>2, <1>3

LEMMA LoadTInv ==
    ASSUME TInv, NEW l \in Loads, LoadStep(l)
    PROVE  TInv' /\ UNCHANGED <<diskVars, syncVars>>
<1>1. UNCHANGED <<diskVars, syncVars>>
  BY DEF LoadStep, StartLoad, ReadEntry, ReadManifest, CheckSig, CheckHash, CheckStrangers
<1>2. Here' = Here
  BY <1>1 DEF Here, diskVars
<1>3. DiskTyped' /\ SyncTyped' /\ Progress'
  BY <1>1, <1>2 DEF TInv, DiskTyped, SyncTyped, Progress, diskVars, syncVars
<1>4. Signed'
  BY <1>1, <1>2 DEF TInv, Signed, KeyOf, diskVars, syncVars
<1>5. LoadTyped'
  <2> USE DEF LoadTyped, LoadTo, Set
  <2>0. LoadTyped
    BY DEF TInv
  <2>1. CASE StartLoad(l)
    BY <2>0, <2>1 DEF StartLoad
  <2>2. CASE ReadEntry(l)
    <3>1. PICK n \in toRead[l] :
             /\ toRead' = [toRead EXCEPT ![l] = toRead[l] \ {n}]
             /\ IF n \in Here THEN entries' = [entries EXCEPT ![l] = Put(entries[l], n, current[n])]
                ELSE entries' = entries
      BY <2>2 DEF ReadEntry
    <3>2. n \in Here => Put(entries[l], n, current[n]) \in Contents
      BY <2>0, PutContents DEF TInv, DiskTyped
    <3>3. toRead' \in [Loads -> SUBSET Files]
      BY <2>0, <3>1
    <3>4. entries' \in [Loads -> Contents]
      BY <2>0, <3>1, <3>2
    <3>5. \A k \in Loads : load[k] = "idle" => entries'[k] = entries[k]
      BY <2>0, <2>2, <3>1 DEF ReadEntry
    <3>6. UNCHANGED <<load, read, undisturbed>>
      BY <2>2 DEF ReadEntry
    <3> QED
      BY <2>0, <3>3, <3>4, <3>5, <3>6
  <2>3. CASE ReadManifest(l)
    BY <2>0, <2>3 DEF ReadManifest, TInv, DiskTyped
  <2>4. CASE CheckSig(l)
    <3>1. load[l] = "sig" /\ DOMAIN read[l] \subseteq Files
      BY <2>0, <2>4, ContentsAre DEF CheckSig
    <3> QED
      BY <2>0, <2>4, <3>1 DEF CheckSig
  <2>5. CASE CheckHash(l)
    BY <2>0, <2>5 DEF CheckHash
  <2>6. CASE CheckStrangers(l)
    BY <2>0, <2>6 DEF CheckStrangers
  <2> QED
    BY <2>1, <2>2, <2>3, <2>4, <2>5, <2>6 DEF LoadStep
<1> QED
  BY <1>1, <1>3, <1>4, <1>5 DEF TInv

LEMMA SyncTInv ==
    ASSUME TInv, NEW s \in Syncs, SyncStep(s)
    PROVE  TInv'
<1>1. LoadTyped'
  BY SyncMoves DEF TInv, LoadTyped
<1> QED
  BY <1>1, SyncDiskTyped, SyncSyncTyped, SyncProgress, SyncSigned DEF TInv

LEMMA TInvStutter == TInv /\ UNCHANGED vars => TInv'
  BY DEF TInv, DiskTyped, SyncTyped, Progress, Signed, KeyOf, LoadTyped, Here,
     vars, diskVars, syncVars, loadVars

LEMMA TInvNext == TInv /\ [Next]_vars => TInv'
  BY SyncTInv, LoadTInv, TInvStutter DEF Next

LEMMA TInvAlways == Spec => []TInv
  BY TInvInit, TInvNext, PTL DEF Spec

LEMMA TInvTypes == TInv => TypeOK
<1> SUFFICES ASSUME TInv PROVE TypeOK
  OBVIOUS
<1>1. current # Nothing => DOMAIN current \subseteq Names
  BY DirectoriesAre DEF TInv, DiskTyped
<1> QED
  BY <1>1 DEF TInv, DiskTyped, SyncTyped, LoadTyped, SyncSteps, TypeOK

(***************************************************************************)
(* Whatever runs overlap, and wherever they stop, every directory, key and *)
(* step is one the program can be in (run, apply_store, load).             *)
(***************************************************************************)
THEOREM TypeCorrect == Spec => []TypeOK
  BY TInvAlways, TInvTypes, PTL

\* A store that verifies is the download that its signature is of.
LEMMA VerifiedIsOne == TInv => VerifiedStoreIsOneDownload
<1> SUFFICES ASSUME TInv, Verifies
             PROVE  \E s \in Syncs : /\ StoredFiles = staged[s]
                                     /\ pub = KeyOf(s)
                                     /\ sync[s] = "done"
  BY DEF VerifiedStoreIsOneDownload
<1> DEFINE m == current[ManifestJson]
<1>1. /\ ManifestSig \in Here /\ current[ManifestSig] = <<pub, m>>
      /\ \A n \in DOMAIN m : n \in Here /\ current[n] = m[n]
      /\ Here \cap Files \subseteq DOMAIN m
      /\ m \in Contents
  BY DEF Verifies, SigValid, HashMatches, NoStranger, TInv, DiskTyped
<1>2. PICK s \in Syncs : sync[s] = "done" /\ current[ManifestSig] = <<KeyOf(s), staged[s]>>
  BY <1>1 DEF TInv, Signed
<1>3. pub = KeyOf(s) /\ m = staged[s]
  BY <1>1, <1>2
<1>4. m = [n \in DOMAIN m |-> m[n]] /\ DOMAIN m \subseteq Files
  BY <1>1, ContentsAre
<1>5. DOMAIN m = Here \cap Files
  BY <1>1, <1>4
<1>6. StoredFiles = [n \in Here \cap Files |-> current[n]]
  BY DEF StoredFiles, Restrict, Here
<1>7. StoredFiles = m
  BY <1>1, <1>4, <1>5, <1>6
<1> QED
  BY <1>2, <1>3, <1>7

(***************************************************************************)
(* However many runs overlap, a store that verifies is one whole download  *)
(* of a run that ended and has the pinned key (apply_store,                *)
(* _verify_file_hashes).                                                   *)
(***************************************************************************)
THEOREM VerifiedStore == Spec => []VerifiedStoreIsOneDownload
  BY TInvAlways, VerifiedIsOne, PTL

-----------------------------------------------------------------------------
(* A run alone *)

LEMMA LoneInit == Init => LoneRuns
  BY DEF Init, LoneRuns

\* The step of a run that is alone.
LEMMA LoneStep ==
    ASSUME TInv, NEW s \in Syncs, SyncStep(s), alone'[s],
           ~StartSync(s) => alone[s] /\ LoneRun(s)
    PROVE  LoneRun(s)'
<1>0. /\ sync \in [Syncs -> SyncSteps] /\ staged \in [Syncs -> Contents]
      /\ at \in [Syncs -> 1 .. Len(Items) + 1] /\ alone \in [Syncs -> BOOLEAN]
  BY DEF TInv, SyncTyped
<1>1. \A t \in Syncs \ {s} : sync'[t] = sync[t]
  BY SyncMoves
<1>2. KeyOf(s)' = KeyOf(s)
  BY DEF KeyOf
<1>3. CASE StartSync(s)
  <2>1. sync'[s] = "download" /\ staging' = Empty /\ staged' = staged /\ staged[s] = Empty
    BY <1>0, <1>3 DEF StartSync, SyncTo, Set, TInv, Progress
  <2>2. \A t \in Syncs \ {s} : ~Running(t)'
    BY <1>0, <1>1, <1>3 DEF StartSync, Running
  <2> QED
    BY <2>1, <2>2 DEF LoneRun
<1> SUFFICES ASSUME ~StartSync(s) PROVE LoneRun(s)'
  BY <1>3
<1>4. LoneRun(s)
  OBVIOUS
<1>5. \A t \in Syncs \ {s} : ~Running(t)'
  BY <1>1, <1>4 DEF LoneRun, Running
<1>6. CASE Download(s)
  <2>1. \/ staging' = staging /\ staged' = staged
        \/ /\ staging' = Put(staging, Items[at[s]], s)
           /\ staged' = [staged EXCEPT ![s] = Put(staged[s], Items[at[s]], s)]
    BY <1>6 DEF Download, Set
  <2>2. staging' = staged'[s] /\ sync'[s] = "download"
    BY <1>0, <1>4, <1>6, <2>1 DEF LoneRun, Download
  <2> QED
    BY <1>5, <2>2 DEF LoneRun
<1>7. CASE Confirm(s)
  <2>1. staging' = staging /\ staged' = staged /\ sync'[s] = "apply" /\ sync[s] = "download"
    BY <1>0, <1>7 DEF Confirm, SyncTo, Set, diskVars
  <2> QED
    BY <1>4, <1>5, <2>1 DEF LoneRun
<1>8. CASE StartApply(s)
  <2>1. /\ staging' = staging /\ staged' = staged /\ pub' = KeyOf(s)
        /\ sync'[s] = "remove" /\ sync[s] = "apply"
    BY <1>0, <1>8 DEF StartApply, Pinned, SyncTo, Set
  <2> QED
    BY <1>2, <1>4, <1>5, <2>1 DEF LoneRun
<1>9. CASE Remove(s)
  <2>1. /\ staging' = staging /\ staged' = staged /\ pub' = pub
        /\ sync'[s] \in {"remove", "stopped"} /\ sync[s] = "remove"
    BY <1>0, <1>9 DEF Remove, SyncTo, Set
  <2> QED
    BY <1>2, <1>4, <1>5, <2>1 DEF LoneRun
<1>10. CASE Renew(s)
  <2>1. /\ staging' = staging /\ staged' = staged /\ pub' = pub /\ sync[s] = "remove"
        /\ \/ sync'[s] = "stopped"
           \/ sync'[s] = "copy" /\ current' = Empty /\ at'[s] = 1
    BY <1>0, <1>10 DEF Renew, SyncTo, Set
  <2>2. current' = Empty => Here' = {}
    BY EmptyIs DEF Here
  <2> QED
    BY <1>2, <1>4, <1>5, <2>1, <2>2 DEF LoneRun, Agrees
<1>11. CASE Copy(s)
  <2>1. /\ staging' = staging /\ staged' = staged /\ pub' = pub /\ sync[s] = "copy"
        /\ staging = staged[s] /\ pub = KeyOf(s)
    BY <1>4, <1>11 DEF Copy, LoneRun
  <2>2. CASE sync'[s] = "stopped"
    BY <1>5, <2>2 DEF LoneRun
  <2>3. CASE sync' = sync /\ current' = current /\ Items[at[s]] \notin DOMAIN staged[s]
    <3>1. at'[s] = at[s] + 1 /\ at[s] \in Nat
      BY <1>0, <1>11, <2>1, <2>3 DEF Copy, Set
    <3>2. Here' = Here
      BY <2>3 DEF Here
    <3>3. \A i \in 1 .. at'[s] - 1 : i \in 1 .. at[s] - 1 \/ i = at[s]
      BY <3>1
    <3> QED
      BY <1>2, <1>4, <1>5, <2>1, <2>3, <3>2, <3>3 DEF LoneRun, Agrees
  <2>4. CASE sync' = sync /\ current' # current
    <3>1. PICK n \in Files \cap DOMAIN staged[s] :
             /\ n = Items[at[s]] /\ staging[n] \in Syncs
             /\ current' = Put(current, n, staging[n])
             /\ at' = [at EXCEPT ![s] = at[s] + 1]
      BY <1>11, <2>4, CopyPuts
    <3>2. current # Nothing
      BY <2>1 DEF TInv, Progress
    <3>3. /\ Here' = Here \cup {n} /\ current'[n] = staged[s][n]
          /\ \A k \in Here \ {n} : current'[k] = current[k]
      BY <2>1, <3>1, <3>2, SyncSets, PutDisk DEF TInv
    <3>4. at'[s] = at[s] + 1 /\ at[s] \in Nat
      BY <1>0, <3>1
    <3>5. \A i \in 1 .. at'[s] - 1 : i \in 1 .. at[s] - 1 \/ i = at[s]
      BY <3>4
    <3>6. Agrees(s)'
      BY <1>4, <2>1, <3>1, <3>3 DEF LoneRun, Agrees
    <3>7. \A i \in 1 .. at'[s] - 1 : Items[i] \in DOMAIN staged'[s] => Items[i] \in Here'
      BY <1>4, <2>1, <3>1, <3>3, <3>5 DEF LoneRun
    <3> QED
      BY <1>2, <1>4, <1>5, <2>1, <2>4, <3>6, <3>7 DEF LoneRun
  <2>5. CASE sync' = sync /\ current' = current /\ Items[at[s]] \in DOMAIN staged[s]
    <3>1. at'[s] = at[s] + 1 /\ at[s] \in Nat /\ Items[at[s]] \in DOMAIN staging
          /\ current = Put(current, Items[at[s]], staging[Items[at[s]]])
      BY <1>0, <1>11, <2>1, <2>5 DEF Copy, Set, SyncTo, SyncSteps
    <3>2. Items[at[s]] \in Here /\ Here' = Here
      BY <2>1, <2>5, <3>1 DEF Here, Put, TInv, Progress
    <3>3. \A i \in 1 .. at'[s] - 1 : i \in 1 .. at[s] - 1 \/ i = at[s]
      BY <3>1
    <3> QED
      BY <1>2, <1>4, <1>5, <2>1, <2>5, <3>2, <3>3 DEF LoneRun, Agrees
  <2> QED
    BY <1>0, <1>11, <2>2, <2>3, <2>4, <2>5 DEF Copy, SyncTo, Set
<1>12. CASE WriteManifest(s)
  <2>1. /\ staged' = staged /\ pub' = pub /\ sync[s] = "copy" /\ sync'[s] = "sign"
        /\ current' = Put(current, ManifestJson, staged[s])
        /\ current # Nothing /\ staged[s] \in Contents \ {Empty}
    BY <1>0, <1>12 DEF WriteManifest, Manifest, SyncTo, Set, TInv, Progress
  <2>2. /\ Here' = Here \cup {ManifestJson} /\ current'[ManifestJson] = staged[s]
        /\ \A k \in Here \ {ManifestJson} : current'[k] = current[k]
    BY <2>1, SyncSets, PutDisk DEF TInv
  <2>3. at[s] - 1 = Len(Items)
    BY <1>0, <1>12, ItemsAre DEF WriteManifest
  <2>4. \A n \in DOMAIN staged[s] : n \in Here
    <3> SUFFICES ASSUME NEW n \in DOMAIN staged[s] PROVE n \in Here
      OBVIOUS
    <3>1. PICK i \in DOMAIN Items : n = Items[i]
      BY <2>1, ContentsAre DEF Files
    <3> QED
      BY <1>4, <2>1, <2>3, <3>1, ItemsAre DEF LoneRun
  <2>5. Agrees(s)'
    BY <1>4, <2>1, <2>2, SyncSets DEF LoneRun, Agrees
  <2> QED
    BY <1>2, <1>4, <1>5, <2>1, <2>2, <2>4, <2>5 DEF LoneRun
<1>13. CASE WriteSig(s)
  <2>1. /\ staged' = staged /\ pub' = pub /\ sync[s] = "sign" /\ sync'[s] = "done"
        /\ current' = Put(current, ManifestSig, <<KeyOf(s), staged[s]>>)
        /\ current # Nothing /\ staged[s] \in Contents
    BY <1>0, <1>13 DEF WriteSig, Manifest, SyncTo, Set, TInv, Progress
  <2>2. <<KeyOf(s), staged[s]>> \in Stored
    BY <2>1, SyncSets
  <2>3. /\ Here' = Here \cup {ManifestSig} /\ current'[ManifestSig] = <<KeyOf(s), staged[s]>>
        /\ \A k \in Here \ {ManifestSig} : current'[k] = current[k]
    BY <2>1, <2>2, SyncSets, PutDisk DEF TInv
  <2>4. Agrees(s)'
    BY <1>4, <2>1, <2>3, SyncSets DEF LoneRun, Agrees
  <2>5. current'[ManifestJson] = staged[s] /\ pub = KeyOf(s)
    BY <1>4, <2>1, <2>3, SyncSets DEF LoneRun
  <2> QED
    BY <1>2, <1>4, <1>5, <2>1, <2>3, <2>4, <2>5 DEF LoneRun
<1>14. CASE Stop(s)
  <2>1. sync'[s] = "stopped"
    BY <1>0, <1>14 DEF Stop, SyncTo, Set
  <2> QED
    BY <1>5, <2>1 DEF LoneRun
<1> QED
  BY <1>6, <1>7, <1>8, <1>9, <1>10, <1>11, <1>12, <1>13, <1>14 DEF SyncStep

\* No other run steps beside one that is alone, but for one that starts.
LEMMA LoneSync ==
    ASSUME TInv, LoneRuns, NEW s \in Syncs, SyncStep(s)
    PROVE  LoneRuns'
<1>0. sync \in [Syncs -> SyncSteps] /\ alone \in [Syncs -> BOOLEAN]
  BY DEF TInv, SyncTyped
<1> SUFFICES ASSUME NEW t \in Syncs, alone'[t] PROVE LoneRun(t)'
  BY DEF LoneRuns
<1>1. ~StartSync(s) => alone' = alone
  BY DEF SyncStep, Download, Confirm, StartApply, Remove, Renew, Copy, WriteManifest,
     WriteSig, Stop
<1>2. CASE t # s
  <2>1. StartSync(s) => ~alone'[t]
    BY <1>2 DEF StartSync
  <2>2. ~StartSync(s) => Running(s)
    BY DEF SyncStep, Download, Confirm, StartApply, Remove, Renew, Copy, WriteManifest,
       WriteSig, Stop, Running, Over
  <2> QED
    BY <1>1, <1>2, <2>1, <2>2 DEF LoneRuns, LoneRun
<1>3. CASE t = s
  BY <1>1, <1>3, LoneStep DEF LoneRuns
<1> QED
  BY <1>2, <1>3

LEMMA LoneKept == LoneRuns /\ UNCHANGED <<diskVars, syncVars>> => LoneRuns'
  BY DEF LoneRuns, LoneRun, Agrees, Running, Here, KeyOf, diskVars, syncVars

LEMMA LoneNext == TInv /\ LoneRuns /\ [Next]_vars => LoneRuns'
  BY LoneSync, LoadTInv, LoneKept DEF Next, vars

LEMMA LoneVerifies == TInv /\ LoneRuns => LoneSyncVerifies
<1> SUFFICES ASSUME TInv, LoneRuns, NEW s \in Syncs, sync[s] = "done", alone[s]
             PROVE  Verifies /\ StoredFiles = staged[s]
  BY DEF LoneSyncVerifies
<1>1. /\ DOMAIN staged[s] \cup {ManifestJson, ManifestSig} \subseteq Here
      /\ current[ManifestJson] = staged[s] /\ current[ManifestSig] = <<pub, staged[s]>>
      /\ pub = KeyOf(s) /\ Agrees(s)
  BY DEF LoneRuns, LoneRun
<1>2. staged[s] = [n \in DOMAIN staged[s] |-> staged[s][n]] /\ DOMAIN staged[s] \subseteq Files
  BY ContentsAre DEF TInv, SyncTyped
<1>3. pub # Nothing
  BY <1>1, SyncSets, TrustAssumption
<1>4. DOMAIN staged[s] = Here \cap Files
  BY <1>1, <1>2 DEF Agrees
<1>5. Verifies
  BY <1>1, <1>3, <1>4 DEF Verifies, SigValid, HashMatches, NoStranger, Agrees
<1>6. StoredFiles = [n \in Here \cap Files |-> current[n]]
  BY DEF StoredFiles, Restrict, Here
<1>7. StoredFiles = staged[s]
  BY <1>1, <1>2, <1>4, <1>6 DEF Agrees
<1> QED
  BY <1>5, <1>7

(***************************************************************************)
(* A run that said it was done, with no other beside it or since, left a   *)
(* store that verifies and holds what it downloaded (apply_store 294-318). *)
(***************************************************************************)
THEOREM LoneSyncIsGood == Spec => []LoneSyncVerifies
<1>1. Spec => []LoneRuns
  BY LoneInit, LoneNext, TInvAlways, PTL DEF Spec
<1> QED
  BY <1>1, LoneVerifies, TInvAlways, PTL

-----------------------------------------------------------------------------
(* A load that no run disturbs *)

LEMMA QuietInit == Init => QuietLoads
  BY DEF Init, QuietLoads

LEMMA QuietSync ==
    ASSUME TInv, NEW s \in Syncs, SyncStep(s)
    PROVE  QuietLoads'
  BY SyncMoves DEF QuietLoads

LEMMA QuietLoadStep ==
    ASSUME TInv, NEW l \in Loads, LoadStep(l), undisturbed'[l],
           ~StartLoad(l) => QuietLoad(l)
    PROVE  QuietLoad(l)'
<1>0. /\ LoadTyped
      /\ load \in [Loads -> {"idle", "read", "sig", "hash", "verified", "unverified"}]
      /\ toRead \in [Loads -> SUBSET Files] /\ entries \in [Loads -> Contents]
      /\ DOMAIN read = Loads /\ current' = current /\ pub' = pub
  BY LoadTInv DEF TInv, LoadTyped, diskVars
<1>1. Here' = Here
  BY <1>0 DEF Here
<1>2. CASE StartLoad(l)
  <2>1. entries' = entries /\ toRead'[l] = Here \cap Files /\ entries[l] = Empty
    BY <1>0, <1>2 DEF StartLoad, Set, LoadTyped
  <2>2. load'[l] \in {"read", "unverified"}
    BY <1>0, <1>2 DEF StartLoad, LoadTo, Set
  <2> QED
    BY <1>1, <2>1, <2>2, EmptyIs DEF QuietLoad
<1> SUFFICES ASSUME ~StartLoad(l) PROVE QuietLoad(l)'
  BY <1>2
<1>3. QuietLoad(l)
  OBVIOUS
<1>4. CASE ReadEntry(l)
  <2>1. PICK n \in toRead[l] :
           /\ toRead' = [toRead EXCEPT ![l] = toRead[l] \ {n}]
           /\ IF n \in Here THEN entries' = [entries EXCEPT ![l] = Put(entries[l], n, current[n])]
              ELSE entries' = entries
    BY <1>4 DEF ReadEntry, Set
  <2>2. load' = load /\ read' = read /\ load[l] = "read"
    BY <1>4 DEF ReadEntry
  <2>3. n \in Here
    BY <1>3, <2>1, <2>2 DEF QuietLoad
  <2>4. /\ entries'[l] = Put(entries[l], n, current[n]) /\ toRead'[l] = toRead[l] \ {n}
    BY <1>0, <2>1, <2>3
  <2>5. /\ DOMAIN entries'[l] = DOMAIN entries[l] \cup {n}
        /\ \A k \in DOMAIN entries'[l] :
              entries'[l][k] = IF k = n THEN current[n] ELSE entries[l][k]
    BY <2>4 DEF Put
  <2> QED
    BY <1>0, <1>1, <1>3, <2>1, <2>2, <2>4, <2>5 DEF QuietLoad
<1>5. CASE ReadManifest(l)
  <2>1. entries' = entries /\ toRead' = toRead /\ load[l] = "read" /\ toRead[l] = {}
    BY <1>5 DEF ReadManifest
  <2>2. load'[l] \in {"sig", "unverified"}
    BY <1>0, <1>5 DEF ReadManifest, LoadTo, Set
  <2> QED
    BY <1>0, <1>1, <1>3, <2>1, <2>2 DEF QuietLoad
<1>6. CASE CheckSig(l)
  <2>1. entries' = entries /\ read' = read /\ load[l] = "sig"
    BY <1>6 DEF CheckSig
  <2>2. \/ load'[l] = "hash" /\ toRead'[l] = DOMAIN read[l]
        \/ load'[l] = "unverified"
    BY <1>0, <1>6 DEF CheckSig, LoadTo, Set
  <2> QED
    BY <1>0, <1>1, <1>3, <2>1, <2>2 DEF QuietLoad
<1>7. CASE CheckHash(l)
  <2>1. entries' = entries /\ read' = read /\ load[l] = "hash"
    BY <1>7 DEF CheckHash
  <2>2. \/ /\ load' = load
           /\ \E n \in toRead[l] : toRead'[l] = toRead[l] \ {n} /\ HashMatches(read[l], n)
        \/ load'[l] = "unverified"
    BY <1>0, <1>7 DEF CheckHash, LoadTo, Set
  <2> QED
    BY <1>0, <1>1, <1>3, <2>1, <2>2 DEF QuietLoad, HashMatches
<1>8. CASE CheckStrangers(l)
  <2>1. entries' = entries /\ read' = read /\ load[l] = "hash" /\ toRead[l] = {}
    BY <1>8 DEF CheckStrangers
  <2>2. CASE load'[l] = "unverified"
    BY <2>2 DEF QuietLoad
  <2>3. CASE load'[l] = "verified" /\ NoStranger(read[l])
    <3>1. read[l] \in Contents /\ entries[l] \in Contents
      BY <1>0, <2>1 DEF LoadTyped
    <3>2. /\ read[l] = [n \in DOMAIN read[l] |-> read[l][n]] /\ DOMAIN read[l] \subseteq Files
          /\ entries[l] = [n \in DOMAIN entries[l] |-> entries[l][n]]
      BY <3>1, ContentsAre
    <3>3. \A n \in DOMAIN read[l] : n \in Here /\ current[n] = read[l][n]
      BY <1>3, <2>1 DEF QuietLoad, HashMatches
    <3>4. DOMAIN entries[l] = Here \cap Files /\ \A n \in DOMAIN entries[l] : entries[l][n] = current[n]
      BY <1>3, <2>1 DEF QuietLoad
    <3>5. DOMAIN read[l] = DOMAIN entries[l]
      BY <2>3, <3>2, <3>3, <3>4 DEF NoStranger
    <3>6. entries[l] = read[l]
      BY <3>2, <3>3, <3>4, <3>5
    <3> QED
      BY <2>1, <2>3, <3>6 DEF QuietLoad
  <2> QED
    BY <1>0, <1>8, <2>2, <2>3 DEF CheckStrangers, LoadTo, Set
<1> QED
  BY <1>4, <1>5, <1>6, <1>7, <1>8 DEF LoadStep

LEMMA QuietLoadSteps ==
    ASSUME TInv, QuietLoads, NEW l \in Loads, LoadStep(l)
    PROVE  QuietLoads'
<1> SUFFICES ASSUME NEW k \in Loads, undisturbed'[k] PROVE QuietLoad(k)'
  BY DEF QuietLoads
<1>0. LoadTyped /\ UNCHANGED <<diskVars, syncVars>>
  BY LoadTInv DEF TInv
<1>1. ~StartLoad(l) => undisturbed' = undisturbed
  BY DEF LoadStep, ReadEntry, ReadManifest, CheckSig, CheckHash, CheckStrangers
<1>2. CASE k # l
  <2>1. /\ load'[k] = load[k] /\ toRead'[k] = toRead[k] /\ entries'[k] = entries[k]
        /\ undisturbed'[k] = undisturbed[k]
    BY <1>0, <1>2 DEF LoadStep, StartLoad, ReadEntry, ReadManifest, CheckSig, CheckHash,
       CheckStrangers, LoadTo, Set, LoadTyped
  <2>2. read'[k] = read[k]
    BY <1>0, <1>2 DEF LoadStep, StartLoad, ReadEntry, ReadManifest, CheckSig, CheckHash,
       CheckStrangers, Set, LoadTyped
  <2>3. QuietLoad(k) /\ Here' = Here /\ current' = current
    BY <1>0, <2>1 DEF QuietLoads, Here, diskVars
  <2> QED
    BY <2>1, <2>2, <2>3 DEF QuietLoad, HashMatches
<1>3. CASE k = l
  BY <1>1, <1>3, QuietLoadStep DEF QuietLoads
<1> QED
  BY <1>2, <1>3

LEMMA QuietStutter == QuietLoads /\ UNCHANGED vars => QuietLoads'
  BY DEF QuietLoads, QuietLoad, HashMatches, Here, vars, diskVars, loadVars

LEMMA QuietNext == TInv /\ QuietLoads /\ [Next]_vars => QuietLoads'
  BY QuietSync, QuietLoadSteps, QuietStutter DEF Next

LEMMA QuietIsSigned == QuietLoads => VerifiedLoadIsSigned
  BY DEF QuietLoads, QuietLoad, VerifiedLoadIsSigned

(***************************************************************************)
(* A load that no run disturbed and that says "verified" trusts exactly    *)
(* what the signed manifest lists, whatever was on disk when it began      *)
(* (store.py 310-345, 420-448).                                            *)
(***************************************************************************)
THEOREM VerifiedLoad == Spec => []VerifiedLoadIsSigned
<1>1. Spec => []QuietLoads
  BY QuietInit, QuietNext, TInvAlways, PTL DEF Spec
<1> QED
  BY <1>1, QuietIsSigned, PTL
=============================================================================
