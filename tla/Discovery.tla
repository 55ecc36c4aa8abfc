------------------------------- MODULE Discovery -------------------------------
(***************************************************************************)
(* core/discovery.py over core/intel.py and the platform adapters:         *)
(* discover() searches in four tiers for PKCS#11 modules, merges what      *)
(* names the same file, and may answer from a cache on disk.               *)
(*                                                                         *)
(* Processes scan at the same time and share nothing but the file system:  *)
(* the libraries, which may be installed and removed between two steps,    *)
(* and the cache.  Every name looked up and every file probed is a step.   *)
(***************************************************************************)
EXTENDS Naturals, Integers, Sequences, FiniteSets, SequencesExt, Platform

CONSTANTS Procs,      \* command lines and requests of the daemon
          Uses,       \* [Procs -> SUBSET Options]: how each calls discover()
          Files,      \* library files, after resolving links
          Names, Real,  \* paths, and [Names -> Files]
          Slices,     \* [Files -> SUBSET Arches]
          Health,     \* [Files -> good, empty, dead, junk]: what C_GetInfo does
          Proxies,    \* files of p11-kit-proxy
          Machines,   \* hosts considered
          Installed,  \* sets of files considered at the start
          Software,   \* what is installed: a sequence of Products
          Configured, \* what the user names: a sequence of Settings
          IntelDocs,  \* vendor_intel.yaml, then its overrides: sequences of Entries
          Globbed,    \* files the patterns of the fourth tier match
          MaxProbe,   \* MAX_PROBE
          Ttl,        \* cache_ttl
          MaxTime,    \* bound on the clock
          MaxChanges  \* bound on installations and removals

\* force_scan, deep and use_cache: --force-scan leaves the cache alone, and the daemon
\* wants none of them.
Options == {o \in [deep : BOOLEAN, force : BOOLEAN, cached : BOOLEAN] : o.force => ~o.cached}
NoOptions == [deep |-> FALSE, force |-> FALSE, cached |-> FALSE]

Products == [how : STRING, ca : BOOLEAN, installed : BOOLEAN, names : Seq(Names)]
Settings == [how : STRING, comment : BOOLEAN, absolute : BOOLEAN, name : Names]
Entries == [id : STRING, os : Systems \cup {"any"}, names : Seq(Names), track : {"A", "B"},
            confidence : {"confirmed", "documented", "hypothesis"}, chip : STRING, ca : STRING]

ASSUME DiscoveryAssumption ==
    /\ Real \in [Names -> Files] /\ Slices \in [Files -> SUBSET Arches]
    /\ Health \in [Files -> {"good", "empty", "dead", "junk"}]
    /\ Proxies \cup Globbed \subseteq Files /\ Installed \subseteq SUBSET Files
    /\ Software \in Seq(Products) /\ Configured \in Seq(Settings) /\ IntelDocs \in Seq(Seq(Entries))
    /\ Uses \in [Procs -> SUBSET Options] /\ Machines \subseteq Hosts /\ {MaxProbe, Ttl, MaxTime, MaxChanges} \subseteq Nat

VARIABLES
    host,     \* the machine
    files,    \* the files that are there
    changes,  \* installations and removals so far
    clock,
    cache,    \* discovery_cache.json
    scan,     \* [Procs -> the state of its discover()]
    written,  \* history: the caches written whole
    present   \* history: [Procs -> files there all along, or at some time]

world == <<host, files, changes, clock>>
discVars == <<world, cache, scan, written, present>>

-----------------------------------------------------------------------------
(* The golden table: core/intel.py *)

\* display_hint: whose library it is, as far as its track tells.
NoHint == ""
Hint(e) == IF e.track = "A" THEN e.chip ELSE e.ca

\* _parse_entry: an entry says whose library it is, and no name of a file may be a guess.
Accepted(e) == Hint(e) # NoHint /\ ~(e.confidence = "hypothesis" /\ e.names # <<>>)

Score(e) == CASE e.confidence = "confirmed" -> 98 [] e.confidence = "documented" -> 90 [] OTHER -> 30

\* load_intel: an entry stands where its id came first, and says what came last.
Intel ==
    LET read == Kept(FlattenSeq(IntelDocs), Accepted)
        same(i) == {j \in DOMAIN read : read[j].id = read[i].id}
    IN  FlattenSeq([i \in DOMAIN read |->
            IF \A j \in same(i) : i <= j THEN <<read[Max(same(i))]>> ELSE <<>>])

\* filter: the entries for a system.
For(os) == Kept(Intel, LAMBDA e : e.os \in {os, "any"})

\* name_index: the last entry that names the file.
Indexed(os, n) ==
    LET known == {i \in DOMAIN For(os) : n \in Range(For(os)[i].names)}
        last == For(os)[Max(known)]
    IN  IF known = {} THEN [track |-> "A", hint |-> NoHint]
        ELSE [track |-> last.track, hint |-> Hint(last)]

-----------------------------------------------------------------------------
(* _Collector *)

\* What a tier says of a file.
Said(file, tier, source, track, hint, confidence, label) ==
    [file |-> file, tier |-> tier, source |-> source, track |-> track, hint |-> hint,
     confidence |-> confidence, label |-> label, validated |-> tier = 4, bridge |-> FALSE]

\* Bug: the best source is the last one.
Merged_Last(old, new) == [new EXCEPT !.validated = old.validated \/ new.validated]

\* add() to a file that was named before.
Merged(old, new) ==
    LET first == IF new.tier < old.tier THEN new ELSE old IN
    [first EXCEPT !.confidence = IF new.confidence > old.confidence THEN new.confidence
                                 ELSE old.confidence,
                  !.hint = IF old.hint = NoHint THEN new.hint ELSE old.hint,
                  !.validated = old.validated \/ new.validated]

Collect(found, said) ==
    IF said.file \notin files THEN found
    ELSE IF \E i \in DOMAIN found : found[i].file = said.file
    THEN [i \in DOMAIN found |-> IF found[i].file = said.file THEN Merged(found[i], said)
                                 ELSE found[i]]
    ELSE Append(found, said)

\* _classify_add
Classified(os, names, tier, source) ==
    [i \in DOMAIN names |->
        Said(Real[names[i]], tier, source, Indexed(os, names[i]).track, Indexed(os, names[i]).hint,
             98, "confirmed")]

ByIntel(os) ==
    LET of(e) == [j \in DOMAIN e.names |->
                     Said(Real[e.names[j]], 3, "vendor_intel", e.track, Hint(e), Score(e), e.confidence)]
    IN  FlattenSeq([i \in DOMAIN For(os) |-> of(For(os)[i])])

\* What the first three tiers say, in order.
Tiers == [os \in Systems |-> <<Classified(os, FromSystem(os, Software), 1, "system"),
                              Classified(os, FromUser(os, Configured), 2, "user_config"),
                              ByIntel(os)>>]

Probed(file) == Said(file, 4, "glob_probe", "B", NoHint, 95, "confirmed")

\* finalize: flags, from the headers there are now, ...
Flagged(found) ==
    LET header(c) == IF c.file \in files THEN Slices[c.file] ELSE {}
    IN  [i \in DOMAIN found |->
            [found[i] EXCEPT !.bridge = NeedsBridge(host, header(found[i])),
                             !.validated = @ \/ header(found[i]) # {}]]

\* ... and order; sorted() is stable.
Sooner(found, i, j) ==
    LET a == found[i]
        b == found[j]
    IN  \/ a.tier < b.tier
        \/ a.tier = b.tier /\ a.track = "A" /\ b.track = "B"
        \/ a.tier = b.tier /\ a.track = b.track /\ a.confidence > b.confidence
        \/ a.tier = b.tier /\ a.track = b.track /\ a.confidence = b.confidence /\ i < j
Orders(found) ==
    {o \in Surjection(DOMAIN found, DOMAIN found) : \A i, j \in DOMAIN found : i < j => Sooner(found, o[i], o[j])}

Listed(found) == {found[i].file : i \in DOMAIN found}

-----------------------------------------------------------------------------
(* A scan *)

NoCache == [state |-> "absent"]
Torn == [state |-> "torn"]
Idle == [pc |-> "idle", options |-> NoOptions, found |-> <<>>, tier |-> 1, next |-> 1, shortcut |-> FALSE,
         queue |-> {}, capped |-> FALSE, helper |-> "none", fromCache |-> FALSE, at |-> 0]

DiscInit ==
    /\ host \in Machines /\ files \in Installed
    /\ changes = 0 /\ clock = 0 /\ cache = NoCache
    /\ scan = [p \in Procs |-> Idle]
    /\ written = {} /\ present = [p \in Procs |-> [always |-> {}, ever |-> {}]]

Change(p, s) == scan' = [scan EXCEPT ![p] = s] /\ UNCHANGED <<world, present>>
Stay == UNCHANGED <<cache, written>>

StartScan(p) ==
    /\ scan[p].pc = "idle"
    /\ \E o \in Uses[p] :
          scan' = [scan EXCEPT ![p].pc = IF o.cached THEN "cache" ELSE "tier",
                               ![p].options = o]
    /\ present' = [present EXCEPT ![p] = [always |-> files, ever |-> files]]
    /\ UNCHANGED <<world, cache, written>>

\* Bug: the age of the cache is not looked at.
Usable_AnyAge == cache.state = "whole"

\* _read_cache: readable, and not too old.
Usable == cache.state = "whole" /\ clock - cache.at <= Ttl

ReadCache(p) ==
    /\ scan[p].pc = "cache" /\ Stay
    /\ Change(p, IF Usable
                 THEN [scan[p] EXCEPT !.pc = "done", !.found = cache.found, !.fromCache = TRUE,
                                      !.at = clock, !.shortcut = cache.shortcut, !.capped = cache.capped]
                 ELSE [scan[p] EXCEPT !.pc = "tier"])

\* Tiers 1, 2 and 3: the next name is looked up, ...
LookUp(p) ==
    LET said == Tiers[host.os][scan[p].tier] IN
    /\ scan[p].pc = "tier" /\ scan[p].next <= Len(said) /\ Stay
    /\ Change(p, [scan[p] EXCEPT !.found = Collect(@, said[scan[p].next]), !.next = @ + 1])

\* ... or there is none.
NextTier(p) ==
    /\ scan[p].pc = "tier" /\ scan[p].next > Len(Tiers[host.os][scan[p].tier]) /\ Stay
    /\ Change(p, [scan[p] EXCEPT !.tier = @ + 1, !.next = 1,
                                 !.pc = IF scan[p].tier < 3 THEN "tier"
                                        ELSE IF scan[p].options.deep THEN "proxy" ELSE "finalize"])

\* The process a file is tried in.
ArchFor(bridge) == IF bridge THEN HelperArch(host) ELSE host.arch

\* validate() of a file: whether C_GetInfo answers a version.
Answers(p, file, bridge) ==
    /\ file \in files /\ Health[file] \in {"good", "empty"}
    /\ Loads(ArchFor(bridge), Slices[file])
    /\ bridge \/ scan[p].helper # "broken"

\* The module takes the helper down with it, or does not let it answer in time.
Breaks(file, bridge) ==
    file \in files /\ Health[file] = "junk" /\ Loads(ArchFor(bridge), Slices[file])

\* Bug: a helper that a module broke is used again.
HelperAfter_Kept(p, file, bridge) ==
    IF bridge THEN scan[p].helper
    ELSE IF Breaks(file, bridge) \/ scan[p].helper = "broken" THEN "broken" ELSE "up"

\* validate(): after an exception the local helper is closed, and the next module
\* gets a new one.
HelperAfter(p, file, bridge) ==
    IF Breaks(file, bridge) THEN "none" ELSE IF bridge THEN scan[p].helper ELSE "up"

\* The proxy, unflagged before finalize, is always tried in a local helper; when it
\* sees tokens the fourth tier is left out.
TryProxy(p) ==
    /\ scan[p].pc = "proxy" /\ Stay
    /\ LET proxies == SelectSeq(scan[p].found, LAMBDA c : c.file \in Proxies)
           tried == host.os # "windows" /\ ~scan[p].options.force /\ proxies # <<>>
           file == Head(proxies).file
           seen == tried /\ Answers(p, file, FALSE) /\ Health[file] = "good"
       IN  Change(p, [scan[p] EXCEPT !.shortcut = seen,
                                     !.helper = IF tried THEN HelperAfter(p, file, FALSE) ELSE @,
                                     !.pc = IF seen THEN "finalize" ELSE "glob"])

\* _glob_candidates: the first MAX_PROBE, in the order of the directory.
Glob(p) ==
    /\ scan[p].pc = "glob" /\ Stay
    /\ LET hits == (Globbed \cap files) \ Listed(scan[p].found) IN
       \E q \in SUBSET hits :
          /\ Cardinality(q) = IF Cardinality(hits) > MaxProbe THEN MaxProbe ELSE Cardinality(hits)
          /\ Change(p, [scan[p] EXCEPT !.queue = q, !.capped = q # hits, !.pc = "probe"])

Probe(p) ==
    /\ scan[p].pc = "probe" /\ Stay
    /\ \/ /\ scan[p].queue = {}
          /\ Change(p, [scan[p] EXCEPT !.pc = "finalize"])
       \/ \E file \in scan[p].queue :
             LET bridge == file \in files /\ NeedsBridge(host, Slices[file]) IN
             Change(p, [scan[p] EXCEPT !.queue = @ \ {file},
                          !.helper = HelperAfter(p, file, bridge),
                          !.found = IF Answers(p, file, bridge) THEN Collect(@, Probed(file)) ELSE @])

Finalize(p) ==
    /\ scan[p].pc = "finalize" /\ Stay
    /\ \E o \in Orders(scan[p].found) :
          Change(p, [scan[p] EXCEPT !.found = [i \in DOMAIN o |-> Flagged(@)[o[i]]], !.helper = "none",
                                    !.pc = IF scan[p].options.cached THEN "truncate" ELSE "done"])

\* _write_cache: write_text empties the file and then fills it; neither need succeed.
TruncateCache(p) ==
    /\ scan[p].pc = "truncate" /\ UNCHANGED written
    /\ \/ cache' = Torn /\ Change(p, [scan[p] EXCEPT !.pc = "write", !.at = clock])
       \/ cache' = cache /\ Change(p, [scan[p] EXCEPT !.pc = "done"])

\* Over what another wrote in between only a longer text leaves nothing of it.
WriteCache(p) ==
    /\ scan[p].pc = "write"
    /\ LET mine == [state |-> "whole", found |-> scan[p].found, shortcut |-> scan[p].shortcut,
                    capped |-> scan[p].capped, at |-> scan[p].at]
       IN  \/ cache' = mine /\ written' = written \cup {mine}
           \/ /\ \/ cache.state = "whole" /\ cache' = Torn
                 \/ cache' = cache
              /\ written' = written
    /\ Change(p, [scan[p] EXCEPT !.pc = "done"])

\* A tool that hangs: the exception leaves discover().  With nothing found every system
\* runs some for the diagnosis.
ToolHangs(p) ==
    /\ Stay
    /\ \/ /\ scan[p].pc = "tier" /\ scan[p].next = 1
          /\ \/ scan[p].tier = 1 /\ "system" \in ToolsRun[host.os]
             \/ scan[p].tier = 2 /\ "user" \in ToolsRun[host.os]
       \/ /\ scan[p].pc = "finalize"
          /\ "finish" \in ToolsRun[host.os] \/ scan[p].found = <<>>
    /\ Change(p, [scan[p] EXCEPT !.pc = "failed", !.found = <<>>, !.helper = "none"])

\* The process is killed; elsewhere that leaves nothing behind.
Kill(p) ==
    /\ scan[p].pc = "write" /\ Stay
    /\ Change(p, [scan[p] EXCEPT !.pc = "killed"])

-----------------------------------------------------------------------------
(* The world around *)

Running == {p \in Procs : scan[p].pc \notin {"idle", "done", "killed", "failed"}}

InstallOrRemove(f) ==
    /\ changes < MaxChanges /\ changes' = changes + 1
    /\ files' = IF f \in files THEN files \ {f} ELSE files \cup {f}
    /\ present' = [p \in Procs |->
          IF p \in Running THEN [always |-> present[p].always \cap files',
                                 ever |-> present[p].ever \cup files'] ELSE present[p]]
    /\ UNCHANGED <<host, clock, cache, scan, written>>

Tick ==
    /\ clock < MaxTime /\ clock' = clock + 1
    /\ UNCHANGED <<host, files, changes, cache, scan, written, present>>

Step(p) == \/ ReadCache(p) \/ LookUp(p) \/ NextTier(p) \/ TryProxy(p) \/ Glob(p) \/ Probe(p)
           \/ Finalize(p) \/ ToolHangs(p) \/ TruncateCache(p) \/ WriteCache(p)

DiscNext == \/ \E p \in Procs : StartScan(p) \/ Step(p) \/ Kill(p)
            \/ \E f \in Files : InstallOrRemove(f)
            \/ Tick

-----------------------------------------------------------------------------
Sources == {"system", "user_config", "vendor_intel", "glob_probe"}

\* Every record is a candidate, and a scan that has not ended has its place.
DiscTypeOK ==
    /\ host \in Hosts /\ files \subseteq Files
    /\ cache \in {NoCache, Torn} \cup written
    /\ \A p \in Procs :
          /\ scan[p].options \in Uses[p] \cup {NoOptions} /\ scan[p].helper \in {"none", "up"}
          /\ \A i \in DOMAIN scan[p].found :
                LET c == scan[p].found[i] IN
                /\ c.file \in Files /\ c.tier \in 1 .. 4 /\ c.source \in Sources
                /\ c.track \in {"A", "B"} /\ c.confidence \in 0 .. 100

Answered(p) == scan[p].pc \in {"done", "truncate", "write"}
Fresh(p) == Answered(p) /\ ~scan[p].fromCache

\* What the first three tiers say of a file, and the fourth when it found it.
SaidOf(file, found) ==
    {s \in UNION {Range(Tiers[host.os][t]) : t \in 1 .. 3} : s.file = file}
    \cup {s \in {Probed(file)} : \E c \in Range(found) : c.file = file /\ c.validated /\ c.tier = 4}

(***************************************************************************)
(* Whatever order the sources name a library in, and through which links,  *)
(* it has one record: that of the first tier that names it, with the best  *)
(* confidence of all, and with a hint if anything knows one.  No record    *)
(* comes from a guessed name.  A record is flagged for the bridge only if  *)
(* the daemon cannot load the file, and one that is not flagged can be     *)
(* loaded, unless its header is not read, it has several architectures, or *)
(* macOS did not compare the word size (discovery.py:135-213, intel.py:    *)
(* "hypothesis KHÔNG được có filenames", needs_arch_bridge).               *)
(***************************************************************************)
RecordsAreRight ==
    \A p \in Procs : Fresh(p) =>
        /\ \A i, j \in DOMAIN scan[p].found :
              i # j => scan[p].found[i].file # scan[p].found[j].file
        /\ \A c \in Range(scan[p].found) :
              LET all == SaidOf(c.file, scan[p].found) IN
              /\ c.label # "hypothesis"
              /\ c.file \in present[p].always =>
                    /\ \E s \in all : /\ s.tier = c.tier /\ s.source = c.source
                                     /\ s.track = c.track /\ s.label = c.label
                    /\ \A s \in all : c.tier <= s.tier /\ s.confidence <= c.confidence
                    /\ (c.hint = NoHint) = (\A s \in all : s.hint = NoHint)
              /\ c.bridge => ~Loads(host.arch, Slices[c.file])
              /\ c.file \in present[p].always /\ ~c.bridge /\ ~Loads(host.arch, Slices[c.file]) =>
                    Cardinality(Slices[c.file]) # 1 \/ host.os = "macos"

\* The fourth tier would have the file, whatever else it tries.
Findable(file) ==
    /\ file \in Globbed /\ Health[file] \in {"good", "empty"}
    /\ Loads(ArchFor(NeedsBridge(host, Slices[file])), Slices[file])

(***************************************************************************)
(* A scan of its own lists only files that were there while it ran, and    *)
(* every one that stayed and that the first three tiers name; a deep one   *)
(* also every sound module the patterns match, whatever other modules did  *)
(* to the helper, unless it says that it stopped at the limit or that the  *)
(* proxy was enough.  An answer from the cache is one that some scan wrote *)
(* whole, no older than its time to live (discovery.py:317-411, 485-524).  *)
(***************************************************************************)
AnswerIsTrue ==
    \A p \in Procs :
        /\ Fresh(p) =>
              /\ Listed(scan[p].found) \subseteq present[p].ever
              /\ \A f \in present[p].always :
                    \/ \E t \in 1 .. 3 : \E s \in Range(Tiers[host.os][t]) : s.file = f
                    \/ scan[p].options.deep /\ ~scan[p].shortcut /\ ~scan[p].capped /\ Findable(f)
                    => f \in Listed(scan[p].found)
        /\ Answered(p) /\ scan[p].fromCache =>
              \E w \in written : w.found = scan[p].found /\ scan[p].at - w.at <= Ttl
==============================================================================
