------------------------------- MODULE Platform -------------------------------
(***************************************************************************)
(* core/platform: what the adapters of the three systems decide about a    *)
(* library file.  Of a file only the architectures it holds code for       *)
(* matter, which is none when the header is not a library's.               *)
(***************************************************************************)
EXTENDS Naturals, Sequences, FiniteSets, SequencesExt

Systems == {"linux", "macos", "windows"}

Arches == {"x86_64", "x86_32", "arm64", "arm_32"}
Bits(arch) == IF arch \in {"x86_64", "arm64"} THEN 64 ELSE 32
Machine(arch) == IF arch \in {"arm64", "arm_32"} THEN "arm64" ELSE "x86_64"

\* A machine: the system, the architecture of the daemon, and that of the helper
\* somebody configured ("none"; on macOS, whether Rosetta is there).
Hosts == [os : Systems, arch : Arches, helper : Arches \cup {"none"}]

\* discover_from_system: what is asked for libraries, in this order, and which of it
\* lists software of all kinds, of which only a CA's counts.
Asked == [linux |-> <<"dpkg", "rpm", "desktop">>,
          macos |-> <<"profiler", "tokend", "application">>,
          windows |-> <<"uninstall", "provider">>]
Filtered == {"dpkg", "rpm", "desktop", "application", "uninstall"}

Counts(s) == /\ s.how \in Filtered => s.ca
             /\ s.how = "dpkg" => s.installed

\* Those of a sequence that pass the test, in order.
Kept(seq, Test(_)) == FlattenSeq([i \in DOMAIN seq |-> IF Test(seq[i]) THEN <<seq[i]>> ELSE <<>>])

FromSystem(os, software) ==
    LET by(how) == Kept(software, LAMBDA s : s.how = how /\ Counts(s))
        names(found) == FlattenSeq([i \in DOMAIN found |-> found[i].names])
    IN  FlattenSeq([i \in DOMAIN Asked[os] |-> names(by(Asked[os][i]))])

\* discover_from_user_config: the variable, then the file, where a line may be a
\* comment; on Linux also p11-kit, its module files and the browsers, where a relative
\* path says nothing.
Says(s) == /\ s.how = "file" => ~s.comment
           /\ s.how \in {"modules", "browser"} => s.absolute

FromUser(os, configured) ==
    LET ways == <<"variable", "file">>
                \o (IF os = "linux" THEN <<"p11-kit", "modules", "browser">> ELSE <<>>)
        by(how) == Kept(configured, LAMBDA s : s.how = how /\ Says(s))
        all == FlattenSeq([i \in DOMAIN ways |-> by(ways[i])])
    IN  [i \in DOMAIN all |-> all[i].name]

\* The programs run on the way have 15 seconds, and nobody expects the exception that
\* then comes: a tool that hangs ends the whole scan.
ToolsRun == [linux |-> {"system", "user", "finish"}, macos |-> {"system", "finish"}, windows |-> {}]

\* certstore_fallback: what is stored, once on macOS, where two keychains are read.
StoreOf(os, stores) ==
    LET all == FlattenSeq(stores)
        again(i) == os = "macos" /\ \E j \in DOMAIN all : j < i /\ all[j] = all[i]
    IN  FlattenSeq([i \in DOMAIN all |-> IF again(i) THEN <<>> ELSE <<all[i]>>])

\* check_binary_arch: the headers of PE, ELF and Mach-O files.
BinaryArch(slices) ==
    CASE slices = {} -> "unknown"
      [] Cardinality(slices) > 1 -> "universal"
      [] OTHER -> CHOOSE arch \in slices : TRUE

\* needs_arch_bridge: macOS compares the processors only.
NeedsBridge(host, slices) ==
    LET arch == BinaryArch(slices) IN
    /\ arch \notin {"unknown", "universal"}
    /\ \/ Machine(arch) # Machine(host.arch)
       \/ host.os # "macos" /\ Bits(arch) # Bits(host.arch)

\* spawn_bridge_helper: on macOS always an Intel process under Rosetta, elsewhere
\* whatever was configured, for which file it may be.
HelperArch(host) == IF host.os = "macos" /\ host.helper # "none" THEN "x86_64" ELSE host.helper

\* A process of this architecture can load the file.
Loads(arch, slices) == arch \in slices
===============================================================================
