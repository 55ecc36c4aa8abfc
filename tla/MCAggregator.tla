----------------------------- MODULE MCAggregator -----------------------------
\* Six libraries: one the package manager names, one of another architecture that
\* the user names through a link and the golden table knows, the proxy, and three that
\* only the patterns find: one sound, one without a token, one that breaks the process
\* that loads it.
EXTENDS Aggregator

CONSTANTS native, vendor, proxy, rebrand, spare, junk,          \* files
          nameNative, nameVendor, linkVendor, nameProxy, nameSpare, \* paths
          token1, token2, cert1, cert2, p1, p2

MCProcs == {p1, p2}
MCFiles == {native, vendor, proxy, rebrand, spare, junk}
MCNames == {nameNative, nameVendor, linkVendor, nameProxy, nameSpare}
MCReal == [n \in MCNames |-> CASE n = nameNative -> native [] n = nameProxy -> proxy [] n = nameSpare -> spare [] OTHER -> vendor]
MCSlices == [f \in MCFiles |-> CASE f = vendor -> {"x86_32"} [] f = proxy -> {"x86_64", "arm64"}
                                 [] OTHER -> {"x86_64"}]
MCHealth == [f \in MCFiles |-> CASE f = junk -> "junk" [] f = spare -> "empty" [] OTHER -> "good"]
MCMachines == {[os |-> "linux", arch |-> "x86_64", helper |-> "x86_32"],
               [os |-> "macos", arch |-> "arm64", helper |-> "arm64"]}
MCInstalled == {{native, vendor, rebrand, junk}}
MCUses == [p \in MCProcs |-> IF p = p1 THEN Options ELSE {o \in Options : o.cached /\ o.deep}]
Soft(how, ca, installed, names) == [how |-> how, ca |-> ca, installed |-> installed, names |-> names]
MCSoftware == << Soft("desktop", TRUE, TRUE, <<linkVendor>>), Soft("dpkg", TRUE, TRUE, <<nameNative>>),
                 Soft("dpkg", TRUE, FALSE, <<nameSpare>>), Soft("application", TRUE, TRUE, <<nameNative>>),
                 Soft("profiler", FALSE, TRUE, <<linkVendor>>), Soft("rpm", FALSE, TRUE, <<nameProxy>>) >>
Line(how, comment, absolute, name) ==
    [how |-> how, comment |-> comment, absolute |-> absolute, name |-> name]
MCConfigured == << Line("p11-kit", FALSE, TRUE, nameProxy), Line("file", FALSE, TRUE, linkVendor),
                   Line("file", TRUE, TRUE, nameSpare), Line("browser", FALSE, FALSE, nameSpare) >>
Entry(id, os, names, confidence, track, chip, ca) ==
    [id |-> id, os |-> os, names |-> names, confidence |-> confidence, track |-> track,
     chip |-> chip, ca |-> ca]
MCIntelDocs == << <<Entry("vendor", "any", <<nameVendor>>, "documented", "A", "chip", "ca"),
                    Entry("nameless", "any", <<nameSpare>>, "confirmed", "A", "", "ca"),
                    Entry("guess", "linux", <<nameSpare>>, "hypothesis", "B", "chip", "ca"),
                    Entry("proxy", "macos", <<nameProxy>>, "documented", "A", "chip", "")>>,
                  <<Entry("vendor", "any", <<nameVendor>>, "confirmed", "B", "chip", "ca")>> >>
MCGlobbed == {rebrand, spare, junk, vendor}
MCTokens == {token1, token2}
MCCerts == {cert1, cert2}
MCShows == [f \in MCFiles |-> CASE f = native -> {token1} [] f = vendor -> {token1}
                                [] f = proxy -> {token1, token2} [] OTHER -> {}]
MCStores == {<< <<cert1, cert2>>, <<cert2>> >>}
MCHolds == (token1 :> {cert1, cert2}) @@ (token2 :> {cert2})

\* The merge looks at one scan and at the files, never at another scan: it is enough
\* to let it run while the others have not begun, and alone.
MCMergeAlone ==
    apc' # "none" => /\ \E p \in Procs : \A q \in Procs \ {p} : scan[q].pc = "idle"
                     /\ apc # "none" => UNCHANGED discVars
===============================================================================
