-------------------------------- MODULE Signer --------------------------------
(***************************************************************************)
(* core/signer.py over core/trust: sign() and build_cms() ask the          *)
(* validator first, then choose an algorithm that the token, the key and   *)
(* Appendix I have in common, let the token sign in a second session, and  *)
(* assemble the document with its chain, a time stamp and a record.        *)
(*                                                                         *)
(* The request is drawn once the validator has answered, Appendix I and    *)
(* the key when they are first read; what the token can do is drawn for    *)
(* each session, for it is asked twice.  A signature is the record of what *)
(* a verifier can tell about it.                                           *)
(***************************************************************************)
EXTENDS Validator

CONSTANTS TokenMechs,  \* sets of mechanisms a session may report
          Appendices,  \* contents of Appendix I considered
          Keys         \* keys considered: [family, bits]

Registry ==
    [pkcs1 |-> [family |-> "RSA", hashIn |-> "SHA256_RSA_PKCS", hashOut |-> "RSA_PKCS"],
     pss   |-> [family |-> "RSA", hashIn |-> "SHA256_RSA_PKCS_PSS", hashOut |-> "RSA_PKCS_PSS"],
     ecdsa |-> [family |-> "EC", hashIn |-> "ECDSA_SHA256", hashOut |-> "ECDSA"]]
Algs == DOMAIN Registry
Of2(a) == {Registry[a].hashIn, Registry[a].hashOut}

\* The rounds of _collect_chain: as many as the validator's own (validator.py:51).
MaxCollect == 16

ASSUME SignerAssumption ==
    /\ MaxDepth <= MaxCollect
    /\ TokenMechs \subseteq SUBSET UNION {Of2(a) : a \in Algs}
    /\ \A k \in Keys : k.family \in {"RSA", "EC", "UNKNOWN"} /\ k.bits \in Nat
    /\ \A x \in Appendices : /\ x.filled \in BOOLEAN /\ x.allowed \in Seq(STRING)
                             /\ x.min \in [{"RSA", "EC"} -> Nat]

VARIABLES
    phase,      \* validate, choose, sign, assemble, persist, done
    request,    \* [entry, fmt, tsa]: which function, the format, a tsa_url given
    appendix,   \* [filled, allowed, min]: what self.policy answers
    key,        \* the certificate's public key
    alg,        \* the AlgorithmSpec chosen
    sessions,   \* what the token reported in each session so far
    signature,  \* [by, scheme, covers, coding] or NoSignature
    document,   \* [chain, stamped]: the CMS
    result      \* what the caller is told

signing == <<phase, request, appendix, key, alg, sessions, signature, document, result>>
signVars == <<vars, signing>>

NoAlg == "none"
NoSignature == [by |-> "none"]
NoDocument == [chain |-> <<>>, stamped |-> FALSE]
Waiting == [answer |-> "waiting"]

SignInit ==
    /\ Init
    /\ phase = "validate"
    /\ request = [entry |-> "none", fmt |-> "none", tsa |-> FALSE]
    /\ appendix = [filled |-> FALSE, allowed |-> <<>>, min |-> [f \in {"RSA", "EC"} |-> 0]]
    /\ key = [family |-> "UNKNOWN", bits |-> 0]
    /\ alg = NoAlg /\ sessions = <<>>
    /\ signature = NoSignature /\ document = NoDocument /\ result = Waiting

Answer(r) == phase' = "done" /\ result' = r
Refused(reason) == Answer([answer |-> reason])

\* assert_signable, then the branch on the format: PAdES and XAdES always refuse.
StartSigning ==
    /\ step = "done" /\ phase = "validate"
    /\ request' \in [entry : {"sign", "build_cms"}, fmt : {"cms"}, tsa : BOOLEAN]
                    \cup [entry : {"sign"}, fmt : {"pades", "xades", "other"}, tsa : {FALSE}]
    /\ \/ status # "valid" /\ Refused("not allowed")
       \/ status = "valid" /\ request'.fmt \in {"pades", "xades"} /\ Refused("format unavailable")
       \/ status = "valid" /\ request'.fmt = "other" /\ Refused("signer error")
       \/ status = "valid" /\ request'.fmt = "cms" /\ phase' = "choose" /\ UNCHANGED result
    /\ UNCHANGED <<vars, appendix, key, alg, sessions, signature, document>>

-----------------------------------------------------------------------------
(* The algorithm *)

\* The key is long enough; a family without a minimum has none.
LongEnough(a, x, k) == k.bits >= x.min[Registry[a].family]

\* Bug: the size of the key is not looked at.
Fits_AnySize(a, x, k, mechs) == Registry[a].family = k.family /\ Of2(a) \cap mechs # {}

Fits(a, x, k, mechs) ==
    Registry[a].family = k.family /\ LongEnough(a, x, k) /\ Of2(a) \cap mechs # {}

\* Where Appendix I names an algorithm that the program knows.
Permitted(x) == {n \in DOMAIN x.allowed : x.filled /\ x.allowed[n] \in Algs}

\* select_mechanism: the first that fits.
Choose(x, k, mechs) ==
    LET fits == {n \in Permitted(x) : Fits(x.allowed[n], x, k, mechs)}
    IN  IF fits # {} THEN x.allowed[First(fits)] ELSE NoAlg

ChooseAlgorithm ==
    /\ phase = "choose"
    /\ \E x \in Appendices, k \in Keys, mechs \in TokenMechs :
          /\ appendix' = x /\ key' = k
          /\ sessions' = IF Permitted(x) = {} THEN <<>> ELSE <<mechs>>
          /\ alg' = Choose(x, k, mechs)
          /\ IF alg' = NoAlg THEN Refused("mechanism unavailable")
             ELSE phase' = "sign" /\ UNCHANGED result
    /\ UNCHANGED <<vars, request, signature, document>>

-----------------------------------------------------------------------------
(* The signature *)

\* What C_Sign makes of the data: hash-in mechanisms hash the attributes, CKM_RSA_PKCS
\* pads what it is given, and ECDSA is handed over as r and s.
Signed(mech, data) ==
    [by |-> mech,
     scheme |-> CASE mech \in Of2("pkcs1") -> "pkcs1" [] mech \in Of2("pss") -> "pss" [] OTHER -> "ecdsa",
     covers |-> IF mech = "RSA_PKCS" /\ data # "DigestInfo" THEN "bare hash" ELSE "attributes",
     coding |-> IF mech \in Of2("ecdsa") THEN "r and s" ELSE "octets"]

\* Bug: the hash is handed to RSA as it is.
Wrapped_Bare(a) == "hash"

\* _wrap_for_hash_out: RSA takes the hash in a DigestInfo, ECDSA the hash.
Wrapped(a) == IF Registry[a].family = "RSA" THEN "DigestInfo" ELSE "hash"

\* _sign_tbs: a new session, the same question to the token.
SignOnToken ==
    /\ phase = "sign"
    /\ \E mechs \in TokenMechs :
          /\ sessions' = Append(sessions, mechs)
          /\ \/ /\ Registry[alg].hashIn \in mechs
                /\ signature' = Signed(Registry[alg].hashIn, "attributes")
                /\ phase' = "assemble" /\ UNCHANGED result
             \/ /\ Registry[alg].hashIn \notin mechs /\ Registry[alg].hashOut \in mechs
                /\ alg # "pss"
                /\ signature' = Signed(Registry[alg].hashOut, Wrapped(alg))
                /\ phase' = "assemble" /\ UNCHANGED result
             \/ /\ Registry[alg].hashIn \notin mechs
                /\ (alg = "pss" \/ Registry[alg].hashOut \notin mechs)
                /\ Refused("mechanism unavailable") /\ UNCHANGED signature
    /\ UNCHANGED <<vars, request, appendix, key, alg, document>>

\* The token refuses: wrong PIN, no such key, no parameters for PSS (pkcs11_ops 342).
TokenRefuses ==
    /\ phase = "sign"
    /\ \E mechs \in TokenMechs :
          /\ Of2(alg) \cap mechs # {} /\ sessions' = Append(sessions, mechs)
    /\ Refused("error")
    /\ UNCHANGED <<vars, request, appendix, key, alg, signature, document>>

-----------------------------------------------------------------------------
(* The document *)

SelfIssued(c) == Subject[c] = Issuer[c]

\* No issuer in the store, or the last one issued itself or came before.
Ends(p) ==
    LET top == p[Len(p)] IN
    \/ Len(p) > 1 /\ (SelfIssued(top) \/ top \in Range(Front(p)))
    \/ Candidates(top) = {}

\* _collect_chain: the climb once more, without a check, one issuer a round.
Longer(p, n) == IF Len(p) < n \/ Ends(p) THEN p
                ELSE Append(p, store[First(Candidates(p[Len(p)]))])
Rounds[n \in 0 .. MaxCollect] == IF n = 0 THEN <<Leaf>> ELSE Longer(Rounds[n - 1], n)
Collected == Rounds[MaxCollect]

\* The rest of _build_cms: chain and time stamp. A TSA that fails answers None.
Assemble ==
    /\ phase = "assemble"
    /\ \E answered \in BOOLEAN :
          document' = [chain |-> Collected, stamped |-> request.tsa /\ answered]
    /\ IF request.entry = "sign" THEN phase' = "persist" /\ UNCHANGED result
       ELSE Answer([answer |-> "ok", document |-> document'])
    /\ UNCHANGED <<vars, request, appendix, key, alg, sessions, signature>>

\* Bug: a time stamp that was asked for is taken for one that was given.
StampReported_Asked == request.tsa

\* ts_used of _build_cms.
StampReported == document.stamped

\* _persist_evidence, whose failure is ignored, and the result.
Persist ==
    /\ phase = "persist"
    /\ \E written \in BOOLEAN :
          LET record == [mechanism |-> Registry[alg].hashIn, timestamped |-> StampReported]
          IN  Answer([answer |-> "ok", document |-> document, algorithm |-> alg,
                      says |-> record, record |-> IF written THEN record ELSE <<>>])
    /\ UNCHANGED <<vars, request, appendix, key, alg, sessions, signature, document>>

SignNext == \/ Next /\ UNCHANGED signing
            \/ StartSigning \/ ChooseAlgorithm \/ SignOnToken \/ TokenRefuses
            \/ Assemble \/ Persist

SignSpec == SignInit /\ [][SignNext]_signVars

-----------------------------------------------------------------------------
(* What the model computes in a signing, as the caller and a verifier see it. *)

SignerTypeOK ==
    /\ TypeOK
    /\ phase \in {"validate", "choose", "sign", "assemble", "persist", "done"}
    /\ request.entry \in {"none", "sign", "build_cms"} /\ request.tsa \in BOOLEAN
    /\ alg \in Algs \cup {NoAlg}
    /\ sessions \in Seq(TokenMechs) /\ Len(sessions) <= 2
    /\ document.chain \in Seq(Certs) /\ document.stamped \in BOOLEAN
    /\ (phase = "done") = (result # Waiting)

(***************************************************************************)
(* The token has signed only for a certificate found VALID, after both     *)
(* appendices were there, by the algorithm Appendix I ranks first among    *)
(* those of the key's family and size that the token offered, and by a     *)
(* mechanism of it that the token still offered when it was used           *)
(* (signer.py:11-19; the second session, 316-327).                         *)
(***************************************************************************)
SignedAsAllowed ==
    signature # NoSignature =>
        /\ status = "valid" /\ appendix.filled
        /\ signature.by \in Of2(alg) \cap Last(sessions)
        /\ \E n \in DOMAIN appendix.allowed :
              /\ appendix.allowed[n] = alg
              /\ Registry[alg].family = key.family
              /\ appendix.min[key.family] <= key.bits
              /\ \A m \in 1 .. n - 1 :
                    LET a == appendix.allowed[m] IN
                    a \notin Algs \/ Registry[a].family # key.family
                    \/ appendix.min[key.family] > key.bits \/ Of2(a) \cap Head(sessions) = {}

(***************************************************************************)
(* A document made with an RSA key can be verified from what it carries:   *)
(* signature_verify finds a signature of the declared scheme over the      *)
(* attributes, whichever side hashed them, and the certificates begin with *)
(* the very chain the validator accepted, anchor included -- unless a CA   *)
(* of that chain is self-issued without being its end: _collect_chain      *)
(* takes it for the root and stops there                                   *)
(* (signer.py:321-346 and 477-501, signature_verify.py:70-79).             *)
(***************************************************************************)
DocumentVerifies ==
    document # NoDocument /\ key.family = "RSA" =>
        /\ signature.scheme = alg /\ signature.covers = "attributes"
        /\ signature.coding = "octets"
        /\ \/ IsPrefix(path, document.chain)
           \/ \E i \in 2 .. Len(path) - 1 : SelfIssued(path[i])

(***************************************************************************)
(* The caller and the evidence file are told of a time stamp when and only *)
(* when one is in the document, and of the algorithm that signed; what is  *)
(* on record is what the caller was told (signer.py:215-238, 481-505).     *)
(***************************************************************************)
RecordIsTrue ==
    result.answer = "ok" =>
        /\ result.document = document
        /\ request.entry = "sign" =>
              /\ result.says.timestamped = result.document.stamped
              /\ signature.by \in Of2(result.algorithm)
              /\ result.says.mechanism \in Of2(result.algorithm)
              /\ result.record \in {<<>>, result.says}
==============================================================================
