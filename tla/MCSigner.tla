------------------------------- MODULE MCSigner -------------------------------
(***************************************************************************)
(* Instance of Signer for TLC: a signer under a CA; that CA with a second  *)
(* key, by which it renewed the first, and cross-certified by a foreign    *)
(* root; the national root.  Tokens that hash, that do not, that only know *)
(* elliptic curves.                                                        *)
(***************************************************************************)
EXTENDS Signer

MCCerts == {"leaf", "ca", "rekeyed", "renewed", "cross", "root", "foreignRoot"}
MCName == [leaf |-> "L", ca |-> "A", rekeyed |-> "A", renewed |-> "A", cross |-> "A",
           root |-> "R", foreignRoot |-> "F"]
MCIssuer == [leaf |-> "A", ca |-> "R", rekeyed |-> "R", renewed |-> "A", cross |-> "F",
             root |-> "R", foreignRoot |-> "F"]
MCKey == [leaf |-> "kl", ca |-> "ka", rekeyed |-> "kb", renewed |-> "ka", cross |-> "ka",
          root |-> "kr", foreignRoot |-> "kf"]
MCSignedBy == [leaf |-> "ka", ca |-> "kr", rekeyed |-> "kr", renewed |-> "kb", cross |-> "kf",
               root |-> "kr", foreignRoot |-> "kf"]
MCRole == [leaf |-> "internal", ca |-> "ca", rekeyed |-> "ca", renewed |-> "ca", cross |-> "ca",
           root |-> "root", foreignRoot |-> "foreign"]
MCMayIssue == [c \in MCCerts |-> c # "leaf"]
MCPathLen == [leaf |-> 0, ca |-> 0, rekeyed |-> 1, renewed |-> 0, cross |-> 0,
              root |-> 2, foreignRoot |-> 2]

Distinct(s) == \A i, j \in DOMAIN s : i # j => s[i] # s[j]
MCStores == UNION {{s \in [1 .. n -> MCCerts] : Distinct(s)} : n \in 0 .. 3}
MCBare == {{}, {"leaf"}, {"ca"}}
MCCrlAnswers == {<<>>, <<"clean">>, <<"listed">>, <<"absent", "clean">>,
                 <<"forged", "clean">>, <<"old", "clean">>, <<"absent", "listed">>}

MCTokenMechs ==
    {{}, {"SHA256_RSA_PKCS", "RSA_PKCS"}, {"RSA_PKCS"},
     {"SHA256_RSA_PKCS_PSS"}, {"RSA_PKCS_PSS", "RSA_PKCS"}, {"ECDSA"}, {"ECDSA_SHA256", "ECDSA"}}
Least(rsa, ec) == [f \in {"RSA", "EC"} |-> IF f = "RSA" THEN rsa ELSE ec]
Filled(allowed, min) == [filled |-> TRUE, allowed |-> allowed, min |-> min]
MCAppendices ==
    {[filled |-> FALSE, allowed |-> <<>>, min |-> Least(0, 0)],
     Filled(<<"sha3">>, Least(0, 0)),
     Filled(<<"sha3", "pss", "pkcs1", "ecdsa">>, Least(2048, 256)),
     Filled(<<"ecdsa", "pkcs1">>, Least(2048, 0))}
MCKeys == {[family |-> "RSA", bits |-> 2048], [family |-> "RSA", bits |-> 1024],
           [family |-> "EC", bits |-> 256], [family |-> "UNKNOWN", bits |-> 256]}
===============================================================================
