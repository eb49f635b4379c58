------------------------------- MODULE MCExports -------------------------------
(***************************************************************************)
(* Instances of Exports: an analyzer with a key of AbuseIPDB, which gets   *)
(* three events of one address; and two without, whose events carry their  *)
(* enrichment, beside a shipper that writes exports, the second one with a *)
(* GeoLite2 base that comes after the events.                              *)
(***************************************************************************)
EXTENDS Exports

CONSTANTS q1, q2, q3, A, B

MCAddresses == {A, B}
MCSession == [q \in {q1, q2, q3} |-> IF q = q1 THEN "s1" ELSE IF q = q2 THEN "s2" ELSE "s3"]
MCProvided == [q \in {q1, q2, q3} |->
  IF q = q2 THEN [country |-> "FR", located |-> TRUE, score |-> 80]
            ELSE [country |-> Null, located |-> FALSE, score |-> Null]]
MCGeo == [a \in MCAddresses |->
  IF a = A THEN [country |-> "FR", located |-> TRUE]
             ELSE [country |-> "US", located |-> FALSE]]
MCReputation == [a \in MCAddresses |-> IF a = A THEN 80 ELSE 0]
MCDeployments ==
  { [source |-> [q \in {q1, q2, q3} |-> A],
     key |-> TRUE, geoip |-> TRUE, base |-> FALSE, shipper |-> FALSE],
    [source |-> [q \in {q1, q2, q3} |-> IF q = q3 THEN B ELSE A],
     key |-> FALSE, geoip |-> FALSE, base |-> FALSE, shipper |-> TRUE],
    [source |-> [q \in {q1, q2} |-> A],
     key |-> FALSE, geoip |-> FALSE, base |-> TRUE, shipper |-> TRUE] }
MCAlphabetical == <<"bot", "bruteforcer", "humain", "scanner_legitime">>
=============================================================================
