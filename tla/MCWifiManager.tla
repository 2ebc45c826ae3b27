---------------------------- MODULE MCWifiManager ----------------------------
(* One network, or two for the question which of them is joined.             *)
EXTENDS WifiManager

CONSTANTS s1, s2

OneSsid == {s1}
TwoSsids == {s1, s2}
Any == BOOLEAN
Starting == {TRUE}
ApBoot == {[mode |-> "AP", ssid |-> n] : n \in {s1, None}}
StaBoot == {[mode |-> "STA", ssid |-> s1]}
AnyBoot == ApBoot \cup StaBoot
Posts == {"post"}
OneScan == {"webscan"}
Scans == {"atscan", "webscan"}
Modes == {"mode"}
Changes == {"post", "refused", "mode", "ssid"}
=============================================================================
