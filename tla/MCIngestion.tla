---------------------------- MODULE MCIngestion ----------------------------
(***************************************************************************)
(* Model-checking instance of Ingestion: two files drawn from six shapes  *)
(* taken from the CIC-style datasets the loader is written for, and a cap *)
(* of 3 rows, so that files above the cap are sampled.                    *)
(***************************************************************************)
EXTENDS Ingestion

\* Raw header names and what line 117 makes of them.
HLabel    == RawName(" Label", "label", {})
HClass    == RawName("Class", "class", {})
HTarget   == RawName("Target", "target", {})
HSrcIP    == RawName("Source IP", "source_ip", {"source", "ip"})
HFlow     == RawName("Flow Packets/s", "flow_packets/s", {})
HFlowPkts == RawName("flow_pkts_s", "flow_pkts_s", {})

\* Raw label strings and what strip().upper() makes of them.
Tok(raw, up) == [raw |-> raw, up |-> up]
Benign == Tok("BENIGN", "BENIGN")
DDoS   == Tok("DDoS", "DDOS")
ddos   == Tok("ddos", "DDOS")
Normal == Tok("normal", "NORMAL")
Syn    == Tok("Syn", "SYN")
Dns    == Tok("DNS", "DNS")
Ntp    == Tok("NTP", "NTP")

File(parses, header, labels) == [parses |-> parses, header |-> header, labels |-> labels]

MCFileShapes == {
    \* five rows in two classes after upper-casing: sampled to one per class
    File(TRUE, {HLabel, HSrcIP}, (Benign :> 2) @@ (DDoS :> 2) @@ (ddos :> 1)),
    \* both " Label" and "Class": two columns become "label"
    File(TRUE, {HLabel, HClass}, (Benign :> 1) @@ (Syn :> 1)),
    \* label found through the "target" alternative
    File(TRUE, {HTarget, HFlow}, (Normal :> 1) @@ (Syn :> 1)),
    \* four classes of one row each: above a cap of 3
    File(TRUE, {HLabel}, (Benign :> 1) @@ (Dns :> 1) @@ (Ntp :> 1) @@ (Syn :> 1)),
    \* a CICFlowMeter-style export: the flow rate already in snake case
    File(TRUE, {HLabel, HFlowPkts}, (Benign :> 1) @@ (Syn :> 1)),
    \* no label column at all
    File(TRUE, {HFlow, HSrcIP}, (Benign :> 1)),
    \* read_csv raises
    File(FALSE, {HLabel}, (Benign :> 1))
}

=============================================================================
