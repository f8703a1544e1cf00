---------------------------- MODULE Normalizer -----------------------------
(***************************************************************************)
(* Schema normalizer: column_mappings (src/model_optimized.py, lines      *)
(* 46-112) and normalize_column_names (lines 114-137).                    *)
(*                                                                         *)
(* A raw column name is abstracted to a record:                           *)
(*   raw   : the header as it stands in the CSV file;                     *)
(*   norm  : the string str.strip().str.replace(' ', '_').str.lower()     *)
(*           makes of raw (line 117);                                      *)
(*   words : which of the words the pattern rules test for ("source",     *)
(*           "destination", "ip", "port") occur in it as substrings.      *)
(* Line 117 is then the projection of a raw name onto its norm, and the   *)
(* lookups of lines 123-135 are tests on norm and words.                  *)
(***************************************************************************)
EXTENDS Naturals, TLC

Keywords == {"source", "destination", "ip", "port"}

RawName(raw, norm, words) == [raw |-> raw, norm |-> norm, words |-> words]

(***************************************************************************)
(* column_mappings, keyed as in the source.  The capitalised keys (lines  *)
(* 47-100) are kept by the representatives a property needs; the block of *)
(* lower-case keys (lines 102-111) and the two lower-case keys of lines   *)
(* 91-92 are kept whole, since they are the only keys a normalised name   *)
(* can ever equal.                                                         *)
(***************************************************************************)
ColumnMappings ==
    [k \in {"Flow Packets/s", "Source IP", "Protocol", "Label", "Timestamp",
            "Total Fwd Packets", "Total Backward Packets"} |->
        CASE k = "Flow Packets/s"         -> "flow_pkts_s"
          [] k = "Source IP"              -> "src_ip"
          [] k = "Protocol"               -> "protocol"
          [] k = "Label"                  -> "label"
          [] k = "Timestamp"              -> "timestamp"
          [] k = "Total Fwd Packets"      -> "tot_fwd_pkts"
          [] k = "Total Backward Packets" -> "tot_bwd_pkts"]
    @@ [k \in {"act_data_pkt_fwd", "min_seg_size_forward"} |->
        IF k = "act_data_pkt_fwd" THEN "fwd_act_data_pkts" ELSE "fwd_seg_size_min"]
    @@ [k \in {"src_ip", "dst_ip", "src_port", "dst_port", "protocol",
               "timestamp", "flow_duration", "flow_byts_s", "flow_pkts_s",
               "fwd_pkts_s", "bwd_pkts_s", "pkt_len_mean", "flow_iat_mean",
               "flow_iat_std", "fin_flag_cnt", "syn_flag_cnt", "rst_flag_cnt",
               "ack_flag_cnt", "down_up_ratio", "label"} |-> k]

Mentions(c, w1, w2) == {w1, w2} \subseteq c.words

(***************************************************************************)
(* The new name of one column (lines 117-135): its normalised form looked *)
(* up in column_mappings, else the ordered substring rules, else the      *)
(* exact names class/attack/type, else the normalised form unchanged.     *)
(***************************************************************************)
NormalizeName(c) ==
    CASE c.norm \in DOMAIN ColumnMappings  -> ColumnMappings[c.norm]
      [] Mentions(c, "source", "ip")       -> "src_ip"
      [] Mentions(c, "destination", "ip")  -> "dst_ip"
      [] Mentions(c, "source", "port")     -> "src_port"
      [] Mentions(c, "destination", "port") -> "dst_port"
      [] c.norm \in {"class", "attack", "type"} -> "label"
      [] OTHER                             -> c.norm

(* The header after df.rename(columns=current_mapping), as a list of      *)
(* names; pandas keeps duplicates, so it is a function from the raw      *)
(* columns, not a set.                                                     *)
NormalizeHeader(header) == [c \in header |-> NormalizeName(c)]

=============================================================================
