---------------------------- MODULE MCPreprocess ----------------------------
(***************************************************************************)
(* Model-checking instance of Preprocess: a flow statistic, the protocol  *)
(* (an identifier of the side table), the source_file column ingestion   *)
(* adds, an engineered ratio of the flow column and an engineered is_tcp  *)
(* test of the protocol; label tokens that merge (DDOS and FLOOD into     *)
(* UDP) and one that passes through unmapped (BOT), up to two rows each,  *)
(* enough for a two-class stratified split (6 rows, 2 test rows), a      *)
(* fallback and a one-row frame.  k = 1 is below the column count, as     *)
(* main's k = 50 is below the ~80 columns of the real data.               *)
(***************************************************************************)
EXTENDS Preprocess

MCBase == {"flow", "protocol", "source_file"}
MCRole == ("flow" :> "feature") @@ ("protocol" :> "port") @@ ("source_file" :> "drop")
MCDerived == {"ratio", "is_tcp"}
MCInputs == ("ratio" :> {"flow"}) @@ ("is_tcp" :> {"protocol"})
MCIndicator == {"is_tcp"}
MCRawTokens == {"DDOS", "FLOOD", "BOT"}
MCCounts == 0..2

=============================================================================
