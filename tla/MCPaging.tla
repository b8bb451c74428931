------------------------------ MODULE MCPaging ------------------------------
(***************************************************************************)
(* An instance of Paging for TLC: three fields of two values each, so that *)
(* a field lies between the first and the last.                            *)
(***************************************************************************)
EXTENDS Paging, TLC

MCValues == {0, 1}
MCTexts == {"0", "1"}
MCFormat == 0 :> "0" @@ 1 :> "1"
MCExtractor == "0" :> 0 @@ "1" :> 1
=============================================================================
