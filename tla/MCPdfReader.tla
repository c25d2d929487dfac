----------------------------- MODULE MCPdfReader -----------------------------
(* Two documents adopted one after the other by one reader.  The second is *)
(* followed until its first page has been requested, and where nothing is  *)
(* ever rejected only the first.                                           *)
EXTENDS PdfReader

CONSTANTS d1, d2

SecondIsShort ==
    /\ cand[d2].made => mayReject
    /\ Op.doc = d2 => Op.at \notin {"render", "staging"}
=============================================================================
