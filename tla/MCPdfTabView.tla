---------------------------- MODULE MCPdfTabView ----------------------------
(***************************************************************************)
(* Three sizes of the host and three scales, of which a scrollbar takes    *)
(* away; two renderings may be under way.                                  *)
(***************************************************************************)
EXTENDS PdfTabView

CONSTANTS c1, c2

FitOf == [b \in Box |-> b]
Scrollbars == [b \in Box |-> IF b = 2 THEN {2} ELSE {0, 1}]
UpOrDown == {-1, 1}

=============================================================================
