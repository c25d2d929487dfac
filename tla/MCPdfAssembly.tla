--------------------------- MODULE MCPdfAssembly ---------------------------
(***************************************************************************)
(* A small ledger: two windows, the first with two documents.              *)
(***************************************************************************)
EXTENDS PdfAssembly

CONSTANTS d1, d2, d3, w1, w2

TwoWindows == (d1 :> w1) @@ (d2 :> w1) @@ (d3 :> w2)

\* State constraint: the three documents compete while at most one has finished; the
\* two of one window go on until both have.
Competing == Len(closedOrder) <= 1 \/ ~Known(d3)
=============================================================================
