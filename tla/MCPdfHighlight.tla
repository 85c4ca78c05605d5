--------------------------- MODULE MCPdfHighlight ---------------------------
(* Model-checking instance of PdfHighlight. *)
EXTENDS PdfHighlight
=============================================================================
