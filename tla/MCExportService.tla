--------------------------- MODULE MCExportService ---------------------------
(* One button that is clicked twice, beside another client's export.        *)
EXTENDS ExportService
CONSTANTS b1, o1
MCButtons == {b1}
MCOthers == {o1}
=============================================================================
