--------------------------- MODULE MCXnackMonitor ------------------------------
(* Small instances of XnackMonitor.                                          *)
EXTENDS XnackMonitor
=============================================================================
