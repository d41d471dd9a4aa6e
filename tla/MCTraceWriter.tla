---------------------------- MODULE MCTraceWriter ------------------------------
(* Small instances of TraceWriter.                                           *)
EXTENDS TraceWriter
=============================================================================
