------------------------------ MODULE MCExporter --------------------------------
(* Small instances of Exporter.                                              *)
EXTENDS Exporter

MCPacketBits == {<<TRUE, FALSE>>, <<FALSE, TRUE>>}
=============================================================================
