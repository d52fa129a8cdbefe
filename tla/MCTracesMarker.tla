--------------------------- MODULE MCTracesMarker ---------------------------
(* The trace alone, with two boots and no failing write.                    *)
EXTENDS Traces
=============================================================================
