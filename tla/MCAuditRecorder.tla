--------------------------- MODULE MCAuditRecorder ---------------------------
(* Constants for model-checking AuditRecorder: four events, one of which    *)
(* cannot be encoded.                                                       *)
EXTENDS AuditRecorder

MCEvent == {"e1", "e2", "e3", "odd"}
MCUnencodable == {"odd"}
=============================================================================
