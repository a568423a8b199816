--------------------------- MODULE MCEventStream ---------------------------
(* A /v2/chat and a /v2/live handler of one session.                        *)
EXTENDS EventStream

MCThreads == {"chat", "live"}
=============================================================================
