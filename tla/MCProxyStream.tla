--------------------------- MODULE MCProxyStream ---------------------------
(* Two streamed requests of at most two chunks.                            *)
EXTENDS ProxyStream

MCOkStatuses == {"200"}
MCErrStatuses == {"400", "503"}

============================================================================
