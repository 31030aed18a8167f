---------------------------- MODULE MCProxyCall ----------------------------
(* Two requests, at most three attempts each, one status of every class.   *)
EXTENDS ProxyCall

MCStatuses == {"200", "400", "503"}
MCRetryOnStatus == {"503"}

============================================================================
