---------------------------- MODULE MCRetrieval ----------------------------
(* Instances of Retrieval, and with it of VLLMStartup, for TLC.            *)
EXTENDS Retrieval

=============================================================================
