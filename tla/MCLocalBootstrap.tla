-------------------------- MODULE MCLocalBootstrap --------------------------
(* Instances of LocalBootstrap for TLC.                                    *)
EXTENDS LocalBootstrap

=============================================================================
