---------------------------- MODULE ReplicaModes ----------------------------
(***************************************************************************)
(* The configurations of a local chat model and the states its replica may *)
(* be in once it is up: what VLLMStartup shows of every startup, and what  *)
(* ChatStream supposes of it.                                              *)
(***************************************************************************)

(* What a catalog entry fixes: compat_mode vllm_native, vllm.openai_serving*)
(* enabled (native requires it), backend_init_mode real.                   *)
LegalModels ==
  {m \in [native : BOOLEAN, serving : BOOLEAN, real : BOOLEAN] :
     m.native => m.serving}

(* Engine e and adapter a of a replica of model m that is up: a stub has   *)
(* neither, a native model does not start without an adapter.              *)
Started(m, e, a) ==
  /\ e \in IF m.real THEN {"async", "sync"} ELSE {"none"}
  /\ a => m.real /\ m.serving
  /\ m.real /\ m.native => a

=============================================================================
