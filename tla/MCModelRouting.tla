--------------------------- MODULE MCModelRouting ---------------------------
(* Instances of ModelRouting for TLC.                                      *)
EXTENDS ModelRouting

CONSTANTS m1, m2, a, p

Entry(name, alias, served, backend) ==
  [name |-> name, alias |-> alias, served |-> served, task |-> "chat",
   backend |-> backend, path |-> p, model_id |-> FALSE, upstream |-> TRUE, local |-> TRUE]

(* A model that is loaded by its model_id.                                 *)
ById(e, local) == [e EXCEPT !.path = None, !.model_id = TRUE, !.local = local]

(* A model on this machine, and one behind a proxy; none is called a.      *)
Plain == <<Entry(m1, None, None, "vllm"), [Entry(m2, None, None, "proxy") EXCEPT !.task = "embedding"]>>

(* The second model is served by the name of the first, and loaded by id.  *)
Hiding == <<Entry(m1, a, None, "vllm"), ById(Entry(m2, None, m1, "vllm"), FALSE)>>

(* The same with a proxied model, which has nothing to load: not accepted. *)
HidingProxy ==
  <<[Entry(m2, None, m1, "proxy") EXCEPT !.path = None], Entry(m1, a, None, "vllm")>>

(* A second entry takes the first one's place; its files are never there.  *)
Twice ==
  <<Entry(m1, a, None, "vllm"), ById(Entry(m1, None, m2, "vllm"), TRUE)>>

AllCatalogs == {Plain, Hiding, HidingProxy, Twice}

=============================================================================
