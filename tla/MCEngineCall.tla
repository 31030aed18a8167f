---------------------------- MODULE MCEngineCall ----------------------------
(* Instances of EngineCall for TLC.                                        *)
EXTENDS EngineCall

(* Pairs of keys that meet: two ways to state the limit, a number beside   *)
(* the field that turns it on, a typed tool field beside one the defaults  *)
(* may replace.  The other keys do not read each other.                    *)
AllTopics == {{"max_tokens", "max_completion_tokens"},
              {"logprobs", "top_logprobs"},
              {"tools", "parallel_tool_calls"},
              {"temperature"}, {"seed"}, {"top_k"}, {"reasoning"},
              {"reasoning_effort"}, {"response_format"}, {"unknown"}}

LimitTopics == {{"max_tokens", "max_completion_tokens"}}

=============================================================================
