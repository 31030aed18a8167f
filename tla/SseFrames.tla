----------------------------- MODULE SseFrames -----------------------------
(***************************************************************************)
(* The frames of a streamed chat answer (Server-Sent Events of the OpenAI  *)
(* chat API) and the order a client may rely on. The text of an answer is  *)
(* MaxText units long; a text frame carries the units lo+1 .. hi of it.    *)
(***************************************************************************)
EXTENDS Naturals, Sequences

CONSTANT MaxText   \* units of text in one answer

ASSUME MaxTextAssumption == MaxText \in Nat \ {0}

Mark(f) == [f |-> f, lo |-> 0, hi |-> 0]

Role == Mark("role")
Finish == Mark("finish")
Done == Mark("done")
Error == Mark("error")
Internal == Mark("internal")   \* a chat_delta event sent to the client as it is

Text(lo, hi) == [f |-> "text", lo |-> lo, hi |-> hi]

Frames ==
  {Role, Finish, Done, Error, Internal} \cup {Text(lo, hi) : lo, hi \in 0..MaxText}

(* What the first frame of a stream may be: the role, an error, or, when   *)
(* the source had nothing to say, [DONE].                                  *)
First(b) == b \in {Role, Error, Done}

(* Frame b may come right after frame a: text continues where the text     *)
(* before it stopped, the reason for finishing - or an error in its place -*)
(* comes after all text, [DONE] after everything.                          *)
Follows(a, b) ==
  \/ b = Done /\ a # Done
  \/ b \in {Finish, Error} /\ a.f \in {"role", "text"}
  \/ b.f = "text" /\ b.lo = a.hi /\ b.lo < b.hi /\ a.f \in {"role", "text"}

Legal(w) ==
  /\ w # <<>> => First(w[1])
  /\ \A i \in 1..(Len(w) - 1) : Follows(w[i], w[i + 1])

Has(w, frame) == \E i \in 1..Len(w) : w[i] = frame

============================================================================
