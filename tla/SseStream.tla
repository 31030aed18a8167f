----------------------------- MODULE SseStream -----------------------------
(***************************************************************************)
(* What a streamed chat answer promises its client, whatever produces it:  *)
(* the request is refused or its stream is opened, the stream only grows,  *)
(* it is a legal sequence of frames at every moment, it is closed only     *)
(* behind [DONE], and nothing is sent once it is closed or cut off. An     *)
(* answer may be told again from its beginning; then, and only then, a role*)
(* or the first of the text may come a second time.                        *)
(***************************************************************************)
EXTENDS SseFrames

CONSTANT Requests

VARIABLES
  phase,   \* "waiting", "refused", "open", "closed" or "cut" for each request
  wire,    \* the frames the client has been sent
  again    \* the answer is being told again

vars == <<phase, wire, again>>

Init ==
  /\ phase = [r \in Requests |-> "waiting"]
  /\ wire = [r \in Requests |-> <<>>]
  /\ again = [r \in Requests |-> FALSE]

(* Where frame b, right after frame a, is the beginning of another telling.*)
Begins(a, b) ==
  \/ b = Role
  \/ b.f = "text" /\ b.lo = 0 /\ b.lo < b.hi /\ a.f \in {"role", "text"}

(* A legal sequence of frames, but for the beginnings of further tellings. *)
Promised(w, retold) ==
  /\ w # <<>> => First(w[1])
  /\ \A i \in 1..(Len(w) - 1) :
       Follows(w[i], w[i + 1]) \/ (retold /\ Begins(w[i], w[i + 1]))

(* The frames one step of the gateway sends: one of them, behind a role if *)
(* the stream has had none, and [DONE] behind the reason for finishing.    *)
Bursts ==
  {<<a>> : a \in Frames} \cup {<<Role, a>> : a \in Frames}
    \cup {<<Finish, Done>>, <<Role, Finish, Done>>}

Move(r, from, to) ==
  /\ phase[r] = from
  /\ phase' = [phase EXCEPT ![r] = to]
  /\ UNCHANGED again

Send(r, burst) ==
  /\ wire' = [wire EXCEPT ![r] = @ \o burst]
  /\ Promised(wire'[r], again[r])

Refuse(r) == Move(r, "waiting", "refused") /\ UNCHANGED wire

Open(r) == Move(r, "waiting", "open") /\ UNCHANGED wire

Grow(r) == Move(r, "open", "open") /\ \E burst \in Bursts : Send(r, burst)

Close(r) ==
  /\ Move(r, "open", "closed")
  /\ \E burst \in {<<>>, <<Done>>, <<Finish, Done>>} : Send(r, burst)
  /\ Has(wire'[r], Done)

Cut(r) == Move(r, "open", "cut") /\ UNCHANGED wire

(* The source of the answer starts over, whether anybody reads it or not.  *)
TellAgain(r) ==
  /\ phase[r] \in {"waiting", "open", "cut"}
  /\ again' = [again EXCEPT ![r] = TRUE]
  /\ UNCHANGED <<phase, wire>>

Next ==
  \E r \in Requests :
    Refuse(r) \/ Open(r) \/ Grow(r) \/ Close(r) \/ Cut(r) \/ TellAgain(r)

Spec == Init /\ [][Next]_vars

============================================================================
