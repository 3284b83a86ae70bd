---------------------------- MODULE CommandStream ----------------------------
(***************************************************************************)
(* What remoting promises to one application thread: its EGL and GLES      *)
(* calls are made on the server, each once, as the thread made them and in *)
(* its order.  A function with a result returns after its call, and so     *)
(* after every earlier one, was made, with the result of that call; a      *)
(* function without returns at any time.                                   *)
(***************************************************************************)
EXTENDS Naturals, Sequences

VARIABLES pending,      \* calls the thread has made and the server has not
          made,         \* the server's last call, if any
          phase,        \* the thread: "free", or "waiting" for a result, or
                        \* "answered"
          answer        \* the result of the call it waits for, or waited for

Init == pending = <<>> /\ made = <<>> /\ phase = "free" /\ answer = <<>>

\* The thread makes a call, any call.
Issue ==
    /\ phase = "free"
    /\ Len(pending') = Len(pending) + 1
    /\ SubSeq(pending', 1, Len(pending)) = pending
    /\ phase' \in {"waiting", "free"}
    /\ answer' = <<>>
    /\ UNCHANGED made

\* The server makes the oldest; if the thread waits for it, any result is its.
Execute ==
    /\ pending # <<>>
    /\ made' = <<Head(pending)>>
    /\ pending' = Tail(pending)
    /\ IF phase = "waiting" /\ Len(pending) = 1
       THEN phase' = "answered"
       ELSE UNCHANGED <<phase, answer>>

Return ==
    /\ phase = "answered" /\ phase' = "free"
    /\ UNCHANGED <<pending, made, answer>>

Next == Issue \/ Execute \/ Return
Spec == Init /\ [][Next]_<<pending, made, phase, answer>>
=============================================================================
