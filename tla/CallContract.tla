---------------------------- MODULE CallContract ----------------------------
(***************************************************************************)
(* What a team call promises to the people in the conversation: it rings,  *)
(* it is answered by the first who comes in, whoever is counted as present *)
(* is in an answered call, and it ends once, for everybody, with an        *)
(* outcome that says whether it had been answered.                         *)
(***************************************************************************)

CONSTANT Users

VARIABLES status,    \* of the call
          present    \* the users the call counts as being in it

vars == <<status, present>>

Live == {"ringing", "active"}
Over == {"ended", "missed", "cancelled"}

Init == status = "none" /\ present = {}

Ring == status = "none" /\ status' = "ringing" /\ UNCHANGED present

(* The first to come in answers the call.                                  *)
Enter(u) == /\ status \in Live
            /\ status' = "active"
            /\ present' = present \union {u}

(* Someone goes, or is put out; the call goes on without them for now.     *)
Exit(u) == /\ u \in present
           /\ present' = present \ {u}
           /\ UNCHANGED status

(* A call that was answered has ended; one that was not was missed or      *)
(* cancelled.  Nobody is left in it.                                       *)
Close == /\ \/ status = "active" /\ status' = "ended"
            \/ status = "ringing" /\ status' \in {"missed", "cancelled"}
         /\ present' = {}

Next == Ring \/ Close \/ \E u \in Users : Enter(u) \/ Exit(u)

Spec == Init /\ [][Next]_vars
=============================================================================
