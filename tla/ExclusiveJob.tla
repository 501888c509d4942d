---------------------------- MODULE ExclusiveJob ----------------------------
(***************************************************************************)
(* What a background job of the server promises to the rest of it: at most *)
(* one worker is inside the body of the job, and the status flag that      *)
(* other handlers read is up for as long as one is.                        *)
(***************************************************************************)
CONSTANT Workers

VARIABLES active,  \* the workers inside the body of the job
          status   \* the published "running" flag

Init == active = {} /\ status = FALSE

Start(w) == /\ active = {}
            /\ active' = {w}
            /\ status' = TRUE

\* The body ends; the flag may come down only after it.
Leave(w) == /\ active = {w}
            /\ active' = {}
            /\ UNCHANGED status

Retract == /\ active = {}
           /\ status' = FALSE
           /\ UNCHANGED active

Next == \/ \E w \in Workers : Start(w) \/ Leave(w)
        \/ Retract

Spec == Init /\ [][Next]_<<active, status>>
=============================================================================
