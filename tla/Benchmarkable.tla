--------------------------- MODULE Benchmarkable ---------------------------
(***************************************************************************)
(* What a user of a Benchmarkable relies on (interfaces/benchmarkable.py): *)
(* an object with __aenter__ and __aexit__ that owns something alive, a    *)
(* process tree or a server.  Whatever __aexit__ returns or raises, what   *)
(* it owned is dead once it has ended, and the object is not used again.   *)
(* Only a user who is cancelled while awaiting it loses that promise.      *)
(***************************************************************************)
VARIABLES
    life,              \* "idle", "entered", "leaving" (in __aexit__), "left"
    alive,             \* what it owns is alive
    abandoned          \* a call was cancelled while it was awaited

vars == <<life, alive, abandoned>>

Init == life = "idle" /\ alive = FALSE /\ abandoned = FALSE

Enter == /\ life = "idle"
         /\ life' = "entered" /\ alive' = TRUE /\ UNCHANGED abandoned

\* __aenter__ raises and nothing was started.
EnterFails == /\ life = "idle"
              /\ life' = "left" /\ UNCHANGED <<alive, abandoned>>

Die == /\ alive
       /\ alive' = FALSE /\ UNCHANGED <<life, abandoned>>

Leave == /\ life = "entered"
         /\ life' = "leaving" /\ UNCHANGED <<alive, abandoned>>

\* __aexit__ ends; it may do so without giving way to the event loop.
Left == /\ life \in {"entered", "leaving"} /\ (alive => abandoned)
        /\ life' = "left" /\ UNCHANGED <<alive, abandoned>>

\* The user is cancelled while it awaits one of the methods.
Abandon == /\ life \in {"entered", "leaving"}
           /\ abandoned' = TRUE
           /\ life' = IF life = "leaving" THEN "left" ELSE life
           /\ UNCHANGED alive

Next == Enter \/ EnterFails \/ Die \/ Leave \/ Left \/ Abandon

Spec == Init /\ [][Next]_vars
=============================================================================
