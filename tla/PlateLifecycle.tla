--------------------------- MODULE PlateLifecycle ---------------------------
(***************************************************************************)
(* What production promises about the one physical printer, whatever path  *)
(* (manual Orca handoff or station dispatch) a job takes:                   *)
(*   - at most one job has the bed at a time;                               *)
(*   - a job whose plate went to the printer is never put back in the       *)
(*     queue: it can only finish (inspected, completed or failed).          *)
(* ProductionDispatch implements this specification.                       *)
(***************************************************************************)
CONSTANT Job

VARIABLE plate     \* plate[j]: how far job j's plate has got

PlateState == {"waiting", "reserved", "committed", "finished"}

OnPrinter == {"reserved", "committed"}

TypeOK == plate \in [Job -> PlateState]

Init == plate = [j \in Job |-> "waiting"]

\* The bed is taken only when no job has it.
Reserve(j) ==
    /\ plate[j] = "waiting"
    /\ \A k \in Job : plate[k] \notin OnPrinter
    /\ plate' = [plate EXCEPT ![j] = "reserved"]

\* Before the plate goes to the printer the reservation may be given up.
GiveUp(j) ==
    /\ plate[j] = "reserved"
    /\ plate' = [plate EXCEPT ![j] = "waiting"]

Commit(j) ==
    /\ plate[j] = "reserved"
    /\ plate' = [plate EXCEPT ![j] = "committed"]

Finish(j) ==
    /\ plate[j] \in OnPrinter
    /\ plate' = [plate EXCEPT ![j] = "finished"]

Next == \E j \in Job : Reserve(j) \/ GiveUp(j) \/ Commit(j) \/ Finish(j)

Spec == Init /\ [][Next]_plate
=============================================================================
