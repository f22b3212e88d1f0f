----------------------------- MODULE PrintOnce -----------------------------
(***************************************************************************)
(* What the local station promises about physical starts: a job is sent to *)
(* the printer at most once and never again, and while a sent job is not   *)
(* settled no other job is sent.  PrintStation implements this.            *)
(***************************************************************************)
CONSTANT Job

VARIABLE life     \* "unsent", "sent" (outcome open) or "settled"

Init == life = [j \in Job |-> "unsent"]

Send(j) ==
    /\ life[j] = "unsent"
    /\ \A k \in Job : life[k] # "sent"
    /\ life' = [life EXCEPT ![j] = "sent"]

\* A job may be given up unsent; a sent one is settled by what the printer
\* or the operator says of it.
Settle(j) ==
    /\ life[j] # "settled"
    /\ life' = [life EXCEPT ![j] = "settled"]

Next == \E j \in Job : Send(j) \/ Settle(j)

Spec == Init /\ [][Next]_life
=============================================================================
