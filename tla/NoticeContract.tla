---------------------------- MODULE NoticeContract ----------------------------
(***************************************************************************)
(* What a notice promises: it is requested once, its outcome is decided    *)
(* once, "sent" is final and true, only a dead letter is reopened, and the *)
(* messages never exceed the attempts allowed per round.                   *)
(***************************************************************************)
EXTENDS Integers

CONSTANTS Notice, MaxAttempts

VARIABLES outcome, messages, retries

Init ==
    /\ outcome = [n \in Notice |-> "none"]
    /\ messages = [n \in Notice |-> 0]
    /\ retries = [n \in Notice |-> 0]

Request(n) ==
    /\ outcome[n] = "none"
    /\ outcome' = [outcome EXCEPT ![n] = "open"]
    /\ UNCHANGED <<messages, retries>>

Message(n) ==
    /\ outcome[n] # "none"
    /\ messages[n] < MaxAttempts * (1 + retries[n])
    /\ messages' = [messages EXCEPT ![n] = @ + 1]
    /\ UNCHANGED <<outcome, retries>>

Sent(n) ==
    /\ outcome[n] = "open"
    /\ messages[n] > 0
    /\ outcome' = [outcome EXCEPT ![n] = "sent"]
    /\ UNCHANGED <<messages, retries>>

Dead(n) ==
    /\ outcome[n] = "open"
    /\ outcome' = [outcome EXCEPT ![n] = "dead_lettered"]
    /\ UNCHANGED <<messages, retries>>

Reopened(n) ==
    /\ outcome[n] = "dead_lettered"
    /\ outcome' = [outcome EXCEPT ![n] = "open"]
    /\ retries' = [retries EXCEPT ![n] = @ + 1]
    /\ UNCHANGED messages

Next == \E n \in Notice : Request(n) \/ Message(n) \/ Sent(n) \/ Dead(n) \/ Reopened(n)

Spec == Init /\ [][Next]_<<outcome, messages, retries>>
=============================================================================
