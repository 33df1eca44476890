---------------------------- MODULE RunContract ----------------------------
(***************************************************************************)
(* What operators and customers may rely on for one campaign run, said     *)
(* without workers, topics, transactions or outbox: the statuses an        *)
(* operator sees and the moves between them.  A message is WAITING from    *)
(* the start of the run until its outcome is recorded, retries included.   *)
(***************************************************************************)
EXTENDS Naturals

CONSTANT Messages

VARIABLES
    run,       \* campaign_runs.status
    msg,       \* what an operator makes of messages.status
    reopened   \* how often an operator has asked for each message again

vars == <<run, msg, reopened>>

Waiting == {m \in Messages : msg[m] = "WAITING"}

Init ==
    /\ run = "READY"
    /\ msg = [m \in Messages |-> "ABSENT"]
    /\ reopened = [m \in Messages |-> 0]

(* All messages of the run come into being with the start, once. *)
Start ==
    /\ run = "READY"
    /\ run' = "RUNNING"
    /\ \E S \in SUBSET Messages :
          msg' = [m \in Messages |-> IF m \in S THEN "WAITING" ELSE "ABSENT"]
    /\ UNCHANGED reopened

Pause == run = "RUNNING" /\ run' = "PAUSED" /\ UNCHANGED <<msg, reopened>>

Resume == run = "PAUSED" /\ run' = "RUNNING" /\ UNCHANGED <<msg, reopened>>

(* Outside a live run only messages an operator reopened get an outcome. *)
Settle(m) ==
    /\ msg[m] = "WAITING"
    /\ run \in {"RUNNING", "PAUSED"} \/ reopened[m] > 0
    /\ \E s \in {"SENT", "DEAD", "FAILED_UNCONFIRMED"} : msg' = [msg EXCEPT ![m] = s]
    /\ UNCHANGED <<run, reopened>>

(* A stop cancels all that waits, but may miss what is being reopened. *)
Stop ==
    /\ run \in {"RUNNING", "PAUSED"}
    /\ run' = "CANCELLED"
    /\ \E missed \in SUBSET {m \in Waiting : reopened[m] > 0} :
          msg' = [m \in Messages |->
                     IF m \in Waiting \ missed THEN "CANCELLED" ELSE msg[m]]
    /\ UNCHANGED reopened

(* A run completes when nothing waits, what is being reopened excepted. *)
Complete ==
    /\ run = "RUNNING"
    /\ \A m \in Waiting : reopened[m] > 0
    /\ run' = "COMPLETED"
    /\ UNCHANGED <<msg, reopened>>

Reopen(m) ==
    /\ msg[m] \in {"DEAD", "FAILED_UNCONFIRMED"}
    /\ msg' = [msg EXCEPT ![m] = "WAITING"]
    /\ reopened' = [reopened EXCEPT ![m] = @ + 1]
    /\ UNCHANGED run

Next ==
    \/ Start \/ Pause \/ Resume \/ Stop \/ Complete
    \/ \E m \in Messages : Settle(m) \/ Reopen(m)

Spec == Init /\ [][Next]_vars
=============================================================================
