----------------------------- MODULE Scheduler -----------------------------
(***************************************************************************)
(* What an application may expect of the kernel's scheduling, without the  *)
(* queues: a task that gives the processor up passes it to a ready task of *)
(* the highest priority, and a task that is started or resumed by somebody *)
(* else takes the processor at once.                                       *)
(***************************************************************************)
EXTENDS Integers

CONSTANTS Tasks, Priority

VARIABLE state      \* what each task is doing

States == {"DORMANT", "READY", "RUN", "WAITING"}

Init == state \in [Tasks -> {"DORMANT", "READY"}]

\* A new task waits for its turn.
Add(t) ==
    /\ state[t] = "DORMANT"
    /\ state' = [state EXCEPT ![t] = "READY"]

\* A new task, or one that waited, runs instead of whoever runs.
Preempt(t) ==
    /\ state[t] \in {"DORMANT", "WAITING"}
    /\ state' = [s \in Tasks |-> IF s = t THEN "RUN"
                                 ELSE IF state[s] = "RUN" THEN "READY"
                                 ELSE state[s]]

\* The running task r ends or waits: to says which.
GiveWay(r, t, to) ==
    /\ state[r] = "RUN"
    /\ state[t] = "READY"
    /\ \A s \in Tasks : state[s] = "READY" => Priority[t] <= Priority[s]
    /\ state' = [state EXCEPT ![r] = to, ![t] = "RUN"]

Next ==
    \/ \E t \in Tasks : Add(t) \/ Preempt(t)
    \/ \E r, t \in Tasks, to \in {"DORMANT", "WAITING"} : GiveWay(r, t, to)

Spec == Init /\ [][Next]_state
=============================================================================
