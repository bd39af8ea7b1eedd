----------------------------- MODULE PipeProps -----------------------------
(***************************************************************************)
(* What a pipe promises to its two users.                                  *)
(***************************************************************************)
EXTENDS Pipe

\* A read or write that starts to move bytes moves all of them: what was
\* looked at before the mutex was taken still holds under it, and also when
\* taking it has timed out.
TransfersAreWhole ==
    \A s \in Sides :
        /\ pc[s] = "move" => left[s] <= Available(s)
        /\ pc[s] = "wakeup" => left[s] = 0

\* No session sees what an earlier one has left in the pipe: a reader that is
\* there before the writer finds nothing, whoever opened or closed first the
\* last time.
SessionsStartEmpty ==
    pc["writer"] = "closed" /\ pc["reader"] # "closed" => held = 0

\* No call hangs: a wakeup that comes before the wait is lost, but the wait
\* ends by itself, and after Rounds of them the call does.
CallsEnd ==
    \A s \in Sides :
        pc[s] \notin {"closed", "idle", "ended"} ~> pc[s] \in {"idle", "ended"}

\* A read returns 0 for EOF, as its comment says, only when nothing is left.
EofIsTheEnd ==
    [][pc["reader"] = "peer?" /\ pc'["reader"] = "idle" => held = 0]_vars

-----------------------------------------------------------------------------
(* The invariant that every step preserves.                                *)

TypeOK ==
    /\ held \in 0 .. Capacity
    /\ num \in [Sides -> {0, 1}]
    /\ mutex \in Sides \cup {Nobody}
    /\ pc \in [Sides -> {"closed", "idle", "look", "wait", "waiting",
                         "resumed", "peer?", "round", "lock", "move",
                         "wakeup", "closing", "ended"}]
    /\ count \in [Sides -> Nat]
    /\ left \in [Sides -> Nat]

\* A side counts as open from its open to its close.
CountedWhileOpen ==
    \A s \in Sides : num[s] = 0 <=> pc[s] \in {"closed", "closing", "ended"}

\* What was found available stays available until the mutex is taken.
FoundStaysThere ==
    \A s \in Sides : pc[s] = "lock" => count[s] <= Available(s)

PipeInv ==
    /\ TypeOK
    /\ CountedWhileOpen
    /\ SessionsStartEmpty
    /\ FoundStaysThere
    /\ TransfersAreWhole
=============================================================================
