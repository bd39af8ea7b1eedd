-------------------------------- MODULE Pipe --------------------------------
(***************************************************************************)
(* A pipe of fs/pipefs.c between a task that writes and one that reads, as *)
(* the internet radio uses it.  The ring buffer is what Fifo.tla is shown  *)
(* to be, a queue that takes and gives one byte at a time, and only the    *)
(* number of bytes it holds matters here.                                  *)
(*                                                                         *)
(* Each side opens the pipe once in a session, and a session begins when   *)
(* the one before it has ended on both sides: clear_fifo() then never      *)
(* meets a read or a write in progress.                                    *)
(***************************************************************************)
EXTENDS Integers

CONSTANTS
    Capacity,   \* GSC_PIPEFS_MAX_BUF_COUNT
    Lengths,    \* what a call asks for
    Rounds,     \* PIPE_TIMEOUT / 10: the waits that may time out in one call
    Nobody      \* the mutex is free

Sides == {"reader", "writer"}

ASSUME PipeAssumption ==
    /\ Capacity \in Nat \ {0}
    /\ Lengths \subseteq Nat \ {0}
    /\ Rounds \in Nat \ {0}
    /\ Nobody \notin Sides

VARIABLES
    held,       \* how many bytes the FIFO holds
    num,        \* st_pipefs.reader_num and writer_num
    mutex,      \* the holder of st_pipefs.mutex
    pc,         \* where each side is
    count,      \* what its call asks for
    left,       \* the bytes its call has still to move
    rt,         \* how its last event_wait() ended
    timer,      \* the timed out waits its call has left
    result      \* what its last call returned

call == <<count, left, rt, timer, result>>
vars == <<held, num, mutex, pc, call>>

Peer(s) == IF s = "reader" THEN "writer" ELSE "reader"

\* The bytes a side can move: fifo_size() or fifo_free_size().
Available(s) == IF s = "reader" THEN held ELSE Capacity - held

Go(s, from, to) == pc[s] = from /\ pc' = [pc EXCEPT ![s] = to]

Init ==
    /\ held = 0
    /\ num = [s \in Sides |-> 0]
    /\ mutex = Nobody
    /\ pc = [s \in Sides |-> "closed"]
    /\ count = [s \in Sides |-> 0]
    /\ left = [s \in Sides |-> 0]
    /\ rt = [s \in Sides |-> 0]
    /\ timer = [s \in Sides |-> 0]
    /\ result = [s \in Sides |-> 0]

-----------------------------------------------------------------------------
(* open_pipefs() and close_pipefs()                                        *)

\* Mistake: what the pipe holds is kept.
Open_KeepsOldBytes(s) ==
    /\ Go(s, "closed", "idle")
    /\ num' = [num EXCEPT ![s] = @ + 1]
    /\ UNCHANGED <<held, mutex, call>>

\* An open that finds no writer throws away what the pipe holds.
Open(s) ==
    /\ Go(s, "closed", "idle")
    /\ held' = IF num["writer"] = 0 THEN 0 ELSE held
    /\ num' = [num EXCEPT ![s] = @ + 1]
    /\ UNCHANGED <<mutex, call>>

\* Mistake: a side that closes stays counted.
Close_Uncounted(s) ==
    /\ Go(s, "idle", "closing")
    /\ UNCHANGED <<held, num, mutex, call>>

\* close_pipefs() first counts itself out ...
Close(s) ==
    /\ Go(s, "idle", "closing")
    /\ num' = [num EXCEPT ![s] = @ - 1]
    /\ UNCHANGED <<held, mutex, call>>

\* The event that the peer waits for: it resumes a peer that waits now, and is
\* lost otherwise, because the event stores nothing.
WakeupPeer(s, from, to) ==
    /\ pc[s] = from
    /\ IF pc[Peer(s)] = "waiting"
       THEN /\ pc' = [pc EXCEPT ![s] = to, ![Peer(s)] = "resumed"]
            /\ rt' = [rt EXCEPT ![Peer(s)] = 0]
       ELSE /\ pc' = [pc EXCEPT ![s] = to]
            /\ UNCHANGED rt
    /\ UNCHANGED <<held, num, count, left, timer>>

\* ... and then wakes its peer.
Closed(s) ==
    /\ WakeupPeer(s, "closing", "ended")
    /\ UNCHANGED <<mutex, result>>

NewSession ==
    /\ \A s \in Sides : pc[s] = "ended"
    /\ pc' = [s \in Sides |-> "closed"]
    /\ UNCHANGED <<held, num, mutex, call>>

-----------------------------------------------------------------------------
(* read_pipefs() and write_pipefs(): waiting.                              *)

Call(s, n) ==
    /\ Go(s, "idle", "look")
    /\ count' = [count EXCEPT ![s] = n]
    /\ timer' = [timer EXCEPT ![s] = Rounds]
    /\ UNCHANGED <<held, num, mutex, left, rt, result>>

\* Mistake: one byte less is taken for enough.
Look_OneShort(s) ==
    /\ Go(s, "look", IF Available(s) + 1 >= count[s] THEN "lock" ELSE "wait")
    /\ UNCHANGED <<held, num, mutex, call>>

\* The size is looked at without the mutex.
Look(s) ==
    /\ Go(s, "look", IF Available(s) >= count[s] THEN "lock" ELSE "wait")
    /\ UNCHANGED <<held, num, mutex, call>>

\* event_wait(), with a timeout of 10 ms.
EventWait(s) ==
    /\ Go(s, "wait", "waiting")
    /\ UNCHANGED <<held, num, mutex, call>>

WaitTimesOut(s) ==
    /\ Go(s, "waiting", "resumed")
    /\ rt' = [rt EXCEPT ![s] = -1]
    /\ UNCHANGED <<held, num, mutex, count, left, timer, result>>

\* Nothing has come, or not enough has gone: is the peer still there?
AsksForPeer(s) == IF s = "reader" THEN held = 0 ELSE Available(s) < count[s]

LookAgain(s) ==
    /\ Go(s, "resumed", IF AsksForPeer(s) THEN "peer?" ELSE "round")
    /\ UNCHANGED <<held, num, mutex, call>>

Return(s, from, value) ==
    /\ Go(s, from, "idle")
    /\ result' = [result EXCEPT ![s] = value]

\* The peer has closed the pipe: the call returns 0, for a read its EOF.
PeerIsGone(s) ==
    /\ num[Peer(s)] = 0
    /\ Return(s, "peer?", 0)
    /\ UNCHANGED <<held, num, mutex, count, left, rt, timer>>

\* task_sleep() for 10 ms.
PeerIsThere(s) ==
    /\ num[Peer(s)] # 0
    /\ Go(s, "peer?", "round")
    /\ UNCHANGED <<held, num, mutex, call>>

\* Mistake: the waits that time out are not counted.
Round_Uncounted(s) ==
    /\ Go(s, "round", "look")
    /\ UNCHANGED <<held, num, mutex, call>>

\* A wait that has timed out is counted, one that an event has ended is not.
Round(s) ==
    LET rest == IF rt[s] < 0 THEN timer[s] - 1 ELSE timer[s]
    IN  /\ timer' = [timer EXCEPT ![s] = rest]
        /\ IF rt[s] < 0 /\ rest = 0
           THEN Return(s, "round", IF s = "reader" THEN -1 ELSE 0)
           ELSE Go(s, "round", "look") /\ UNCHANGED result
        /\ UNCHANGED <<held, num, mutex, count, left, rt>>

-----------------------------------------------------------------------------
(* read_pipefs() and write_pipefs(): moving the bytes.                     *)

StartMoving(s) ==
    /\ Go(s, "lock", "move")
    /\ left' = [left EXCEPT ![s] = count[s]]
    /\ UNCHANGED <<held, num, count, rt, timer, result>>

MutexLock(s) ==
    /\ mutex = Nobody
    /\ mutex' = s
    /\ StartMoving(s)

\* mutex_lock() may time out, and its result is not looked at.
MutexLockTimesOut(s) ==
    /\ mutex = Peer(s)
    /\ StartMoving(s)
    /\ UNCHANGED mutex

\* read_fifo() or write_fifo() moves one byte.
Move(s) ==
    /\ pc[s] = "move"
    /\ left[s] > 0
    /\ Available(s) > 0
    /\ held' = IF s = "reader" THEN held - 1 ELSE held + 1
    /\ left' = [left EXCEPT ![s] = @ - 1]
    /\ UNCHANGED <<num, mutex, pc, count, rt, timer, result>>

\* It has moved them all, or finds the FIFO empty or full: mutex_unlock(),
\* which does nothing unless the caller holds the mutex.
MutexUnlock(s) ==
    /\ left[s] = 0 \/ Available(s) = 0
    /\ Go(s, "move", "wakeup")
    /\ mutex' = IF mutex = s THEN Nobody ELSE mutex
    /\ UNCHANGED <<held, num, call>>

Returned(s) ==
    /\ WakeupPeer(s, "wakeup", "idle")
    /\ result' = [result EXCEPT ![s] = count[s] - left[s]]
    /\ UNCHANGED mutex

-----------------------------------------------------------------------------

\* The steps of a side inside a call of its own.
Work(s) ==
    \/ Closed(s)
    \/ Look(s) \/ EventWait(s) \/ WaitTimesOut(s) \/ LookAgain(s)
    \/ PeerIsGone(s) \/ PeerIsThere(s) \/ Round(s)
    \/ MutexLock(s) \/ MutexLockTimesOut(s)
    \/ Move(s) \/ MutexUnlock(s) \/ Returned(s)

Side(s) ==
    \/ Open(s) \/ Close(s)
    \/ \E n \in Lengths : Call(s, n)
    \/ Work(s)

Next == NewSession \/ \E s \in Sides : Side(s)

Spec == Init /\ [][Next]_vars

\* A side that is inside a call goes on: its waits and sleeps last 10 ms, and
\* no task of a higher priority runs for ever.  It need not call again.
FairSpec == Spec /\ \A s \in Sides : WF_vars(Work(s))
=============================================================================
