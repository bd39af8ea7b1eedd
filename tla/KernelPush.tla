----------------------------- MODULE KernelPush -----------------------------
(***************************************************************************)
(* The kernel with the two calls of interrupt handlers that take an event  *)
(* apart: event_push_ISR() stores its argument and event_set_ISR() resumes *)
(* a waiter.  The drivers of the keys, buttons and windows make both calls *)
(* in one handler, through push_event_interrupt() and                      *)
(* set_event_interrupt(); those of the touch panels only push.             *)
(***************************************************************************)
EXTENDS KernelProps

EventPush(e, a) ==
    /\ WriteFifo(e, a)
    /\ UNCHANGED <<now, run, task_list, status, priority, next_priority,
                   wup_time, queue, timeq, lock_ps, ret, arg>>

\* event_set_ISR(): the first waiter is told the time it had left, and its
\* argument buffer is not looked at.
EventSet(e) == ResumeWaiter(e)

\* One handler pushes an argument and resumes a waiter.
PushAndSet(e, a) ==
    /\ WriteFifo(e, a)
    /\ \/ EventSet(e)
       \/ /\ queue[EventQ(e)] = <<>>
          /\ UNCHANGED <<run, status, priority, wup_time, queue, timeq, ret>>
    /\ UNCHANGED <<now, task_list, next_priority, lock_ps, arg>>

PushNext ==
    \/ Next
    \/ \E e \in Events, a \in Args : EventPush(e, a) \/ PushAndSet(e, a)

PushSpec == Init /\ [][PushNext]_vars
=============================================================================
