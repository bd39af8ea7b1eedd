------------------------------- MODULE Kernel -------------------------------
(***************************************************************************)
(* The GadgetSeed task kernel (src/kernel/task): the ready, wait, event    *)
(* and mutex queues, the timeout queue, the system calls that move tasks   *)
(* between them and the timer tick.                                        *)
(*                                                                         *)
(* A system call runs in the SVC handler and a device or timer interrupt   *)
(* in its own handler, all at one NVIC priority, so each handler is one    *)
(* atomic step.  Every list threaded through st_tcb.queue is a component   *)
(* of the single variable queue, because the C code links and unlinks a    *)
(* task without looking at which list it is on.                            *)
(***************************************************************************)
EXTENDS Integers, FiniteSets, SequencesExt

CONSTANTS
    Tasks,          \* the task control blocks (st_tcb) of the application
    Idle,           \* idle_tcb
    Dummy,          \* dummy_task, the context before the first dispatch
    NoTask,         \* the null st_tcb pointer
    NumPriorities,  \* GSC_KERNEL_MAX_TASK_PRIORITY; 0 is the highest
    BasePriority,   \* the priority each TCB is started with
    Events,         \* st_event queues, registered before the tasks start
    EventSize,      \* st_event.size, the bytes of one event argument
    EventCount,     \* arg_count of eventqueue_register_ISR
    Mutexes,        \* st_mutex objects, registered before the tasks start
    Args,           \* the event arguments
    NoArg,          \* an event argument buffer nobody has filled
    Timeouts,       \* the non-zero times (msec) tasks sleep or wait for
    TickMs,         \* GSC_KERNEL_TIMER_INTERVAL_MSEC
    TimeModulus,    \* 2^32: st_tcb.wup_time is an unsigned int
    Garbage,        \* what mutex_unlock() may find in a result nobody set
    MaxTime         \* bound: the clock stops here, the ticks go on

Priorities == 0 .. NumPriorities - 1

ASSUME TaskAssumption ==
    /\ Idle \in Tasks
    /\ Dummy \notin Tasks
    /\ NoTask \notin Tasks
    /\ NumPriorities \in Nat \ {0}
    /\ BasePriority \in [Tasks -> Priorities]

\* TASK_PRIORITY_IDLE is the lowest, and only the idle task has it.
ASSUME IdleAssumption ==
    \A t \in Tasks \ {Idle} : BasePriority[t] < BasePriority[Idle]

ASSUME EventAssumption ==
    /\ EventSize \in [Events -> Nat]
    /\ EventCount \in [Events -> Nat]
    /\ \A e \in Events : EventSize[e] > 0 => EventCount[e] > 0
    /\ NoArg \notin Args

ASSUME TimeAssumption ==
    /\ Timeouts \subseteq Nat \ {0}
    /\ TickMs \in Nat \ {0}
    /\ TimeModulus \in Nat \ {0}
    /\ MaxTime \in Nat
    /\ MaxTime % TickMs = 0

ASSUME GarbageAssumption == Garbage # {} /\ Garbage \subseteq Int

VARIABLES
    now,            \* get_kernel_time(), in msec
    run,            \* run_task
    task_list,      \* the tasks on task_list_head
    status,         \* st_tcb.status
    priority,       \* st_tcb.priority
    next_priority,  \* st_tcb.next_priority
    wup_time,       \* st_tcb.wup_time, 0 when no timeout is pending
    queue,          \* the lists threaded through st_tcb.queue
    timeq,          \* timeout_wait_queue_head
    fifo,           \* the event arguments held in st_event.event
    lock_ps,        \* st_mutex.lock_ps, the task that holds the mutex
    ret,            \* the result in the parameters of the task's last wait
    arg             \* the argument buffer of the task's last event_wait

vars == <<now, run, task_list, status, priority, next_priority, wup_time,
          queue, timeq, fifo, lock_ps, ret, arg>>

-----------------------------------------------------------------------------
(* The lists and the operations of queue.c on them.                        *)

Ready(p)     == <<"ready", p>>
EventQ(e)    == <<"event", e>>
MutexQ(m)    == <<"mutex", m>>
WaitQ        == <<"wait", 0>>

QueueIds == ({"ready"} \X Priorities) \cup ({"event"} \X Events)
              \cup ({"mutex"} \X Mutexes) \cup {WaitQ}

Statuses == {"DORMANT", "READY", "RUN", "TIMER_WAIT", "EVENT_WAIT",
             "MUTEX_WAIT", "REQUEST_WAIT"}

AddQueue(q, i, t) == [q EXCEPT ![i] = Append(@, t)]

InsertQueue(q, i, t) == [q EXCEPT ![i] = <<t>> \o @]

DelNextQueue(q, i) == [q EXCEPT ![i] = IF @ = <<>> THEN <<>> ELSE Tail(@)]

\* A sequence without the task t, which it holds at most once.
Unlinked(s, t) ==
    IF t \in Range(s)
    THEN RemoveAt(s, CHOOSE i \in DOMAIN s : s[i] = t)
    ELSE s

\* del_queue() follows the links of t itself: t leaves whichever list it is on.
DelQueue(q, t) == [i \in QueueIds |-> Unlinked(q[i], t)]

-----------------------------------------------------------------------------
(* Scheduling: search_next_task, dispatch_task, wakeup_task.               *)

\* Mistake: the loop ends one level early.
SearchNextTask_SkipsIdle(q) ==
    LET levels == {p \in 0 .. NumPriorities - 2 : q[Ready(p)] # <<>>}
    IN  IF levels = {} THEN NoTask ELSE Head(q[Ready(Min(levels))])

\* Mistake: the levels are searched from the lowest.
SearchNextTask_FromTheEnd(q) ==
    LET levels == {p \in Priorities : q[Ready(p)] # <<>>}
    IN  IF levels = {} THEN NoTask ELSE Head(q[Ready(Max(levels))])

SearchNextTask(q) ==
    LET levels == {p \in Priorities : q[Ready(p)] # <<>>}
    IN  IF levels = {} THEN NoTask ELSE Head(q[Ready(Min(levels))])

\* dispatch_task(t, st), from the priorities pri and the deadlines wup that
\* the caller has set: the running task gets the status st and its pending
\* priority, and t runs with no timeout.
DispatchTask(t, st, pri, wup) ==
    IF t = NoTask
    THEN /\ UNCHANGED <<run, status>>
         /\ priority' = pri
         /\ wup_time' = wup
    ELSE /\ status' = [s \in Tasks |-> IF s = t THEN "RUN"
                                       ELSE IF s = run THEN st
                                       ELSE status[s]]
         /\ priority' = [s \in Tasks |-> IF s = run THEN next_priority[s]
                                         ELSE pri[s]]
         /\ wup_time' = [wup EXCEPT ![t] = 0]
         /\ run' = t

\* Mistake: whom to run is decided before the woken task is linked.
WakeupTask_DecidesTooEarly(t, q, pri, wup) ==
    /\ queue' = InsertQueue(q, Ready(pri[t]), t)
    /\ DispatchTask(SearchNextTask(q), "READY", pri, wup)

\* wakeup_task(t): t goes to the head of its ready queue and runs at once,
\* whatever the priority of the task it interrupts.
WakeupTask(t, q, pri, wup) ==
    /\ queue' = InsertQueue(q, Ready(pri[t]), t)
    /\ DispatchTask(t, "READY", pri, wup)

\* The tail of every call that blocks the running task on the queues q.
Block(q, st, wup) ==
    /\ queue' = q
    /\ DispatchTask(SearchNextTask(q), st, priority, wup)

OffReady == DelNextQueue(queue, Ready(priority[run]))

-----------------------------------------------------------------------------
(* The timeout queue (sleepqueue.c).                                       *)

Signed(x) ==
    LET u == x % TimeModulus
    IN  IF u < TimeModulus \div 2 THEN u ELSE u - TimeModulus

Deadline(d) == (now + d) % TimeModulus

\* Mistake: first come, first woken.
TimerSlot_AtTail(w) == Len(timeq) + 1

\* sleepqueue_add(): before the first task that wakes later than w.
TimerSlot(w) ==
    LET later == {i \in DOMAIN timeq : w < wup_time[timeq[i]]}
    IN  IF later = {} THEN Len(timeq) + 1 ELSE Min(later)

SleepqueueAdd(t, d) == timeq' = InsertAt(timeq, TimerSlot(Deadline(d)), t)

\* A wait with a timeout d, or without one when d = 0.
StartTimeout(d) ==
    IF d = 0 THEN UNCHANGED timeq ELSE SleepqueueAdd(run, d)

DeadlineAfter(d) ==
    IF d = 0 THEN wup_time ELSE [wup_time EXCEPT ![run] = Deadline(d)]

CanWaitFor(d) == d = 0 \/ (d \in Timeouts /\ now + d <= MaxTime)

\* Mistake: the entry of a resumed waiter is left on the timeout queue.
CancelTimeout_Forgets(t) == UNCHANGED timeq

\* The waiter t is resumed before its deadline.
CancelTimeout(t) ==
    IF wup_time[t] # 0 THEN timeq' = Unlinked(timeq, t) ELSE UNCHANGED timeq

Remaining(t) == IF wup_time[t] # 0 THEN Signed(wup_time[t] - now) ELSE 0

-----------------------------------------------------------------------------
(* The state left by init_task(), main() having registered the events and  *)
(* mutexes: only the idle task exists, and it has not run.                 *)

Init ==
    /\ now = 0
    /\ run = Dummy
    /\ task_list = {Idle}
    /\ status = [t \in Tasks |-> "DORMANT"]
    /\ priority = BasePriority
    /\ next_priority = BasePriority
    /\ wup_time = [t \in Tasks |-> 0]
    /\ queue = [i \in QueueIds |->
                    IF i = Ready(BasePriority[Idle]) THEN <<Idle>> ELSE <<>>]
    /\ timeq = <<>>
    /\ fifo = [e \in Events |-> <<>>]
    /\ lock_ps = [m \in Mutexes |-> NoTask]
    /\ ret = [t \in Tasks |-> 0]
    /\ arg = [t \in Tasks |-> NoArg]

\* idle_task() makes no system call.
Caller == run \in Tasks \ {Idle}

\* sys_call() points st_tcb.syscall.param at the parameters of the new call:
\* those of the caller's last wait are gone.
Result(r, a) ==
    /\ ret' = [ret EXCEPT ![run] = r]
    /\ arg' = [arg EXCEPT ![run] = a]

NoResult == Result(0, NoArg)

-----------------------------------------------------------------------------
(* Tasks start, end, pause and sleep.                                      *)

\* A TCB is started again only after its task has left task_list_head.
TaskInit(t) ==
    /\ run # Idle
    /\ t \notin task_list
    /\ task_list' = task_list \cup {t}
    /\ next_priority' = [next_priority EXCEPT ![t] = BasePriority[t]]
    /\ UNCHANGED <<now, timeq, fifo, lock_ps, ret, arg>>

\* task_exec(), from a task or from init_gs() before the first dispatch.
TaskExec(t) ==
    /\ TaskInit(t)
    /\ WakeupTask(t, queue, [priority EXCEPT ![t] = BasePriority[t]],
                  [wup_time EXCEPT ![t] = 0])

\* task_add(): the new task keeps the status DORMANT until it is dispatched.
TaskAdd(t) ==
    /\ TaskInit(t)
    /\ queue' = AddQueue(queue, Ready(BasePriority[t]), t)
    /\ status' = [status EXCEPT ![t] = "DORMANT"]
    /\ priority' = [priority EXCEPT ![t] = BasePriority[t]]
    /\ wup_time' = [wup_time EXCEPT ![t] = 0]
    /\ UNCHANGED run

\* Mistake: the task is not taken off its ready queue.
TaskExit_KeepsReady ==
    /\ Caller
    /\ task_list' = task_list \ {run}
    /\ Block(queue, "DORMANT", wup_time)
    /\ NoResult
    /\ UNCHANGED <<now, next_priority, timeq, fifo, lock_ps>>

TaskExit ==
    /\ Caller
    /\ task_list' = task_list \ {run}
    /\ Block(OffReady, "DORMANT", wup_time)
    /\ NoResult
    /\ UNCHANGED <<now, next_priority, timeq, fifo, lock_ps>>

TaskPause ==
    /\ Caller
    /\ Block(AddQueue(OffReady, WaitQ, run), "REQUEST_WAIT", wup_time)
    /\ NoResult
    /\ UNCHANGED <<now, task_list, next_priority, timeq, fifo, lock_ps>>

\* Mistake: the task is not taken off the wait queue.
TaskWakeup_StaysLinked(t) ==
    /\ t \in Range(queue[WaitQ])
    /\ WakeupTask(t, queue, priority, wup_time)
    /\ UNCHANGED <<now, task_list, next_priority, timeq, fifo, lock_ps, ret,
                   arg>>

\* task_wakeup() or task_wakeup_id_ISR(): a request for a task that is not
\* paused does nothing and is forgotten.
TaskWakeup(t) ==
    /\ t \in Range(queue[WaitQ])
    /\ WakeupTask(t, DelQueue(queue, t), priority, wup_time)
    /\ UNCHANGED <<now, task_list, next_priority, timeq, fifo, lock_ps, ret,
                   arg>>

TaskSleep(d) ==
    /\ Caller
    /\ d # 0 /\ CanWaitFor(d)
    /\ SleepqueueAdd(run, d)
    /\ Block(OffReady, "TIMER_WAIT", DeadlineAfter(d))
    /\ NoResult
    /\ UNCHANGED <<now, task_list, next_priority, fifo, lock_ps>>

-----------------------------------------------------------------------------
(* Events.                                                                 *)

\* The number of arguments that fit in the byte FIFO, which keeps one byte
\* free (Fifo.tla); an event without argument bytes is never stored.
FifoRoom(e) ==
    IF EventSize[e] = 0 THEN 0
    ELSE (EventSize[e] * EventCount[e] - 1) \div EventSize[e]

WriteFifo(e, a) ==
    fifo' = IF Len(fifo[e]) < FifoRoom(e)
            THEN [fifo EXCEPT ![e] = Append(@, a)]
            ELSE fifo

\* event_wait() takes a stored event and returns the whole timeout ...
EventWaitStored(e, d) ==
    /\ Caller
    /\ CanWaitFor(d)
    /\ fifo[e] # <<>>
    /\ fifo' = [fifo EXCEPT ![e] = Tail(@)]
    /\ Result(d, Head(fifo[e]))
    /\ UNCHANGED <<now, run, task_list, status, priority, next_priority,
                   wup_time, queue, timeq, lock_ps>>

\* Mistake: the FIFO is not looked at before the task waits.
EventWaitBlock_Blindly(e, d) ==
    /\ Caller
    /\ CanWaitFor(d)
    /\ Result(-1, NoArg)
    /\ StartTimeout(d)
    /\ Block(AddQueue(OffReady, EventQ(e), run), "EVENT_WAIT",
             DeadlineAfter(d))
    /\ UNCHANGED <<now, task_list, next_priority, fifo, lock_ps>>

\* ... or waits, its result set to -1 in case the time runs out.
EventWaitBlock(e, d) ==
    /\ Caller
    /\ CanWaitFor(d)
    /\ fifo[e] = <<>>
    /\ Result(-1, NoArg)
    /\ StartTimeout(d)
    /\ Block(AddQueue(OffReady, EventQ(e), run), "EVENT_WAIT",
             DeadlineAfter(d))
    /\ UNCHANGED <<now, task_list, next_priority, fifo, lock_ps>>

EventClear(e) ==
    /\ Caller
    /\ fifo' = [fifo EXCEPT ![e] = <<>>]
    /\ NoResult
    /\ UNCHANGED <<now, run, task_list, status, priority, next_priority,
                   wup_time, queue, timeq, lock_ps>>

\* Mistake: the time left of a late event is not clamped.
ResumeWaiter_NotClamped(e) ==
    LET t == Head(queue[EventQ(e)])
    IN  /\ queue[EventQ(e)] # <<>>
        /\ ret' = [ret EXCEPT ![t] = Remaining(t)]
        /\ CancelTimeout(t)
        /\ WakeupTask(t, DelNextQueue(queue, EventQ(e)), priority, wup_time)

\* _eventqueue_wakeup() and what follows it: the first waiter is resumed with
\* the time it had left, not less than 0.
ResumeWaiter(e) ==
    LET t == Head(queue[EventQ(e)])
        left == Remaining(t)
    IN  /\ queue[EventQ(e)] # <<>>
        /\ ret' = [ret EXCEPT ![t] = IF left < 0 THEN 0 ELSE left]
        /\ CancelTimeout(t)
        /\ WakeupTask(t, DelNextQueue(queue, EventQ(e)), priority, wup_time)

\* event_wakeup() or event_wakeup_ISR(), from a task or an interrupt handler:
\* the argument goes to the first waiter, else to the FIFO, else it is lost.
EventWakeup(e, a) ==
    /\ \/ /\ ResumeWaiter(e)
          /\ arg' = [arg EXCEPT ![Head(queue[EventQ(e)])] = a]
          /\ UNCHANGED fifo
       \/ /\ queue[EventQ(e)] = <<>>
          /\ WriteFifo(e, a)
          /\ UNCHANGED <<run, status, priority, wup_time, queue, timeq, ret,
                         arg>>
    /\ UNCHANGED <<now, task_list, next_priority, lock_ps>>

-----------------------------------------------------------------------------
(* Mutexes.                                                                *)

MutexLockFree(m, d) ==
    /\ Caller
    /\ CanWaitFor(d)
    /\ lock_ps[m] = NoTask
    /\ lock_ps' = [lock_ps EXCEPT ![m] = run]
    /\ Result(d, NoArg)
    /\ UNCHANGED <<now, run, task_list, status, priority, next_priority,
                   wup_time, queue, timeq, fifo>>

\* Locking a mutex one holds already is refused.
MutexLockOwn(m) ==
    /\ Caller
    /\ lock_ps[m] = run
    /\ Result(-1, NoArg)
    /\ UNCHANGED <<now, run, task_list, status, priority, next_priority,
                   wup_time, queue, timeq, fifo, lock_ps>>

MutexLockBlock(m, d) ==
    /\ Caller
    /\ CanWaitFor(d)
    /\ lock_ps[m] \notin {NoTask, run}
    /\ Result(-1, NoArg)
    /\ StartTimeout(d)
    /\ Block(AddQueue(OffReady, MutexQ(m), run), "MUTEX_WAIT",
             DeadlineAfter(d))
    /\ UNCHANGED <<now, task_list, next_priority, fifo, lock_ps>>

\* Mistake: the mutex is left with dummy_task instead of the null pointer.
MutexUnlockFree_ToDummy(m, g) ==
    /\ Caller
    /\ lock_ps[m] = run
    /\ queue[MutexQ(m)] = <<>>
    /\ lock_ps' = [lock_ps EXCEPT ![m] = Dummy]
    /\ Result(g, NoArg)
    /\ UNCHANGED <<now, run, task_list, status, priority, next_priority,
                   wup_time, queue, timeq, fifo>>

MutexUnlockFree(m, g) ==
    /\ Caller
    /\ lock_ps[m] = run
    /\ queue[MutexQ(m)] = <<>>
    /\ lock_ps' = [lock_ps EXCEPT ![m] = NoTask]
    /\ Result(g, NoArg)
    /\ UNCHANGED <<now, run, task_list, status, priority, next_priority,
                   wup_time, queue, timeq, fifo>>

\* Mistake: the mutex is freed and the first waiter left to lock it again.
MutexUnlockHandOver_ToNobody(m, g) ==
    LET t == Head(queue[MutexQ(m)])
    IN  /\ Caller
        /\ lock_ps[m] = run
        /\ queue[MutexQ(m)] # <<>>
        /\ lock_ps' = [lock_ps EXCEPT ![m] = NoTask]
        /\ ret' = [ret EXCEPT ![t] = Remaining(t), ![run] = g]
        /\ arg' = [arg EXCEPT ![run] = NoArg]
        /\ CancelTimeout(t)
        /\ WakeupTask(t, DelNextQueue(queue, MutexQ(m)), priority, wup_time)
        /\ UNCHANGED <<now, task_list, next_priority, fifo>>

\* Mistake: anyone may unlock.
MutexUnlockHandOver_ByAnyone(m, g) ==
    LET t == Head(queue[MutexQ(m)])
    IN  /\ Caller
        /\ queue[MutexQ(m)] # <<>>
        /\ lock_ps' = [lock_ps EXCEPT ![m] = t]
        /\ ret' = [ret EXCEPT ![t] = Remaining(t), ![run] = g]
        /\ arg' = [arg EXCEPT ![run] = NoArg]
        /\ CancelTimeout(t)
        /\ WakeupTask(t, DelNextQueue(queue, MutexQ(m)), priority, wup_time)
        /\ UNCHANGED <<now, task_list, next_priority, fifo>>

\* The mutex goes straight to the first waiter, which runs at once.  The
\* result g that mutex_unlock() itself returns is whatever its stack holds.
MutexUnlockHandOver(m, g) ==
    LET t == Head(queue[MutexQ(m)])
    IN  /\ Caller
        /\ lock_ps[m] = run
        /\ queue[MutexQ(m)] # <<>>
        /\ lock_ps' = [lock_ps EXCEPT ![m] = t]
        /\ ret' = [ret EXCEPT ![t] = Remaining(t), ![run] = g]
        /\ arg' = [arg EXCEPT ![run] = NoArg]
        /\ CancelTimeout(t)
        /\ WakeupTask(t, DelNextQueue(queue, MutexQ(m)), priority, wup_time)
        /\ UNCHANGED <<now, task_list, next_priority, fifo>>

\* A mutex held by nobody or by another task is left alone.
MutexUnlockRefused(m, g) ==
    /\ Caller
    /\ lock_ps[m] # run
    /\ Result(g, NoArg)
    /\ UNCHANGED <<now, run, task_list, status, priority, next_priority,
                   wup_time, queue, timeq, fifo, lock_ps>>

-----------------------------------------------------------------------------
(* Time.  get_kernel_time() adds the time since the last tick, so that     *)
(* the clock moves between the ticks that look at the timeout queue.       *)

Elapse ==
    /\ now < MaxTime
    /\ (now + 1) % TickMs # 0
    /\ now' = now + 1
    /\ UNCHANGED <<run, task_list, status, priority, next_priority, wup_time,
                   queue, timeq, fifo, lock_ps, ret, arg>>

\* Mistake: the head of the timeout queue is resumed without a look at the time.
TimeoutDue_Always(time) == run # Dummy /\ timeq # <<>>

\* Mistake: = for >=, so that a deadline between two ticks is missed.
TimeoutDue_Exactly(time) ==
    /\ run # Dummy
    /\ timeq # <<>>
    /\ time = wup_time[Head(timeq)]

\* The first task of the timeout queue is due; nothing is scheduled before
\* the first dispatch (enable_schedule).
TimeoutDue(time) ==
    /\ run # Dummy
    /\ timeq # <<>>
    /\ time >= wup_time[Head(timeq)]

\* Mistake: only event waiters are taken off the queue they wait on.
TaskSchedule_ForgetsMutex(time) ==
    IF TimeoutDue(time)
    THEN LET t == Head(timeq)
         IN  /\ timeq' = Tail(timeq)
             /\ WakeupTask(t, IF status[t] = "EVENT_WAIT"
                              THEN DelQueue(queue, t) ELSE queue,
                           priority, wup_time)
    ELSE UNCHANGED <<run, status, priority, wup_time, queue, timeq>>

\* task_schedule(): one tick resumes at most one task.
TaskSchedule(time) ==
    IF TimeoutDue(time)
    THEN LET t == Head(timeq)
         IN  /\ timeq' = Tail(timeq)
             /\ WakeupTask(t, IF status[t] \in {"EVENT_WAIT", "MUTEX_WAIT"}
                              THEN DelQueue(queue, t) ELSE queue,
                           priority, wup_time)
    ELSE UNCHANGED <<run, status, priority, wup_time, queue, timeq>>

Tick ==
    /\ now' = IF now < MaxTime THEN now + 1 ELSE now
    /\ now' % TickMs = 0
    /\ TaskSchedule(now')
    /\ UNCHANGED <<task_list, next_priority, fifo, lock_ps, ret, arg>>

-----------------------------------------------------------------------------

TaskCall ==
    \/ \E t \in Tasks : TaskExec(t) \/ TaskAdd(t) \/ TaskWakeup(t)
    \/ TaskExit
    \/ TaskPause
    \/ \E d \in Timeouts : TaskSleep(d)

EventCall ==
    \E e \in Events :
        \/ \E d \in Timeouts \cup {0} : EventWaitStored(e, d)
        \/ \E d \in Timeouts \cup {0} : EventWaitBlock(e, d)
        \/ EventClear(e)
        \/ \E a \in Args : EventWakeup(e, a)

MutexCall ==
    \E m \in Mutexes :
        \/ \E d \in Timeouts \cup {0} : MutexLockFree(m, d)
        \/ MutexLockOwn(m)
        \/ \E d \in Timeouts \cup {0} : MutexLockBlock(m, d)
        \/ \E g \in Garbage : \/ MutexUnlockFree(m, g)
                             \/ MutexUnlockHandOver(m, g)
                             \/ MutexUnlockRefused(m, g)

Clock == Elapse \/ Tick

Next == TaskCall \/ EventCall \/ MutexCall \/ Clock

Spec == Init /\ [][Next]_vars

\* The timer interrupt keeps coming.  No task is assumed to make progress.
FairSpec == Spec /\ WF_vars(Clock)
=============================================================================
