----------------------------- MODULE KernelProps -----------------------------
(***************************************************************************)
(* What the task kernel promises, stated about the state of Kernel.tla.    *)
(***************************************************************************)
EXTENDS Kernel

\* The types of the state: the one shallow invariant, which the others need.
TypeOK ==
    /\ now \in Nat
    /\ run \in Tasks \cup {Dummy}
    /\ task_list \in SUBSET Tasks
    /\ status \in [Tasks -> Statuses]
    /\ priority \in [Tasks -> Priorities]
    /\ next_priority \in [Tasks -> Priorities]
    /\ wup_time \in [Tasks -> Nat]
    /\ queue \in [QueueIds -> Seq(Tasks)]
    /\ timeq \in Seq(Tasks)
    /\ fifo \in [Events -> Seq(Args)]
    /\ lock_ps \in [Mutexes -> Tasks \cup {NoTask}]
    /\ ret \in [Tasks -> Int]
    /\ arg \in [Tasks -> Args \cup {NoArg}]

-----------------------------------------------------------------------------
(* The queues.                                                             *)

\* No task is linked twice: st_tcb.queue is a single pair of links, so a task
\* on two lists, or twice on one, would tear both lists apart.
LinkedOnce ==
    \A i, j \in QueueIds :
        \A k \in DOMAIN queue[i], l \in DOMAIN queue[j] :
            queue[i][k] = queue[j][l] => i = j /\ k = l

\* The lists a task may be linked on, by its status.
HomeOf(t) ==
    CASE status[t] = "EVENT_WAIT"   -> {EventQ(e) : e \in Events}
      [] status[t] = "MUTEX_WAIT"   -> {MutexQ(m) : m \in Mutexes}
      [] status[t] = "REQUEST_WAIT" -> {WaitQ}
      [] status[t] = "TIMER_WAIT"   -> {}
      [] OTHER                      -> {Ready(priority[t])}

\* The status a task reports and the list it is linked on never disagree: the
\* tick unlinks a task only if its status says that it waits, and
\* del_next_queue() drops whoever is at the head.  A task that is still
\* DORMANT is linked only between task_add() and its first dispatch.
StatusNamesTheQueue ==
    /\ \A i \in QueueIds : \A t \in Range(queue[i]) : i \in HomeOf(t)
    /\ \A t \in Tasks :
          status[t] \notin {"DORMANT", "TIMER_WAIT"} =>
              \E i \in QueueIds : t \in Range(queue[i])

\* The running task is at the head of its own ready queue, which is the only
\* reason why a blocking call may drop the head without looking at it.
RunningTaskHeadsItsQueue ==
    /\ \A t \in Tasks : status[t] = "RUN" <=> t = run
    /\ run \in Tasks => /\ queue[Ready(priority[run])] # <<>>
                        /\ Head(queue[Ready(priority[run])]) = run

\* The idle task is always ready, so that a blocking call always finds a
\* task to dispatch.
IdleIsReady ==
    /\ Range(queue[Ready(BasePriority[Idle])]) = {Idle}
    /\ priority[Idle] = BasePriority[Idle]

\* The processor idles only when no other task is ready: no wakeup may leave
\* a task on a ready queue behind the idle task.
IdlesOnlyWithoutWork ==
    run = Idle =>
        \A p \in Priorities : Range(queue[Ready(p)]) \subseteq {Idle}

-----------------------------------------------------------------------------
(* Timeouts.                                                               *)

\* A task is on the timeout queue exactly while wup_time says so, once, and
\* only while it is waiting: a stale entry would resume the task in the middle
\* of something else.
TimeoutsAgree ==
    /\ \A i, j \in DOMAIN timeq : timeq[i] = timeq[j] => i = j
    /\ \A t \in Tasks : wup_time[t] # 0 <=> t \in Range(timeq)
    /\ \A t \in Range(timeq) :
          status[t] \in {"TIMER_WAIT", "EVENT_WAIT", "MUTEX_WAIT"}
    /\ \A t \in Tasks : status[t] = "TIMER_WAIT" => t \in Range(timeq)

\* The timeout queue is in the order of the deadlines: the tick looks only at
\* its head.
TimeoutsInOrder ==
    \A i, j \in DOMAIN timeq :
        i < j => wup_time[timeq[i]] <= wup_time[timeq[j]]

\* A sleeping task, or a waiter that is told its time ran out while it still
\* waits for the mutex or event, is resumed at or after its deadline.
NeverResumedEarly ==
    [][\A t \in Tasks :
          /\ t \in Range(timeq)
          /\ status[t] = "TIMER_WAIT" \/ ret[t] = -1
          /\ status'[t] = "RUN"
          /\ ret'[t] = ret[t]
          => now' >= wup_time[t]]_vars

\* Every wait with a timeout ends, one tick at a time, as long as the timer
\* interrupt keeps coming.
TimedWaitsEnd ==
    \A t \in Tasks : t \in Range(timeq) ~> t \notin Range(timeq)

-----------------------------------------------------------------------------
(* Events.                                                                 *)

\* Nobody waits for an event that is already stored: a task that looks at the
\* FIFO and the interrupt that fills it cannot miss each other.
NoWaiterMissesAnEvent ==
    \A e \in Events : queue[EventQ(e)] # <<>> => fifo[e] = <<>>

\* event_wait() is told a time left of 0 or more exactly when it was given an
\* event, however late the event came; otherwise its buffer is untouched.
ToldOfTheEvent ==
    [][\A t \in Tasks :
          status[t] = "EVENT_WAIT" /\ status'[t] = "RUN" =>
              (ret'[t] >= 0 <=> arg'[t] # NoArg)]_vars

-----------------------------------------------------------------------------
(* Mutexes.                                                                *)

\* Nobody waits for a mutex that is free, or that he holds himself.
WaitersWaitForTheHolder ==
    \A m \in Mutexes :
        queue[MutexQ(m)] # <<>> =>
            /\ lock_ps[m] # NoTask
            /\ lock_ps[m] \notin Range(queue[MutexQ(m)])

\* A held mutex changes hands only when its holder runs, and goes to the task
\* that has waited longest, which stops waiting: never to one that comes later
\* or whose wait has timed out.
HandedOverInOrder ==
    [][\A m \in Mutexes :
          lock_ps[m] # NoTask /\ lock_ps'[m] # lock_ps[m] =>
              /\ run = lock_ps[m]
              /\ IF queue[MutexQ(m)] = <<>> THEN lock_ps'[m] = NoTask
                 ELSE /\ lock_ps'[m] = Head(queue[MutexQ(m)])
                      /\ queue'[MutexQ(m)] = Tail(queue[MutexQ(m)])
                      /\ run' = lock_ps'[m]]_vars

\* A task that is handed a mutex is told so: mutex_lock() says that a result
\* below 0 means that the time ran out.
ToldOfTheMutex ==
    [][\A m \in Mutexes :
          lock_ps[m] # NoTask /\ lock_ps'[m] \notin {lock_ps[m], NoTask} =>
              ret'[lock_ps'[m]] >= 0]_vars

\* mutex_unlock() says that it returns the time left, and 0 for a mutex taken
\* without a timeout: here no call ever gives one.
UnlockToldZero ==
    [][\A m \in Mutexes :
          /\ Timeouts = {}
          /\ lock_ps[m] = run
          /\ lock_ps'[m] # run
          => ret'[run] = 0]_vars

-----------------------------------------------------------------------------
(* The scheduling the application sees.                                    *)

SchedulerState ==
    [t \in Tasks |->
        CASE t = run -> "RUN"
          [] t # run /\ (\E p \in Priorities : t \in Range(queue[Ready(p)]))
                -> "READY"
          [] OTHER -> IF status[t] = "DORMANT" THEN "DORMANT" ELSE "WAITING"]

Scheduling == INSTANCE Scheduler
                WITH Priority <- BasePriority, state <- SchedulerState

\* The kernel schedules as Scheduler.tla says: a blocking call passes the
\* processor to a ready task of the highest priority, and a task that is
\* resumed or started with task_exec() takes it at once, whatever its priority.
SchedulesByPriority == Scheduling!Spec

-----------------------------------------------------------------------------
(* The invariant that every step preserves.                                *)

\* No call of this module changes a priority, and a task that is not on
\* task_list_head is on no other list: its TCB may be started again.
RestIsKept ==
    /\ priority = BasePriority
    /\ next_priority = BasePriority
    /\ Idle \in task_list
    /\ \A t \in Tasks \ task_list :
          /\ status[t] = "DORMANT"
          /\ \A i \in QueueIds : t \notin Range(queue[i])

\* What the calls rely on together: none of the parts that concern the queues
\* is preserved without the others.
KernelInv ==
    /\ TypeOK
    /\ LinkedOnce
    /\ StatusNamesTheQueue
    /\ RunningTaskHeadsItsQueue
    /\ IdleIsReady
    /\ IdlesOnlyWithoutWork
    /\ TimeoutsAgree
    /\ RestIsKept
    /\ NoWaiterMissesAnEvent
    /\ WaitersWaitForTheHolder
=============================================================================
