---------------------------- MODULE KernelAdmin ----------------------------
(***************************************************************************)
(* The kernel with the two calls by which one task disposes of another:    *)
(* task_kill() and task_priority().                                        *)
(***************************************************************************)
EXTENDS KernelProps

VARIABLE killed     \* history: the tasks that task_kill() has been asked to end

adminVars == <<vars, killed>>

\* search_task_id() looks at the ready, wait and event queues; a task on the
\* timeout queue alone, or on the queue of a mutex, is not found.
SearchTaskId(t) ==
    \E i \in QueueIds \ {MutexQ(m) : m \in Mutexes} : t \in Range(queue[i])

\* Mistake: the caller is unlinked, as task_pause() does.
TaskKill_DropsTheCaller(t) ==
    /\ Caller
    /\ t \in task_list \ {Idle}
    /\ \/ /\ SearchTaskId(t)
          /\ Block(DelNextQueue(queue, Ready(priority[run])), "DORMANT", wup_time)
       \/ /\ ~ SearchTaskId(t)
          /\ UNCHANGED <<run, status, priority, wup_time, queue>>
    /\ NoResult
    /\ killed' = killed \cup {t}
    /\ UNCHANGED <<now, task_list, next_priority, timeq, fifo, lock_ps>>

\* task_kill(): the task is unlinked, but it is the caller that is given the
\* status DORMANT when somebody else is dispatched.
TaskKill(t) ==
    /\ Caller
    /\ t \in task_list \ {Idle}
    /\ \/ /\ SearchTaskId(t)
          /\ Block(DelQueue(queue, t), "DORMANT", wup_time)
       \/ /\ ~ SearchTaskId(t)
          /\ UNCHANGED <<run, status, priority, wup_time, queue>>
    /\ NoResult
    /\ killed' = killed \cup {t}
    /\ UNCHANGED <<now, task_list, next_priority, timeq, fifo, lock_ps>>

\* task_priority() of the caller: the priority changes when it is next taken
\* off the processor.
PriorityOfCaller(p) ==
    /\ Caller
    /\ next_priority' = [next_priority EXCEPT ![run] = p]
    /\ NoResult
    /\ UNCHANGED <<now, run, task_list, status, priority, wup_time, queue,
                   timeq, fifo, lock_ps, killed>>

\* task_priority() of another task, whatever queue that task is on.
PriorityOfOther(t, p) ==
    /\ Caller
    /\ t \in task_list \ {run, Idle}
    /\ priority' = [priority EXCEPT ![t] = p]
    /\ next_priority' = [next_priority EXCEPT ![t] = p]
    /\ NoResult
    /\ UNCHANGED <<now, run, task_list, status, wup_time, queue, timeq, fifo,
                   lock_ps, killed>>

TaskPriority ==
    \E p \in Priorities \ {BasePriority[Idle]} :
        \/ PriorityOfCaller(p)
        \/ \E t \in Tasks : PriorityOfOther(t, p)

Base == Next /\ UNCHANGED killed

AdminInit == Init /\ killed = {}

KillSpec == AdminInit /\ [][Base \/ \E t \in Tasks : TaskKill(t)]_adminVars

PrioritySpec == AdminInit /\ [][Base \/ TaskPriority]_adminVars

-----------------------------------------------------------------------------

\* task_kill() ends the task: it does not run again.
KilledTasksStop == run \notin killed

\* Whoever is killed, no other task is lost: every task that was started, has
\* not ended and was not killed is linked on a queue or has a timeout to come.
OthersAreNotLost ==
    \A t \in task_list \ killed :
        \/ t \in Range(timeq)
        \/ \E i \in QueueIds : t \in Range(queue[i])

\* A task that has called task_exit() is off the ready queues: it does not run
\* on.
EndedTasksStop == run \in task_list \cup {Dummy}
=============================================================================
