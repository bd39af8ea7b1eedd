--------------------------- MODULE KernelTheorems ---------------------------
(***************************************************************************)
(* The invariants of the kernel as theorems of its specification: those of *)
(* the scheduler from KernelProofs, and on top of them those that relate   *)
(* the wait queues to the contents of the events and mutexes.              *)
(*                                                                         *)
(* The second part is the timeout queue: it is in the order of the         *)
(* deadlines, and no wait ends before its own.                             *)
(*                                                                         *)
(* A task that is dispatched gets the deadline 0, and by Core a task with  *)
(* the deadline 0 is not on the timeout queue: so the tasks that are on it *)
(* after a step have the deadlines they had before, but for the one that   *)
(* the step has put there.                                                 *)
(*                                                                         *)
(* The third is that task_kill() loses nobody else, and the last that the  *)
(* kernel implements Scheduler.tla.                                        *)
(***************************************************************************)
EXTENDS KernelProofs, KernelAdmin

DataTypes ==
    /\ fifo \in [Events -> Seq(Args)]
    /\ lock_ps \in [Mutexes -> Tasks \cup {NoTask}]
    /\ ret \in [Tasks -> Int]
    /\ arg \in [Tasks -> Args \cup {NoArg}]

EventsKept ==
    \A e \in Events : Range(queue[EventQ(e)]) # {} => fifo[e] = <<>>

MutexesKept ==
    \A m \in Mutexes :
        Range(queue[MutexQ(m)]) # {} =>
            /\ lock_ps[m] # NoTask
            /\ lock_ps[m] \notin Range(queue[MutexQ(m)])

\* The part of KernelInv that Core leaves open.
Data == DataTypes /\ EventsKept /\ MutexesKept

-----------------------------------------------------------------------------
(* What the steps do to the wait queues.                                   *)

\* A task that is resumed is linked on a ready queue only.
LEMMA WakeupQueues ==
    ASSUME NEW t \in Tasks, NEW q, Queued(q), NEW wup,
           WakeupTask(t, q, BasePriority, wup)
    PROVE  \A i \in QueueIds :
              (\A p \in Priorities : i # Ready(p)) => queue'[i] = q[i]
<1>1. queue' = InsertQueue(q, Ready(BasePriority[t]), t)
  BY DEF WakeupTask
<1>2. BasePriority[t] \in Priorities
  BY HomeFacts
<1>3. q \in [QueueIds -> Seq(Tasks)]
  BY DEF Queued
<1> QED
  BY <1>1, <1>2, <1>3 DEF InsertQueue

\* A step that takes tasks off the wait queues at most.
Shrinks ==
    /\ \A e \in Events : Range(queue'[EventQ(e)]) \subseteq Range(queue[EventQ(e)])
    /\ \A m \in Mutexes : Range(queue'[MutexQ(m)]) \subseteq Range(queue[MutexQ(m)])

LEMMA ShrinkKeepsData ==
    ASSUME Data, DataTypes', Shrinks, UNCHANGED <<fifo, lock_ps>>
    PROVE  Data'
<1>1. EventsKept'
  BY DEF Data, EventsKept, Shrinks
<1>2. MutexesKept'
  BY DEF Data, MutexesKept, Shrinks
<1> QED
  BY <1>1, <1>2 DEF Data

\* The results of a system call.
LEMMA ResultTypes ==
    ASSUME DataTypes, Caller, NEW r \in Int, NEW a \in Args \cup {NoArg},
           Result(r, a), fifo' \in [Events -> Seq(Args)],
           lock_ps' \in [Mutexes -> Tasks \cup {NoTask}]
    PROVE  DataTypes'
BY DEF DataTypes, Result, Caller

\* The time a waiter has left is a number.
LEMMA RemainingType ==
    ASSUME Core, NEW t \in Tasks
    PROVE  Remaining(t) \in Int
<1> DEFINE x == wup_time[t] - now
           u == x % TimeModulus
<1>1. x \in Int /\ TimeModulus \in Nat \ {0}
  BY TimeAssumption DEF Core, SchedTypes
<1>2. u \in Int
  <2> HIDE DEF x
  <2> QED
    BY <1>1
<1>3. TimeModulus \div 2 \in Int
  BY <1>1
<1>4. Signed(x) \in Int
  <2>1. Signed(x) = IF u < TimeModulus \div 2 THEN u ELSE u - TimeModulus
    BY DEF Signed
  <2> HIDE DEF x, u
  <2> QED
    BY <1>1, <1>2, <1>3, <2>1
<1> QED
  BY <1>4 DEF Remaining

LEMMA TaskCallKeepsData ==
    ASSUME NoWrap, Core, Core', Data, TaskCall
    PROVE  Data'
<1>0. /\ DataTypes
      /\ NoTask \notin Tasks
      /\ priority = BasePriority
      /\ Queued(queue)
      /\ priority \in [Tasks -> Priorities]
      /\ 0 \in Int
  BY TaskAssumption DEF Data, Core, Placed
<1>1. ASSUME NEW t \in Tasks, TaskExec(t)
      PROVE  Data'
  <2>1. UNCHANGED <<fifo, lock_ps, ret, arg>>
    BY <1>1 DEF TaskExec, TaskInit
  <2>2. [priority EXCEPT ![t] = BasePriority[t]] = BasePriority
    BY <1>0
  <2>3. WakeupTask(t, queue, BasePriority, [wup_time EXCEPT ![t] = 0])
    BY <1>1, <2>2 DEF TaskExec
  <2>4. \A i \in QueueIds :
           (\A p \in Priorities : i # Ready(p)) => queue'[i] = queue[i]
    BY ONLY t \in Tasks, <1>0, <2>3, WakeupQueues
  <2>5. Shrinks
    BY <2>4, QueueIdFacts DEF Shrinks
  <2> QED
    BY <1>0, <2>1, <2>5, ShrinkKeepsData DEF DataTypes
<1>2. ASSUME NEW t \in Tasks, TaskAdd(t)
      PROVE  Data'
  <2>1. /\ UNCHANGED <<fifo, lock_ps, ret, arg>>
        /\ queue' = AddQueue(queue, Ready(BasePriority[t]), t)
    BY <1>2 DEF TaskAdd, TaskInit
  <2>2. Shrinks
    <3>1. BasePriority[t] \in Priorities
      BY HomeFacts
    <3> QED
      BY <1>0, <2>1, <3>1, QueueIdFacts DEF Shrinks, AddQueue, Queued
  <2> QED
    BY <1>0, <2>1, <2>2, ShrinkKeepsData DEF DataTypes
<1>3. ASSUME NEW t \in Tasks, TaskWakeup(t)
      PROVE  Data'
  <2> DEFINE q == DelQueue(queue, t)
  <2>1. /\ UNCHANGED <<fifo, lock_ps, ret, arg>>
        /\ WakeupTask(t, q, BasePriority, wup_time)
    BY <1>0, <1>3 DEF TaskWakeup
  <2>2. Queued(q) /\ \A i \in QueueIds : Range(q[i]) = Range(queue[i]) \ {t}
    BY ONLY <1>0, DelQueueUnlinks
  <2> HIDE DEF q
  <2>3. \A i \in QueueIds :
           (\A p \in Priorities : i # Ready(p)) => queue'[i] = q[i]
    BY ONLY t \in Tasks, <2>1, <2>2, WakeupQueues
  <2>4. Shrinks
    BY <2>2, <2>3, QueueIdFacts DEF Shrinks
  <2> QED
    BY <1>0, <2>1, <2>4, ShrinkKeepsData DEF DataTypes
\* The calls that block the caller outside the events and mutexes.
<1>4. ASSUME Caller, NoResult, UNCHANGED <<fifo, lock_ps>>,
             queue' = OffReady \/ queue' = AddQueue(OffReady, WaitQ, run)
      PROVE  Data'
  <2>1. DataTypes'
    BY <1>0, <1>4, ResultTypes DEF NoResult, DataTypes
  <2>2. /\ Queued(OffReady)
        /\ \A i \in QueueIds : Range(OffReady[i]) = Range(queue[i]) \ {run}
    BY <1>4, OffReadyFacts
  <2>3. \A i \in QueueIds : i # WaitQ => queue'[i] = OffReady[i]
    BY <1>4, <2>2 DEF AddQueue, Queued
  <2>4. Shrinks
    BY <2>2, <2>3, QueueIdFacts DEF Shrinks
  <2> QED
    BY <1>4, <2>1, <2>4, ShrinkKeepsData
<1>5. CASE TaskExit
  BY <1>4, <1>5 DEF TaskExit, Block
<1>6. CASE TaskPause
  BY <1>4, <1>6 DEF TaskPause, Block
<1>7. ASSUME NEW d \in Timeouts, TaskSleep(d)
      PROVE  Data'
  BY <1>4, <1>7 DEF TaskSleep, Block
<1> QED
  BY <1>1, <1>2, <1>3, <1>5, <1>6, <1>7 DEF TaskCall

\* The first waiter of the list i leaves it; the other wait queues stay.
LEMMA HeadWakeupQueues ==
    ASSUME Core, NEW i \in QueueIds, \A p \in Priorities : i # Ready(p),
           queue[i] # <<>>, NEW t, t = Head(queue[i]),
           WakeupTask(t, DelNextQueue(queue, i), priority, wup_time)
    PROVE  /\ t \in Tasks
           /\ t \in Range(queue[i])
           /\ queue'[i] = Tail(queue[i])
           /\ Range(queue'[i]) = Range(queue[i]) \ {t}
           /\ \A j \in QueueIds \ {i} :
                 (\A p \in Priorities : j # Ready(p)) => queue'[j] = queue[j]
<1> DEFINE q == DelNextQueue(queue, i)
<1>1. Queued(queue) /\ t \in Range(queue[i])
  BY QueuedTasks DEF Core, Placed
<1>2. t \in Tasks
  BY <1>1, QueuedTasks
<1>3. /\ Queued(q)
      /\ SameBut(queue, q, i)
      /\ q[i] = Tail(queue[i])
      /\ Range(q[i]) = Range(queue[i]) \ {t}
  BY ONLY <1>1, i \in QueueIds, queue[i] # <<>>, t = Head(queue[i]),
          DelNextQueueUnlinks
<1>4. WakeupTask(t, q, BasePriority, wup_time)
  BY DEF Core
<1> HIDE DEF q
<1>5. \A j \in QueueIds :
         (\A p \in Priorities : j # Ready(p)) => queue'[j] = q[j]
  BY ONLY <1>2, <1>3, <1>4, WakeupQueues
<1> QED
  BY <1>1, <1>2, <1>3, <1>5 DEF SameBut

\* The running task joins the wait queue i; the other wait queues stay.
LEMMA WaitQueues ==
    ASSUME Core, Caller, NEW i \in QueueIds, \A p \in Priorities : i # Ready(p),
           queue' = AddQueue(OffReady, i, run)
    PROVE  /\ Range(queue'[i]) = Range(queue[i]) \cup {run}
           /\ \A j \in QueueIds \ {i} :
                 (\A p \in Priorities : j # Ready(p)) => queue'[j] = queue[j]
<1>1. /\ run \in Tasks
      /\ BasePriority[run] \in Priorities
  BY TaskAssumption DEF Caller
<1>2. /\ Queued(OffReady)
      /\ Off(OffReady, run)
      /\ \A j \in QueueIds :
            j # Ready(BasePriority[run]) => OffReady[j] = queue[j]
  BY OffReadyFacts
<1> DEFINE q == AddQueue(OffReady, i, run)
<1>3. /\ SameBut(OffReady, q, i)
      /\ Range(q[i]) = Range(OffReady[i]) \cup {run}
  BY ONLY <1>1, <1>2, i \in QueueIds, AddQueueLinks
<1> QED
  BY <1>1, <1>2, <1>3 DEF SameBut

LEMMA EventCallKeepsData ==
    ASSUME NoWrap, Core, Core', Data, EventCall
    PROVE  Data'
<1>0. /\ DataTypes
      /\ EventsKept
      /\ MutexesKept
      /\ Queued(queue)
      /\ Queued(queue')
      /\ NoArg \in Args \cup {NoArg}
      /\ 0 \in Int /\ -1 \in Int
      /\ Timeouts \cup {0} \subseteq Int
  BY TimeAssumption DEF Data, Core, Placed
<1> SUFFICES ASSUME NEW e \in Events,
                    \/ \E d \in Timeouts \cup {0} : EventWaitStored(e, d)
                    \/ \E d \in Timeouts \cup {0} : EventWaitBlock(e, d)
                    \/ EventClear(e)
                    \/ \E a \in Args : EventWakeup(e, a)
             PROVE  Data'
  BY DEF EventCall
<1>1. ASSUME NEW d \in Timeouts \cup {0}, EventWaitStored(e, d)
      PROVE  Data'
  <2>1. /\ Caller
        /\ fifo[e] # <<>>
        /\ fifo' = [fifo EXCEPT ![e] = Tail(fifo[e])]
        /\ Result(d, Head(fifo[e]))
        /\ queue' = queue /\ lock_ps' = lock_ps
    BY <1>1 DEF EventWaitStored
  <2>2. fifo[e] \in Seq(Args)
    BY <1>0 DEF DataTypes
  <2>3. Head(fifo[e]) \in Args /\ Tail(fifo[e]) \in Seq(Args)
    BY <2>1, <2>2, HeadTailProperties
  <2>4. DataTypes'
    <3>1. fifo' \in [Events -> Seq(Args)]
      BY <1>0, <2>1, <2>3 DEF DataTypes
    <3>2. lock_ps' \in [Mutexes -> Tasks \cup {NoTask}]
      BY <1>0, <2>1 DEF DataTypes
    <3> QED
      BY <1>0, <2>1, <2>3, <3>1, <3>2, ResultTypes
  <2>5. EventsKept' /\ MutexesKept'
    BY <1>0, <2>1 DEF EventsKept, MutexesKept, DataTypes
  <2> QED
    BY <2>4, <2>5 DEF Data
<1>2. ASSUME NEW d \in Timeouts \cup {0}, EventWaitBlock(e, d)
      PROVE  Data'
  <2>1. /\ Caller
        /\ fifo[e] = <<>>
        /\ Result(-1, NoArg)
        /\ queue' = AddQueue(OffReady, EventQ(e), run)
        /\ fifo' = fifo /\ lock_ps' = lock_ps
    BY <1>2 DEF EventWaitBlock, Block
  <2>2. DataTypes'
    BY <1>0, <2>1, ResultTypes DEF DataTypes
  <2>3. /\ \A f \in Events \ {e} : queue'[EventQ(f)] = queue[EventQ(f)]
        /\ \A m \in Mutexes : queue'[MutexQ(m)] = queue[MutexQ(m)]
    BY <2>1, WaitQueues, QueueIdFacts
  <2>4. EventsKept' /\ MutexesKept'
    BY <1>0, <2>1, <2>3 DEF EventsKept, MutexesKept
  <2> QED
    BY <2>2, <2>4 DEF Data
<1>3. CASE EventClear(e)
  <2>1. /\ Caller
        /\ fifo' = [fifo EXCEPT ![e] = <<>>]
        /\ Result(0, NoArg)
        /\ queue' = queue /\ lock_ps' = lock_ps
    BY <1>3 DEF EventClear, NoResult
  <2>2. DataTypes'
    BY <1>0, <2>1, ResultTypes DEF DataTypes
  <2>3. EventsKept' /\ MutexesKept'
    BY <1>0, <2>1 DEF EventsKept, MutexesKept, DataTypes
  <2> QED
    BY <2>2, <2>3 DEF Data
<1>4. ASSUME NEW a \in Args, EventWakeup(e, a)
      PROVE  Data'
  <2>1. CASE queue[EventQ(e)] = <<>>
    <3>1. /\ WriteFifo(e, a)
          /\ UNCHANGED <<queue, ret, arg, lock_ps>>
      BY <1>4, <2>1 DEF EventWakeup, ResumeWaiter
    <3>2. fifo' \in [Events -> Seq(Args)]
      BY <1>0, <3>1 DEF DataTypes, WriteFifo
    <3>3. \A f \in Events \ {e} : fifo'[f] = fifo[f]
      BY <1>0, <3>1 DEF DataTypes, WriteFifo
    <3>4. Range(queue[EventQ(e)]) = {}
      BY <2>1 DEF Range
    <3> QED
      BY <1>0, <3>1, <3>2, <3>3, <3>4
         DEF Data, DataTypes, EventsKept, MutexesKept
  <2>2. CASE queue[EventQ(e)] # <<>>
    <3> DEFINE i == EventQ(e)
               t == Head(queue[i])
               left == Remaining(t)
    <3>1. /\ ret' = [ret EXCEPT ![t] = IF left < 0 THEN 0 ELSE left]
          /\ arg' = [arg EXCEPT ![t] = a]
          /\ WakeupTask(t, DelNextQueue(queue, i), priority, wup_time)
          /\ UNCHANGED <<fifo, lock_ps>>
      BY <1>4, <2>2 DEF EventWakeup, ResumeWaiter
    <3>2. /\ i \in QueueIds
          /\ \A p \in Priorities : i # Ready(p)
          /\ queue[i] # <<>>
          /\ t = Head(queue[i])
          /\ \A f \in Events \ {e} :
                EventQ(f) \in QueueIds \ {i}
                /\ \A p \in Priorities : EventQ(f) # Ready(p)
          /\ \A m \in Mutexes :
                MutexQ(m) \in QueueIds \ {i}
                /\ \A p \in Priorities : MutexQ(m) # Ready(p)
      BY <2>2, QueueIdFacts
    <3> HIDE DEF i, t
    <3>3. /\ t \in Tasks
          /\ Range(queue'[i]) = Range(queue[i]) \ {t}
          /\ \A j \in QueueIds \ {i} :
                (\A p \in Priorities : j # Ready(p)) => queue'[j] = queue[j]
      BY ONLY Core, <3>1, <3>2, HeadWakeupQueues
    <3>4. left \in Int
      BY <3>3, RemainingType
    <3>5. DataTypes'
      <4> HIDE DEF left
      <4> QED
        BY <1>0, <3>1, <3>3, <3>4 DEF DataTypes
    <3>6. Shrinks
      <4>1. Range(queue'[EventQ(e)]) \subseteq Range(queue[EventQ(e)])
        BY <3>3 DEF i
      <4> QED
        BY <3>2, <3>3, <4>1 DEF Shrinks
    <3> QED
      BY <3>1, <3>5, <3>6, ShrinkKeepsData
  <2> QED
    BY <2>1, <2>2
<1> QED
  BY <1>1, <1>2, <1>3, <1>4

LEMMA MutexCallKeepsData ==
    ASSUME NoWrap, Core, Core', Data, MutexCall
    PROVE  Data'
<1>0. /\ DataTypes
      /\ EventsKept
      /\ MutexesKept
      /\ NoTask \notin Tasks
      /\ NoArg \in Args \cup {NoArg}
      /\ 0 \in Int /\ -1 \in Int
      /\ Timeouts \cup {0} \subseteq Int
      /\ Garbage \subseteq Int
  BY TaskAssumption, TimeAssumption, GarbageAssumption DEF Data
<1> SUFFICES ASSUME NEW m \in Mutexes,
                    \/ \E d \in Timeouts \cup {0} : MutexLockFree(m, d)
                    \/ MutexLockOwn(m)
                    \/ \E d \in Timeouts \cup {0} : MutexLockBlock(m, d)
                    \/ \E g \in Garbage : \/ MutexUnlockFree(m, g)
                                         \/ MutexUnlockHandOver(m, g)
                                         \/ MutexUnlockRefused(m, g)
             PROVE  Data'
  BY DEF MutexCall
<1>1. ASSUME NEW d \in Timeouts \cup {0}, MutexLockFree(m, d)
      PROVE  Data'
  <2>1. /\ Caller
        /\ lock_ps[m] = NoTask
        /\ lock_ps' = [lock_ps EXCEPT ![m] = run]
        /\ Result(d, NoArg)
        /\ queue' = queue /\ fifo' = fifo
    BY <1>1 DEF MutexLockFree
  <2>2. DataTypes'
    <3>1. lock_ps' \in [Mutexes -> Tasks \cup {NoTask}]
      BY <1>0, <2>1 DEF DataTypes, Caller
    <3> QED
      BY <1>0, <2>1, <3>1, ResultTypes DEF DataTypes
  <2>3. EventsKept' /\ MutexesKept'
    BY <1>0, <2>1 DEF EventsKept, MutexesKept, DataTypes
  <2> QED
    BY <2>2, <2>3 DEF Data
<1>2. CASE MutexLockOwn(m)
  <2>1. /\ Caller
        /\ Result(-1, NoArg)
        /\ queue' = queue /\ fifo' = fifo /\ lock_ps' = lock_ps
    BY <1>2 DEF MutexLockOwn
  <2>2. DataTypes'
    BY <1>0, <2>1, ResultTypes DEF DataTypes
  <2> QED
    BY <1>0, <2>1, <2>2 DEF Data, EventsKept, MutexesKept
<1>3. ASSUME NEW d \in Timeouts \cup {0}, MutexLockBlock(m, d)
      PROVE  Data'
  <2>1. /\ Caller
        /\ lock_ps[m] \notin {NoTask, run}
        /\ Result(-1, NoArg)
        /\ queue' = AddQueue(OffReady, MutexQ(m), run)
        /\ fifo' = fifo /\ lock_ps' = lock_ps
    BY <1>3 DEF MutexLockBlock, Block
  <2>2. DataTypes'
    BY <1>0, <2>1, ResultTypes DEF DataTypes
  <2>3. /\ Range(queue'[MutexQ(m)]) = Range(queue[MutexQ(m)]) \cup {run}
        /\ \A e \in Events : queue'[EventQ(e)] = queue[EventQ(e)]
        /\ \A n \in Mutexes \ {m} : queue'[MutexQ(n)] = queue[MutexQ(n)]
    BY <2>1, WaitQueues, QueueIdFacts
  <2>4. EventsKept' /\ MutexesKept'
    BY <1>0, <2>1, <2>3 DEF EventsKept, MutexesKept
  <2> QED
    BY <2>2, <2>4 DEF Data
<1>4. ASSUME NEW g \in Garbage, MutexUnlockFree(m, g)
      PROVE  Data'
  <2>1. /\ Caller
        /\ queue[MutexQ(m)] = <<>>
        /\ lock_ps' = [lock_ps EXCEPT ![m] = NoTask]
        /\ Result(g, NoArg)
        /\ queue' = queue /\ fifo' = fifo
    BY <1>4 DEF MutexUnlockFree
  <2>2. DataTypes'
    <3>1. lock_ps' \in [Mutexes -> Tasks \cup {NoTask}]
      BY <1>0, <2>1 DEF DataTypes
    <3> QED
      BY <1>0, <2>1, <3>1, ResultTypes DEF DataTypes
  <2>3. Range(queue[MutexQ(m)]) = {}
    BY <2>1 DEF Range
  <2> QED
    BY <1>0, <2>1, <2>2, <2>3 DEF Data, EventsKept, MutexesKept, DataTypes
<1>5. ASSUME NEW g \in Garbage, MutexUnlockHandOver(m, g)
      PROVE  Data'
  <2> DEFINE i == MutexQ(m)
             t == Head(queue[i])
             left == Remaining(t)
  <2>1. /\ Caller
        /\ lock_ps' = [lock_ps EXCEPT ![m] = t]
        /\ ret' = [ret EXCEPT ![t] = left, ![run] = g]
        /\ arg' = [arg EXCEPT ![run] = NoArg]
        /\ WakeupTask(t, DelNextQueue(queue, i), priority, wup_time)
        /\ queue[i] # <<>>
        /\ fifo' = fifo
    BY <1>5 DEF MutexUnlockHandOver
  <2>2. /\ i \in QueueIds
        /\ \A p \in Priorities : i # Ready(p)
        /\ t = Head(queue[i])
        /\ \A e \in Events :
              EventQ(e) \in QueueIds \ {i}
              /\ \A p \in Priorities : EventQ(e) # Ready(p)
        /\ \A n \in Mutexes \ {m} :
              MutexQ(n) \in QueueIds \ {i}
              /\ \A p \in Priorities : MutexQ(n) # Ready(p)
    BY QueueIdFacts
  <2> HIDE DEF i, t
  <2>3. /\ t \in Tasks
        /\ Range(queue'[i]) = Range(queue[i]) \ {t}
        /\ \A j \in QueueIds \ {i} :
              (\A p \in Priorities : j # Ready(p)) => queue'[j] = queue[j]
    BY ONLY Core, <2>1, <2>2, HeadWakeupQueues
  <2>4. left \in Int
    BY <2>3, RemainingType
  <2>5. DataTypes'
    <3> HIDE DEF left
    <3> QED
      BY <1>0, <2>1, <2>3, <2>4 DEF DataTypes, Caller
  <2>6. EventsKept'
    BY <1>0, <2>1, <2>2, <2>3 DEF EventsKept
  <2>7. MutexesKept'
    <3> SUFFICES ASSUME NEW n \in Mutexes, Range(queue'[MutexQ(n)]) # {}
                 PROVE  /\ lock_ps'[n] # NoTask
                        /\ lock_ps'[n] \notin Range(queue'[MutexQ(n)])
      BY DEF MutexesKept
    <3>1. CASE n = m
      <4>1. lock_ps'[m] = t
        BY <1>0, <2>1 DEF DataTypes
      <4>2. t \notin Range(queue'[MutexQ(m)])
        BY <2>3 DEF i
      <4> QED
        BY <1>0, <2>3, <3>1, <4>1, <4>2
    <3>2. CASE n # m
      <4>1. lock_ps'[n] = lock_ps[n] /\ queue'[MutexQ(n)] = queue[MutexQ(n)]
        BY <2>1, <2>2, <2>3, <3>2
      <4> QED
        BY <1>0, <4>1 DEF MutexesKept
    <3> QED
      BY <3>1, <3>2
  <2> QED
    BY <2>5, <2>6, <2>7 DEF Data
<1>6. ASSUME NEW g \in Garbage, MutexUnlockRefused(m, g)
      PROVE  Data'
  <2>1. /\ Caller
        /\ Result(g, NoArg)
        /\ queue' = queue /\ fifo' = fifo /\ lock_ps' = lock_ps
    BY <1>6 DEF MutexUnlockRefused
  <2>2. DataTypes'
    BY <1>0, <2>1, ResultTypes DEF DataTypes
  <2> QED
    BY <1>0, <2>1, <2>2 DEF Data, EventsKept, MutexesKept
<1> QED
  BY <1>1, <1>2, <1>3, <1>4, <1>5, <1>6

LEMMA TickKeepsData ==
    ASSUME Core, Data, Tick
    PROVE  Data'
<1>1. TaskSchedule(now') /\ UNCHANGED <<fifo, lock_ps, ret, arg>>
  BY DEF Tick
<1>2. DataTypes'
  BY <1>1 DEF Data, DataTypes
<1>3. CASE ~ TimeoutDue(now')
  <2>1. queue' = queue
    BY <1>1, <1>3 DEF TaskSchedule
  <2> QED
    BY <1>1, <1>2, <2>1, ShrinkKeepsData DEF Shrinks
<1>4. CASE TimeoutDue(now')
  <2> DEFINE t == Head(timeq)
             q == IF status[t] \in {"EVENT_WAIT", "MUTEX_WAIT"}
                  THEN DelQueue(queue, t) ELSE queue
  <2>1. timeq # <<>> /\ WakeupTask(t, q, BasePriority, wup_time)
    BY <1>1, <1>4 DEF TaskSchedule, TimeoutDue, Core
  <2>2. Queued(queue) /\ timeq \in Seq(Tasks)
    BY DEF Core, Placed, SchedTypes
  <2>3. t \in Tasks
    BY <2>1, <2>2, HeadTailProperties
  <2>4. Queued(q) /\ \A i \in QueueIds : Range(q[i]) \subseteq Range(queue[i])
    <3> DEFINE r == DelQueue(queue, t)
    <3>1. /\ Queued(r)
          /\ \A i \in QueueIds : Range(r[i]) = Range(queue[i]) \ {t}
      BY ONLY <2>2, DelQueueUnlinks
    <3>2. \A i \in QueueIds : Range(r[i]) \subseteq Range(queue[i])
      BY <3>1
    <3> QED
      BY <2>2, <3>1, <3>2
  <2> HIDE DEF t, q
  <2>5. \A i \in QueueIds :
           (\A p \in Priorities : i # Ready(p)) => queue'[i] = q[i]
    BY ONLY <2>1, <2>3, <2>4, WakeupQueues
  <2>6. Shrinks
    BY <2>4, <2>5, QueueIdFacts DEF Shrinks
  <2> QED
    BY <1>1, <1>2, <2>6, ShrinkKeepsData
<1> QED
  BY <1>3, <1>4

LEMMA InitData ==
    ASSUME Init
    PROVE  Data
<1>1. DataTypes
  BY DEF Init, DataTypes
<1>2. EventsKept
  BY DEF Init, EventsKept
<1>3. \A m \in Mutexes : Range(queue[MutexQ(m)]) = {}
  <2>1. \A m \in Mutexes : queue[MutexQ(m)] = <<>>
    <3>1. BasePriority[Idle] \in Priorities
      BY TaskAssumption
    <3> QED
      BY <3>1, QueueIdFacts DEF Init
  <2> QED
    BY <2>1 DEF Range
<1> QED
  BY <1>1, <1>2, <1>3 DEF Data, MutexesKept

LEMMA NextData ==
    ASSUME NoWrap, Core, Core', Data, [Next]_vars
    PROVE  Data'
<1>1. CASE TaskCall
  BY <1>1, TaskCallKeepsData
<1>2. CASE EventCall
  BY <1>2, EventCallKeepsData
<1>3. CASE MutexCall
  BY <1>3, MutexCallKeepsData
<1>4. CASE Elapse
  BY <1>4 DEF Elapse, Data, DataTypes, EventsKept, MutexesKept
<1>5. CASE Tick
  BY <1>5, TickKeepsData
<1>6. CASE UNCHANGED vars
  BY <1>6 DEF vars, Data, DataTypes, EventsKept, MutexesKept
<1> QED
  BY <1>1, <1>2, <1>3, <1>4, <1>5, <1>6 DEF Next, Clock

LEMMA DataInvariance ==
    ASSUME NoWrap
    PROVE  Spec => [](Core /\ NobodyIsLost /\ Data)
<1>1. Init => Data
  BY InitData
<1>2. Core /\ Core' /\ Data /\ [Next]_vars => Data'
  BY NextData
<1> QED
  BY <1>1, <1>2, CoreInvariance, PTL DEF Spec

-----------------------------------------------------------------------------
(* The theorems.                                                           *)

\* Core and Data are KernelInv in other words.
LEMMA CoreDataImply ==
    ASSUME Core, NobodyIsLost, Data
    PROVE  KernelInv
<1>1. TypeOK
  BY TaskAssumption DEF Core, SchedTypes, Placed, Queued, Data, DataTypes, TypeOK
<1>2. \A i \in QueueIds : queue[i] # <<>> => Range(queue[i]) # {}
  BY QueuedTasks DEF Core, Placed
<1>3. NoWaiterMissesAnEvent
  BY <1>2, QueueIdFacts DEF Data, EventsKept, NoWaiterMissesAnEvent
<1>4. WaitersWaitForTheHolder
  BY <1>2, QueueIdFacts DEF Data, MutexesKept, WaitersWaitForTheHolder
<1> QED
  BY <1>1, <1>3, <1>4, CoreImplies DEF KernelInv

\* The kernel keeps its whole invariant, for any number of tasks, priorities,
\* events and mutexes, as long as wup_time does not wrap: all lists, statuses,
\* timeouts and results that the system calls and the tick leave behind agree.
THEOREM KernelIsConsistent ==
    ASSUME NoWrap
    PROVE  Spec => []KernelInv
<1>1. Core /\ NobodyIsLost /\ Data => KernelInv
  BY CoreDataImply
<1> QED
  BY <1>1, DataInvariance, PTL

\* The state has its types.
THEOREM TypeCorrect ==
    ASSUME NoWrap
    PROVE  Spec => []TypeOK
<1>1. KernelInv => TypeOK
  BY DEF KernelInv
<1> QED
  BY <1>1, KernelIsConsistent, PTL

\* No task is ever on two lists, or twice on one.
THEOREM NoTaskLinkedTwice ==
    ASSUME NoWrap
    PROVE  Spec => []LinkedOnce
<1>1. KernelInv => LinkedOnce
  BY DEF KernelInv
<1> QED
  BY <1>1, KernelIsConsistent, PTL

\* The running task is at the head of its ready queue, so that a call that
\* blocks drops the right task.
THEOREM RunningTaskIsHead ==
    ASSUME NoWrap
    PROVE  Spec => []RunningTaskHeadsItsQueue
<1>1. KernelInv => RunningTaskHeadsItsQueue
  BY DEF KernelInv
<1> QED
  BY <1>1, KernelIsConsistent, PTL

\* The processor idles only while no other task is ready: wakeup_task() and
\* search_next_task() leave nobody behind the idle task.
THEOREM IdlesWithoutWork ==
    ASSUME NoWrap
    PROVE  Spec => []IdlesOnlyWithoutWork
<1>1. KernelInv => IdlesOnlyWithoutWork
  BY DEF KernelInv
<1> QED
  BY <1>1, KernelIsConsistent, PTL

\* Whoever has a deadline is on the timeout queue, once, and waits: no call that
\* ends a wait leaves an entry behind.
THEOREM TimeoutsStayTrue ==
    ASSUME NoWrap
    PROVE  Spec => []TimeoutsAgree
<1>1. KernelInv => TimeoutsAgree
  BY DEF KernelInv
<1> QED
  BY <1>1, KernelIsConsistent, PTL

\* The list a task is linked on is the one its status says.
THEOREM StatusIsTrue ==
    ASSUME NoWrap
    PROVE  Spec => []StatusNamesTheQueue
<1>1. KernelInv => StatusNamesTheQueue
  BY DEF KernelInv
<1> QED
  BY <1>1, KernelIsConsistent, PTL

\* A mutex that tasks wait for is held, and by none of them.
THEOREM WaitersHaveAHolder ==
    ASSUME NoWrap
    PROVE  Spec => []WaitersWaitForTheHolder
<1>1. KernelInv => WaitersWaitForTheHolder
  BY DEF KernelInv
<1> QED
  BY <1>1, KernelIsConsistent, PTL

\* A task waits for an event only while none is stored.
THEOREM NoEventIsMissed ==
    ASSUME NoWrap
    PROVE  Spec => []NoWaiterMissesAnEvent
<1>1. KernelInv => NoWaiterMissesAnEvent
  BY DEF KernelInv
<1> QED
  BY <1>1, KernelIsConsistent, PTL

\* A held mutex passes from its holder, while it runs, to its first waiter.
THEOREM MutexGoesInOrder ==
    ASSUME NoWrap
    PROVE  Spec => HandedOverInOrder
<1>1. Core /\ Data /\ [Next]_vars =>
        [\A m \in Mutexes :
          lock_ps[m] # NoTask /\ lock_ps'[m] # lock_ps[m] =>
              /\ run = lock_ps[m]
              /\ IF queue[MutexQ(m)] = <<>> THEN lock_ps'[m] = NoTask
                 ELSE /\ lock_ps'[m] = Head(queue[MutexQ(m)])
                      /\ queue'[MutexQ(m)] = Tail(queue[MutexQ(m)])
                      /\ run' = lock_ps'[m]]_vars
  <2> SUFFICES ASSUME Core, Data, [Next]_vars,
                      NEW m \in Mutexes,
                      lock_ps[m] # NoTask, lock_ps'[m] # lock_ps[m]
               PROVE  /\ run = lock_ps[m]
                      /\ IF queue[MutexQ(m)] = <<>> THEN lock_ps'[m] = NoTask
                         ELSE /\ lock_ps'[m] = Head(queue[MutexQ(m)])
                              /\ queue'[MutexQ(m)] = Tail(queue[MutexQ(m)])
                              /\ run' = lock_ps'[m]
    OBVIOUS
  <2>0. lock_ps \in [Mutexes -> Tasks \cup {NoTask}] /\ NoTask \notin Tasks
    BY TaskAssumption DEF Data, DataTypes
  <2>1. lock_ps' # lock_ps
    OBVIOUS
  <2>2. CASE MutexCall
    <3>1. PICK n \in Mutexes :
              \/ \E d \in Timeouts \cup {0} : MutexLockFree(n, d)
              \/ MutexLockOwn(n)
              \/ \E d \in Timeouts \cup {0} : MutexLockBlock(n, d)
              \/ \E g \in Garbage : \/ MutexUnlockFree(n, g)
                                   \/ MutexUnlockHandOver(n, g)
                                   \/ MutexUnlockRefused(n, g)
      BY <2>2 DEF MutexCall
    <3>2. ASSUME NEW d \in Timeouts \cup {0}, MutexLockFree(n, d)
          PROVE  FALSE
      BY <2>0, <3>2 DEF MutexLockFree
    <3>3. ~ MutexLockOwn(n)
      BY <2>1 DEF MutexLockOwn
    <3>4. \A d \in Timeouts \cup {0} : ~ MutexLockBlock(n, d)
      BY <2>1 DEF MutexLockBlock
    <3>5. ASSUME NEW g \in Garbage, MutexUnlockFree(n, g)
          PROVE  m = n /\ run = lock_ps[m] /\ queue[MutexQ(m)] = <<>>
                 /\ lock_ps'[m] = NoTask
      BY <2>0, <3>5 DEF MutexUnlockFree
    <3>6. ASSUME NEW g \in Garbage, MutexUnlockHandOver(n, g)
          PROVE  /\ run = lock_ps[m]
                 /\ queue[MutexQ(m)] # <<>>
                 /\ lock_ps'[m] = Head(queue[MutexQ(m)])
                 /\ queue'[MutexQ(m)] = Tail(queue[MutexQ(m)])
                 /\ run' = lock_ps'[m]
      <4> DEFINE i == MutexQ(n)
                 t == Head(queue[i])
      <4>1. /\ lock_ps[n] = run
            /\ queue[i] # <<>>
            /\ lock_ps' = [lock_ps EXCEPT ![n] = t]
            /\ WakeupTask(t, DelNextQueue(queue, i), priority, wup_time)
        BY <3>6 DEF MutexUnlockHandOver
      <4>2. m = n
        BY <2>0, <4>1
      <4>3. i \in QueueIds /\ \A p \in Priorities : i # Ready(p)
        BY QueueIdFacts
      <4>4. t = Head(queue[i])
        OBVIOUS
      <4> HIDE DEF i, t
      <4>5. t \in Tasks /\ queue'[i] = Tail(queue[i])
        BY ONLY Core, <4>1, <4>3, <4>4, HeadWakeupQueues
      <4>6. run' = t
        <5>1. t # NoTask
          BY <2>0, <4>5
        <5> QED
          BY <4>1, <5>1 DEF WakeupTask, DispatchTask
      <4> QED
        BY <2>0, <4>1, <4>2, <4>4, <4>5, <4>6 DEF i
    <3>7. \A g \in Garbage : ~ MutexUnlockRefused(n, g)
      BY <2>1 DEF MutexUnlockRefused
    <3> QED
      BY <3>1, <3>2, <3>3, <3>4, <3>5, <3>6, <3>7
  <2>3. CASE TaskCall
    BY <2>1, <2>3 DEF TaskCall, TaskExec, TaskAdd, TaskInit, TaskExit,
                      TaskPause, TaskWakeup, TaskSleep
  <2>4. CASE EventCall
    BY <2>1, <2>4 DEF EventCall, EventWaitStored, EventWaitBlock, EventClear,
                      EventWakeup
  <2>5. CASE Clock
    BY <2>1, <2>5 DEF Clock, Elapse, Tick
  <2>6. CASE UNCHANGED vars
    BY <2>1, <2>6 DEF vars
  <2> QED
    BY <2>2, <2>3, <2>4, <2>5, <2>6 DEF Next
<1> QED
  BY <1>1, DataInvariance, PTL DEF Spec, HandedOverInOrder
-----------------------------------------------------------------------------

-----------------------------------------------------------------------------
(* The order.                                                              *)

\* The tasks that have a deadline after the step had it before.
DeadlinesStay ==
    \A s \in Tasks : wup_time'[s] # 0 => wup_time'[s] = wup_time[s]

\* A dispatch leaves the deadlines it is given, but for a 0.
LEMMA DispatchDeadlines ==
    ASSUME NEW t, NEW st, NEW pri, NEW wup \in [Tasks -> Nat],
           DispatchTask(t, st, pri, wup)
    PROVE  \A s \in Tasks : wup_time'[s] # 0 => wup_time'[s] = wup[s]
BY DEF DispatchTask

\* The place before the first later deadline is in the queue or at its end.
LEMMA TimerSlotInRange ==
    ASSUME timeq \in Seq(Tasks), NEW v
    PROVE  TimerSlot(v) \in 1 .. Len(timeq) + 1
<1> DEFINE later == {i \in DOMAIN timeq : v < wup_time[timeq[i]]}
<1>1. Len(timeq) \in Nat /\ DOMAIN timeq = 1 .. Len(timeq)
  BY LenProperties
<1>2. later \subseteq Nat
  BY <1>1
<1>3. later # {} => Min(later) \in later
  BY ONLY <1>2, MinOfNaturals
<1> QED
  BY <1>1, <1>3 DEF TimerSlot

\* Putting a task before the first one with a later deadline keeps the order.
LEMMA InsertionKeepsOrder ==
    ASSUME timeq \in Seq(Tasks), wup_time \in [Tasks -> Nat], TimeoutsInOrder,
           NEW x \in Tasks, NEW v \in Nat,
           timeq' = InsertAt(timeq, TimerSlot(v), x),
           wup_time' \in [Tasks -> Nat], wup_time'[x] = v,
           \A i \in 1 .. Len(timeq) : wup_time'[timeq[i]] = wup_time[timeq[i]]
    PROVE  TimeoutsInOrder'
<1> DEFINE k == TimerSlot(v)
           later == {i \in DOMAIN timeq : v < wup_time[timeq[i]]}
           w(i) == wup_time[timeq[i]]
<1>1. Len(timeq) \in Nat /\ DOMAIN timeq = 1 .. Len(timeq)
  BY LenProperties
<1>2. \A i \in 1 .. Len(timeq) : timeq[i] \in Tasks /\ w(i) \in Nat
  BY ElementOfSeq
<1>3. \A i, j \in 1 .. Len(timeq) : i < j => w(i) <= w(j)
  BY <1>1 DEF TimeoutsInOrder
<1>4. /\ k \in 1 .. Len(timeq) + 1
      /\ \A i \in 1 .. Len(timeq) : i < k => w(i) <= v
      /\ \A i \in 1 .. Len(timeq) : i >= k => v <= w(i)
  <2>1. CASE later = {}
    <3>1. k = Len(timeq) + 1
      BY <2>1 DEF TimerSlot
    <3>2. \A i \in 1 .. Len(timeq) : ~ (v < w(i))
      BY <1>1, <2>1
    <3> QED
      BY <1>1, <1>2, <3>1, <3>2
  <2>2. CASE later # {}
    <3>1. later \subseteq Nat
      BY <1>1
    <3>2. Min(later) \in later /\ \A n \in later : Min(later) <= n
      BY <2>2, <3>1, MinOfNaturals
    <3>3. k = Min(later)
      BY <2>2 DEF TimerSlot
    <3>4. k \in 1 .. Len(timeq) /\ v < w(k)
      BY <1>1, <3>2, <3>3
    <3>5. ASSUME NEW i \in 1 .. Len(timeq), i < k
          PROVE  w(i) <= v
      <4>1. \A n \in later : k <= n
        BY ONLY <3>2, <3>3
      <4>2. k \in Nat /\ i \in Nat
        BY <1>1, <3>4
      <4>3. ASSUME i \in later
            PROVE  FALSE
        BY ONLY <3>5, <4>1, <4>2, <4>3
      <4>4. ~ (v < w(i))
        BY <1>1, <4>3
      <4> QED
        BY <1>2, <4>4
    <3>6. ASSUME NEW i \in 1 .. Len(timeq), i >= k
          PROVE  v <= w(i)
      <4>1. w(k) <= w(i)
        BY <1>2, <1>3, <3>4, <3>6
      <4>2. w(k) \in Nat /\ w(i) \in Nat
        BY <1>2, <3>4
      <4> HIDE DEF w
      <4> QED
        BY <3>4, <4>1, <4>2
    <3> QED
      BY <1>1, <3>4, <3>5, <3>6
  <2> QED
    BY <2>1, <2>2
<1>0. timeq' = InsertAt(timeq, k, x)
  OBVIOUS
<1> HIDE DEF k
<1>5. /\ timeq' \in Seq(Tasks)
      /\ Len(timeq') = Len(timeq) + 1
      /\ \A j \in 1 .. Len(timeq) + 1 :
            timeq'[j] = IF j < k THEN timeq[j]
                        ELSE IF j = k THEN x ELSE timeq[j - 1]
  <2>1. /\ InsertAt(timeq, k, x) \in Seq(Tasks)
        /\ Len(InsertAt(timeq, k, x)) = Len(timeq) + 1
        /\ \A j \in 1 .. Len(timeq) + 1 :
              InsertAt(timeq, k, x)[j] = IF j < k THEN timeq[j]
                                         ELSE IF j = k THEN x ELSE timeq[j - 1]
    BY ONLY timeq \in Seq(Tasks), x \in Tasks, <1>4, InsertAtEntries
  <2> QED
    BY ONLY <1>0, <2>1
<1>6. DOMAIN timeq' = 1 .. Len(timeq) + 1
  BY <1>5, LenProperties
<1> DEFINE u(j) == wup_time'[timeq'[j]]
<1>7. \A j \in 1 .. Len(timeq) + 1 :
         /\ j < k => j \in 1 .. Len(timeq) /\ u(j) = w(j)
         /\ j = k => u(j) = v
         /\ j > k => j - 1 \in 1 .. Len(timeq) /\ u(j) = w(j - 1)
  BY <1>1, <1>4, <1>5
<1> HIDE DEF u, w
<1>8. ASSUME NEW i \in 1 .. Len(timeq) + 1, NEW j \in 1 .. Len(timeq) + 1, i < j
      PROVE  u(i) <= u(j)
  <2>1. CASE j < k
    BY <1>1, <1>3, <1>4, <1>7, <1>8, <2>1
  <2>2. CASE j = k
    BY <1>1, <1>4, <1>7, <1>8, <2>2
  <2>3. CASE j > k /\ i < k
    <3>1. u(i) = w(i) /\ w(i) <= v /\ i \in 1 .. Len(timeq)
      BY <1>4, <1>7, <2>3
    <3>2. u(j) = w(j - 1) /\ v <= w(j - 1) /\ j - 1 \in 1 .. Len(timeq)
      BY <1>1, <1>4, <1>7, <2>3
    <3>3. w(i) \in Nat /\ w(j - 1) \in Nat
      BY <1>2, <3>1, <3>2 DEF w
    <3> QED
      BY <3>1, <3>2, <3>3
  <2>4. CASE j > k /\ i = k
    BY <1>1, <1>4, <1>7, <1>8, <2>4
  <2>5. CASE i > k
    <3>1. /\ u(i) = w(i - 1) /\ i - 1 \in 1 .. Len(timeq)
          /\ u(j) = w(j - 1) /\ j - 1 \in 1 .. Len(timeq)
      BY <1>1, <1>4, <1>7, <1>8, <2>5
    <3>2. i - 1 < j - 1
      BY <1>1, <1>8
    <3>3. w(i - 1) <= w(j - 1)
      BY <1>3, <3>1, <3>2
    <3> QED
      BY <3>1, <3>3
  <2> QED
    BY <1>1, <1>4, <1>8, <2>1, <2>2, <2>3, <2>4, <2>5
<1> QED
  BY <1>6, <1>8 DEF TimeoutsInOrder, u

\* The sequence r is s, but for the entry k, if s has one.
Without(r, s, k) ==
    \A j \in DOMAIN r :
        /\ j < k => j \in DOMAIN s /\ r[j] = s[j]
        /\ j >= k => j + 1 \in DOMAIN s /\ r[j] = s[j + 1]

\* What an unlinked task, or none, or the first one, leaves.
LEMMA RemovalIsWithout ==
    ASSUME timeq \in Seq(Tasks), Distinct(timeq), timeq' \in Seq(Tasks),
           \/ timeq' = timeq
           \/ \E t \in Tasks : timeq' = Unlinked(timeq, t)
           \/ timeq # <<>> /\ timeq' = Tail(timeq)
    PROVE  \E k \in Nat : Without(timeq', timeq, k)
<1>1. /\ Len(timeq) \in Nat /\ DOMAIN timeq = 1 .. Len(timeq)
      /\ Len(timeq') \in Nat /\ DOMAIN timeq' = 1 .. Len(timeq')
  BY LenProperties
<1>2. CASE timeq' = timeq
  <2>1. Without(timeq', timeq, Len(timeq) + 1)
    BY <1>1, <1>2 DEF Without
  <2>2. Len(timeq) + 1 \in Nat
    BY ONLY <1>1
  <2> QED
    BY ONLY <2>1, <2>2
<1>3. ASSUME NEW t \in Tasks, timeq' = Unlinked(timeq, t), timeq' # timeq
      PROVE  \E k \in Nat : Without(timeq', timeq, k)
  <2> DEFINE k == CHOOSE i \in DOMAIN timeq : timeq[i] = t
  <2>1. t \in Range(timeq) /\ timeq' = RemoveAt(timeq, k)
    BY <1>3 DEF Unlinked
  <2>2. k \in 1 .. Len(timeq)
    BY <1>1, <2>1 DEF Range
  <2> HIDE DEF k
  <2>3. /\ Len(RemoveAt(timeq, k)) = Len(timeq) - 1
        /\ \A j \in 1 .. Len(timeq) - 1 :
              RemoveAt(timeq, k)[j] = IF j < k THEN timeq[j] ELSE timeq[j + 1]
    BY ONLY timeq \in Seq(Tasks), <2>2, RemoveAtEntries
  <2>4. /\ DOMAIN timeq' = 1 .. Len(timeq) - 1
        /\ \A j \in 1 .. Len(timeq) - 1 :
              timeq'[j] = IF j < k THEN timeq[j] ELSE timeq[j + 1]
    BY ONLY <1>1, <2>1, <2>3
  <2>5. Without(timeq', timeq, k)
    BY ONLY <1>1, <2>2, <2>4 DEF Without
  <2> QED
    BY <2>2, <2>5
<1>4. CASE timeq # <<>> /\ timeq' = Tail(timeq)
  <2>1. /\ Len(Tail(timeq)) = Len(timeq) - 1
        /\ \A j \in 1 .. Len(Tail(timeq)) : Tail(timeq)[j] = timeq[j + 1]
    BY ONLY timeq \in Seq(Tasks), <1>4, HeadTailProperties
  <2>2. \A j \in 1 .. Len(timeq) - 1 : timeq'[j] = timeq[j + 1]
    BY ONLY <1>4, <2>1
  <2>3. DOMAIN timeq' = 1 .. Len(timeq) - 1
    BY ONLY <1>1, <1>4, <2>1
  <2>4. Without(timeq', timeq, 0)
    BY ONLY <1>1, <2>2, <2>3 DEF Without
  <2> QED
    BY <2>4
<1> QED
  BY <1>2, <1>3, <1>4

\* Leaving them where they are, or taking one out, keeps the order.
LEMMA RestKeepsOrder ==
    ASSUME timeq \in Seq(Tasks), wup_time \in [Tasks -> Nat], TimeoutsInOrder,
           Distinct(timeq), timeq' \in Seq(Tasks), DeadlinesStay,
           \A s \in Range(timeq') : wup_time'[s] # 0,
           \/ timeq' = timeq
           \/ \E t \in Tasks : timeq' = Unlinked(timeq, t)
           \/ timeq # <<>> /\ timeq' = Tail(timeq)
    PROVE  TimeoutsInOrder'
<1>1. PICK k \in Nat : Without(timeq', timeq, k)
  BY RemovalIsWithout
<1>2. \A j \in DOMAIN timeq' : timeq'[j] \in Tasks /\ timeq'[j] \in Range(timeq')
  BY LenProperties, ElementOfSeq DEF Range
<1>3. \A j \in DOMAIN timeq' : wup_time'[timeq'[j]] = wup_time[timeq'[j]]
  BY <1>2 DEF DeadlinesStay
<1>4. DOMAIN timeq' = 1 .. Len(timeq') /\ Len(timeq') \in Nat
  BY LenProperties
<1>5. ASSUME NEW i \in DOMAIN timeq', NEW j \in DOMAIN timeq', i < j
      PROVE  wup_time[timeq'[i]] <= wup_time[timeq'[j]]
  <2> DEFINE a == IF i < k THEN i ELSE i + 1
             b == IF j < k THEN j ELSE j + 1
  <2>1. i \in Nat /\ j \in Nat
    BY <1>4
  <2>2. /\ a \in DOMAIN timeq /\ b \in DOMAIN timeq
        /\ timeq'[i] = timeq[a] /\ timeq'[j] = timeq[b]
    <3>1. \A n \in DOMAIN timeq' :
             /\ n < k => n \in DOMAIN timeq /\ timeq'[n] = timeq[n]
             /\ n >= k => n + 1 \in DOMAIN timeq /\ timeq'[n] = timeq[n + 1]
      BY <1>1 DEF Without
    <3>2. /\ a \in DOMAIN timeq /\ timeq'[i] = timeq[a]
      BY ONLY k \in Nat, i \in DOMAIN timeq', <2>1, <3>1
    <3>3. /\ b \in DOMAIN timeq /\ timeq'[j] = timeq[b]
      BY ONLY k \in Nat, j \in DOMAIN timeq', <2>1, <3>1
    <3> QED
      BY ONLY <3>2, <3>3
  <2>3. a < b
    BY <1>5, <2>1
  <2> HIDE DEF a, b
  <2> QED
    BY <2>2, <2>3 DEF TimeoutsInOrder
<1> QED
  BY <1>3, <1>5 DEF TimeoutsInOrder

-----------------------------------------------------------------------------
(* Each step takes tasks off the queue or puts the running one on it.      *)

Removes ==
    /\ DeadlinesStay
    /\ \/ timeq' = timeq
       \/ \E t \in Tasks : timeq' = Unlinked(timeq, t)
       \/ timeq # <<>> /\ timeq' = Tail(timeq)

Inserts ==
    /\ run \in Tasks
    /\ \E v \in 0 .. MaxTime :
          /\ timeq' = InsertAt(timeq, TimerSlot(v), run)
          /\ \A s \in Tasks : wup_time'[s] # 0 =>
                wup_time'[s] = [wup_time EXCEPT ![run] = v][s]

LEMMA WakeupStays ==
    ASSUME NEW t \in Tasks, NEW q, NEW pri, NEW wup \in [Tasks -> Nat],
           WakeupTask(t, q, pri, wup),
           \A s \in Tasks : wup[s] # 0 => wup[s] = wup_time[s]
    PROVE  DeadlinesStay
<1>1. DispatchTask(t, "READY", pri, wup)
  BY DEF WakeupTask
<1> QED
  BY <1>1, DispatchDeadlines DEF DeadlinesStay

LEMMA BlockStays ==
    ASSUME NEW q, NEW st, wup_time \in [Tasks -> Nat], Block(q, st, wup_time)
    PROVE  DeadlinesStay
<1>1. DispatchTask(SearchNextTask(q), st, priority, wup_time)
  BY DEF Block
<1> QED
  BY <1>1, DispatchDeadlines DEF DeadlinesStay

\* A call that waits, with or without a timeout.
LEMMA WaitMoves ==
    ASSUME NoWrap, Core, Caller, NEW q, NEW st,
           NEW d \in Timeouts \cup {0}, CanWaitFor(d), StartTimeout(d),
           Block(q, st, DeadlineAfter(d))
    PROVE  Removes \/ Inserts
<1>1. wup_time \in [Tasks -> Nat] /\ now \in Nat /\ run \in Tasks
  BY DEF Core, SchedTypes, Caller
<1>2. CASE d = 0
  <2>1. timeq' = timeq /\ Block(q, st, wup_time)
    BY <1>2 DEF StartTimeout, DeadlineAfter
  <2> QED
    BY ONLY <1>1, <2>1, BlockStays DEF Removes
<1>3. CASE d # 0
  <2> DEFINE v == Deadline(d)
             wup == [wup_time EXCEPT ![run] = v]
  <2>1. v \in 0 .. MaxTime
    <3>1. /\ d \in Nat \ {0} /\ now + d <= MaxTime
          /\ MaxTime \in Nat /\ TimeModulus \in Nat \ {0}
      BY <1>3, TimeAssumption DEF CanWaitFor
    <3>2. (now + d) % TimeModulus = now + d
      BY <1>1, <3>1 DEF NoWrap
    <3> QED
      BY <1>1, <3>1, <3>2 DEF Deadline
  <2>2. timeq' = InsertAt(timeq, TimerSlot(v), run)
    BY <1>3 DEF StartTimeout, SleepqueueAdd
  <2>3. DispatchTask(SearchNextTask(q), st, priority, wup)
    BY <1>3 DEF Block, DeadlineAfter
  <2> HIDE DEF v
  <2>4. wup \in [Tasks -> Nat]
    BY <1>1, <2>1, TimeAssumption
  <2> HIDE DEF wup
  <2>5. \A s \in Tasks : wup_time'[s] # 0 => wup_time'[s] = wup[s]
    BY ONLY <2>3, <2>4, DispatchDeadlines
  <2> QED
    BY ONLY <1>1, <2>1, <2>2, <2>5 DEF Inserts, wup
<1> QED
  BY <1>2, <1>3

LEMMA CancelRemoves ==
    ASSUME NEW t \in Tasks, CancelTimeout(t)
    PROVE  timeq' = timeq \/ \E s \in Tasks : timeq' = Unlinked(timeq, s)
BY DEF CancelTimeout

LEMMA TaskCallMoves ==
    ASSUME NoWrap, Core, TaskCall
    PROVE  Removes \/ Inserts
<1>0. /\ wup_time \in [Tasks -> Nat] /\ now \in Nat
      /\ 0 \in Nat
  BY DEF Core, SchedTypes
<1>1. ASSUME NEW t \in Tasks, TaskExec(t)
      PROVE  Removes
  <2> DEFINE wup == [wup_time EXCEPT ![t] = 0]
             pri == [priority EXCEPT ![t] = BasePriority[t]]
  <2>1. timeq' = timeq /\ WakeupTask(t, queue, pri, wup)
    BY <1>1 DEF TaskExec, TaskInit
  <2>2. wup \in [Tasks -> Nat] /\ \A s \in Tasks : wup[s] # 0 => wup[s] = wup_time[s]
    BY <1>0
  <2> HIDE DEF wup, pri
  <2> QED
    BY ONLY t \in Tasks, <2>1, <2>2, WakeupStays DEF Removes
<1>2. ASSUME NEW t \in Tasks, TaskAdd(t)
      PROVE  Removes
  BY <1>0, <1>2 DEF TaskAdd, TaskInit, Removes, DeadlinesStay
<1>3. ASSUME NEW t \in Tasks, TaskWakeup(t)
      PROVE  Removes
  <2>1. timeq' = timeq /\ WakeupTask(t, DelQueue(queue, t), priority, wup_time)
    BY <1>3 DEF TaskWakeup
  <2> QED
    BY ONLY t \in Tasks, <1>0, <2>1, WakeupStays DEF Removes
<1>4. CASE TaskExit
  <2>1. timeq' = timeq /\ Block(OffReady, "DORMANT", wup_time)
    BY <1>4 DEF TaskExit
  <2> QED
    BY ONLY <1>0, <2>1, BlockStays DEF Removes
<1>5. CASE TaskPause
  <2>1. /\ timeq' = timeq
        /\ Block(AddQueue(OffReady, WaitQ, run), "REQUEST_WAIT", wup_time)
    BY <1>5 DEF TaskPause
  <2> QED
    BY ONLY <1>0, <2>1, BlockStays DEF Removes
<1>6. ASSUME NEW d \in Timeouts, TaskSleep(d)
      PROVE  Removes \/ Inserts
  <2>1. /\ Caller /\ d # 0 /\ CanWaitFor(d) /\ StartTimeout(d)
        /\ Block(OffReady, "TIMER_WAIT", DeadlineAfter(d))
    BY <1>6 DEF TaskSleep, StartTimeout
  <2> QED
    BY ONLY NoWrap, Core, d \in Timeouts, <2>1, WaitMoves
<1> QED
  BY <1>1, <1>2, <1>3, <1>4, <1>5, <1>6 DEF TaskCall

LEMMA EventCallMoves ==
    ASSUME NoWrap, Core, EventCall
    PROVE  Removes \/ Inserts
<1>0. PICK e \in Events :
        \/ \E d \in Timeouts \cup {0} : EventWaitStored(e, d)
        \/ \E d \in Timeouts \cup {0} : EventWaitBlock(e, d)
        \/ EventClear(e)
        \/ \E a \in Args : EventWakeup(e, a)
  BY DEF EventCall
<1>1. wup_time \in [Tasks -> Nat]
  BY DEF Core, SchedTypes
<1>2. ASSUME timeq' = timeq, wup_time' = wup_time
      PROVE  Removes
  BY <1>2 DEF Removes, DeadlinesStay
<1>3. ASSUME NEW d \in Timeouts \cup {0}, EventWaitStored(e, d)
      PROVE  Removes
  BY <1>2, <1>3 DEF EventWaitStored
<1>4. CASE EventClear(e)
  BY <1>2, <1>4 DEF EventClear
<1>5. ASSUME NEW d \in Timeouts \cup {0}, EventWaitBlock(e, d)
      PROVE  Removes \/ Inserts
  <2>1. /\ Caller /\ CanWaitFor(d) /\ StartTimeout(d)
        /\ Block(AddQueue(OffReady, EventQ(e), run), "EVENT_WAIT", DeadlineAfter(d))
    BY <1>5 DEF EventWaitBlock
  <2> QED
    BY ONLY NoWrap, Core, d \in Timeouts \cup {0}, <2>1, WaitMoves
<1>6. ASSUME NEW a \in Args, EventWakeup(e, a)
      PROVE  Removes
  <2>1. CASE ResumeWaiter(e)
    <3> DEFINE t == Head(queue[EventQ(e)])
    <3>1. /\ queue[EventQ(e)] # <<>> /\ CancelTimeout(t)
          /\ WakeupTask(t, DelNextQueue(queue, EventQ(e)), priority, wup_time)
      BY <2>1 DEF ResumeWaiter
    <3>2. t \in Tasks
      BY <3>1, QueuedTasks, QueueIdFacts DEF Core, Placed
    <3> HIDE DEF t
    <3> QED
      BY ONLY <1>1, <3>1, <3>2, CancelRemoves, WakeupStays DEF Removes
  <2>2. CASE ~ ResumeWaiter(e)
    BY <1>2, <1>6, <2>2 DEF EventWakeup
  <2> QED
    BY <2>1, <2>2
<1> QED
  BY <1>0, <1>3, <1>4, <1>5, <1>6

LEMMA MutexCallMoves ==
    ASSUME NoWrap, Core, MutexCall
    PROVE  Removes \/ Inserts
<1>0. PICK m \in Mutexes :
        \/ \E d \in Timeouts \cup {0} : MutexLockFree(m, d)
        \/ MutexLockOwn(m)
        \/ \E d \in Timeouts \cup {0} : MutexLockBlock(m, d)
        \/ \E g \in Garbage : \/ MutexUnlockFree(m, g)
                             \/ MutexUnlockHandOver(m, g)
                             \/ MutexUnlockRefused(m, g)
  BY DEF MutexCall
<1>1. wup_time \in [Tasks -> Nat]
  BY DEF Core, SchedTypes
<1>2. ASSUME timeq' = timeq, wup_time' = wup_time
      PROVE  Removes
  BY <1>2 DEF Removes, DeadlinesStay
<1>3. ASSUME NEW d \in Timeouts \cup {0}, MutexLockFree(m, d)
      PROVE  Removes
  BY <1>2, <1>3 DEF MutexLockFree
<1>4. CASE MutexLockOwn(m)
  BY <1>2, <1>4 DEF MutexLockOwn
<1>5. ASSUME NEW d \in Timeouts \cup {0}, MutexLockBlock(m, d)
      PROVE  Removes \/ Inserts
  <2>1. /\ Caller /\ CanWaitFor(d) /\ StartTimeout(d)
        /\ Block(AddQueue(OffReady, MutexQ(m), run), "MUTEX_WAIT", DeadlineAfter(d))
    BY <1>5 DEF MutexLockBlock
  <2> QED
    BY ONLY NoWrap, Core, d \in Timeouts \cup {0}, <2>1, WaitMoves
<1>6. ASSUME NEW g \in Garbage, MutexUnlockFree(m, g) \/ MutexUnlockRefused(m, g)
      PROVE  Removes
  BY <1>2, <1>6 DEF MutexUnlockFree, MutexUnlockRefused
<1>7. ASSUME NEW g \in Garbage, MutexUnlockHandOver(m, g)
      PROVE  Removes
  <2> DEFINE t == Head(queue[MutexQ(m)])
  <2>1. /\ queue[MutexQ(m)] # <<>> /\ CancelTimeout(t)
        /\ WakeupTask(t, DelNextQueue(queue, MutexQ(m)), priority, wup_time)
    BY <1>7 DEF MutexUnlockHandOver
  <2>2. t \in Tasks
    BY <2>1, QueuedTasks, QueueIdFacts DEF Core, Placed
  <2> HIDE DEF t
  <2> QED
    BY ONLY <1>1, <2>1, <2>2, CancelRemoves, WakeupStays DEF Removes
<1> QED
  BY <1>0, <1>3, <1>4, <1>5, <1>6, <1>7

LEMMA ClockMoves ==
    ASSUME Core, Clock
    PROVE  Removes
<1>1. /\ wup_time \in [Tasks -> Nat] /\ timeq \in Seq(Tasks) /\ Distinct(timeq)
  BY DEF Core, SchedTypes, TimeoutsKept
<1>2. ASSUME timeq' = timeq, wup_time' = wup_time
      PROVE  Removes
  BY <1>2 DEF Removes, DeadlinesStay
<1>3. CASE Elapse
  BY <1>2, <1>3 DEF Elapse
<1>4. CASE Tick
  <2>1. CASE TimeoutDue(now')
    <3> DEFINE t == Head(timeq)
               q == IF status[t] \in {"EVENT_WAIT", "MUTEX_WAIT"}
                    THEN DelQueue(queue, t) ELSE queue
    <3>1. timeq # <<>> /\ timeq' = Tail(timeq) /\ WakeupTask(t, q, priority, wup_time)
      BY <1>4, <2>1 DEF Tick, TaskSchedule, TimeoutDue
    <3>2. t \in Tasks
      BY <1>1, <3>1, TailRange
    <3> HIDE DEF t, q
    <3> QED
      BY ONLY <1>1, <3>1, <3>2, WakeupStays DEF Removes
  <2>2. CASE ~ TimeoutDue(now')
    BY <1>2, <1>4, <2>2 DEF Tick, TaskSchedule
  <2> QED
    BY <2>1, <2>2
<1> QED
  BY <1>3, <1>4 DEF Clock

LEMMA NextMoves ==
    ASSUME NoWrap, Core, [Next]_vars
    PROVE  Removes \/ Inserts
<1>1. CASE UNCHANGED vars
  BY <1>1 DEF vars, Removes, DeadlinesStay
<1>2. CASE Next
  BY <1>2, TaskCallMoves, EventCallMoves, MutexCallMoves, ClockMoves DEF Next
<1> QED
  BY <1>1, <1>2

\* Every step keeps the order of the deadlines.
LEMMA NextKeepsOrder ==
    ASSUME NoWrap, Core, TimeoutsInOrder, [Next]_vars
    PROVE  TimeoutsInOrder'
<1>1. Core'
  BY NextCore
<1>2. /\ timeq \in Seq(Tasks) /\ timeq' \in Seq(Tasks) /\ Distinct(timeq)
      /\ wup_time \in [Tasks -> Nat] /\ wup_time' \in [Tasks -> Nat]
      /\ Range(timeq') \subseteq Tasks
      /\ \A s \in Range(timeq') : wup_time'[s] # 0
  <2>1. /\ timeq \in Seq(Tasks) /\ timeq' \in Seq(Tasks) /\ Distinct(timeq)
        /\ wup_time \in [Tasks -> Nat] /\ wup_time' \in [Tasks -> Nat]
        /\ \A t \in Tasks : wup_time'[t] # 0 <=> t \in Range(timeq')
    BY <1>1 DEF Core, SchedTypes, TimeoutsKept
  <2>2. Range(timeq') \subseteq Tasks
    BY <2>1, LenProperties, ElementOfSeq DEF Range
  <2> QED
    BY <2>1, <2>2
<1>3. Removes \/ Inserts
  BY NextMoves
<1>4. CASE Removes
  BY ONLY TimeoutsInOrder, <1>2, <1>4, RestKeepsOrder DEF Removes
<1>5. CASE Inserts
  <2>1. PICK v \in 0 .. MaxTime :
          /\ timeq' = InsertAt(timeq, TimerSlot(v), run)
          /\ \A s \in Tasks : wup_time'[s] # 0 =>
                wup_time'[s] = [wup_time EXCEPT ![run] = v][s]
    BY <1>5 DEF Inserts
  <2>2. run \in Tasks /\ run \notin Range(timeq)
    BY <1>5, CoreFacts DEF Inserts
  <2>3. Range(timeq') = Range(timeq) \cup {run}
    <3>1. TimerSlot(v) \in 1 .. Len(timeq) + 1
      BY ONLY <1>2, <2>1, TimerSlotInRange
    <3> QED
      BY ONLY <1>2, <2>1, <2>2, <3>1, InsertAtRange
  <2>4. wup_time'[run] = v
    BY <1>2, <2>1, <2>2, <2>3
  <2>5. \A i \in 1 .. Len(timeq) : timeq[i] \in Range(timeq) /\ timeq[i] \in Tasks
    BY <1>2, LenProperties, ElementOfSeq DEF Range
  <2>6. \A i \in 1 .. Len(timeq) : wup_time'[timeq[i]] = wup_time[timeq[i]]
    BY <1>2, <2>1, <2>2, <2>3, <2>5
  <2> QED
    BY ONLY v \in Nat, TimeoutsInOrder, <1>2, <2>1, <2>2, <2>4, <2>6,
            InsertionKeepsOrder
<1> QED
  BY <1>3, <1>4, <1>5

\* The timeout queue is always in the order of the deadlines, of which the tick
\* looks only at the first one (sleepqueue_add(), sleepqueue_schedule()).
THEOREM TimeoutsStayInOrder ==
    ASSUME NoWrap
    PROVE  Spec => []TimeoutsInOrder
<1>1. Init => Core /\ TimeoutsInOrder
  <2>1. Init => TimeoutsInOrder
    BY DEF Init, TimeoutsInOrder
  <2> QED
    BY <2>1, InitCore
<1>2. Core /\ TimeoutsInOrder /\ [Next]_vars => (Core /\ TimeoutsInOrder)'
  BY NextCore, NextKeepsOrder
<1> QED
  BY <1>1, <1>2, PTL DEF Spec

-----------------------------------------------------------------------------
(* Who is resumed, by whom, and what it is told.                           *)

\* A task that is resumed from a wait is the head of the queue of an event or
\* of a mutex that is handed over, or of the timeout queue.
Resumed(t) ==
    \/ \E e \in Events, a \in Args :
          /\ EventWakeup(e, a) /\ ResumeWaiter(e)
          /\ t = Head(queue[EventQ(e)])
    \/ \E m \in Mutexes, g \in Garbage :
          MutexUnlockHandOver(m, g) /\ t = Head(queue[MutexQ(m)])
    \/ Tick /\ TimeoutDue(now') /\ t = Head(timeq)

\* A task that is on its ready queue does not wait.
LEMMA ReadyTaskIsNotWaiting ==
    ASSUME Core, NEW t \in Tasks, t \in Range(queue[Ready(BasePriority[t])])
    PROVE  status[t] \notin Waiting
<1>1. Ready(BasePriority[t]) \in QueueIds /\ BasePriority[t] \in Priorities
  BY HomeFacts
<1>2. Ready(BasePriority[t]) \in Home(t, status[t]) /\ status[t] \in Statuses
  BY <1>1 DEF Core, Placed, SchedTypes
<1>3. status[t] \in {"DORMANT", "READY", "RUN"}
  BY <1>1, <1>2, HomeOfReady
<1> QED
  BY <1>3 DEF Waiting

\* A call that blocks resumes nobody who waits.
LEMMA BlockResumesNone ==
    ASSUME Core, Core', NEW t \in Tasks, t # run, run' = t,
           NEW st, NEW wup, NEW q, Block(q, st, wup),
           \A i \in QueueIds : Range(q[i]) \subseteq Range(queue[i]) \cup {run}
    PROVE  status[t] \notin Waiting
<1>1. queue' = q
  BY DEF Block
<1>2. /\ Ready(BasePriority[t]) \in QueueIds
      /\ queue'[Ready(BasePriority[t])] # <<>>
      /\ Head(queue'[Ready(BasePriority[t])]) = t
  BY HomeFacts DEF Core, RunningTaskHeadsItsQueue
<1>3. Queued(q)
  BY <1>1 DEF Core, Placed
<1>4. t \in Range(q[Ready(BasePriority[t])])
  BY <1>1, <1>2, <1>3, QueuedTasks
<1>5. t \in Range(queue[Ready(BasePriority[t])])
  BY <1>2, <1>4
<1> QED
  BY <1>5, ReadyTaskIsNotWaiting

\* The queues of a blocking call.
LEMMA BlockQueues ==
    ASSUME Core, Caller, NEW j \in QueueIds
    PROVE  \A i \in QueueIds :
              /\ Range(OffReady[i]) \subseteq Range(queue[i]) \cup {run}
              /\ Range(AddQueue(OffReady, j, run)[i]) \subseteq Range(queue[i]) \cup {run}
<1> DEFINE q == AddQueue(OffReady, j, run)
<1>1. /\ Queued(OffReady) /\ Off(OffReady, run) /\ run \in Tasks
      /\ \A i \in QueueIds : Range(OffReady[i]) = Range(queue[i]) \ {run}
  BY OffReadyFacts DEF Caller
<1>2. SameBut(OffReady, q, j) /\ Range(q[j]) = Range(OffReady[j]) \cup {run}
  BY ONLY <1>1, j \in QueueIds, AddQueueLinks
<1> QED
  BY <1>1, <1>2 DEF SameBut

LEMMA Resumption ==
    ASSUME NoWrap, Core, [Next]_vars,
           NEW t \in Tasks, status[t] \in Waiting, status'[t] = "RUN"
    PROVE  Resumed(t)
<1>0. /\ Core'
      /\ status[t] # "DORMANT" /\ status[t] # "REQUEST_WAIT" /\ status[t] # "RUN"
  BY NextCore DEF Waiting
<1>1. run' = t /\ t # run /\ status' # status
  <2>1. t = run'
    BY <1>0 DEF Core, RunningTaskHeadsItsQueue
  <2>2. t # run
    BY <1>0 DEF Core, RunningTaskHeadsItsQueue
  <2> QED
    BY <1>0, <2>1, <2>2
<1>2. CASE UNCHANGED vars
  BY <1>1, <1>2 DEF vars
<1>3. CASE TaskCall
  <2>1. ASSUME NEW s \in Tasks, TaskExec(s)
        PROVE  FALSE
    <3>1. run' = s /\ s \notin task_list
      BY <2>1, TaskAssumption DEF TaskExec, TaskInit, WakeupTask, DispatchTask
    <3> QED
      BY <1>0, <1>1, <3>1 DEF Core, TasksKept
  <2>2. ASSUME NEW s \in Tasks, TaskAdd(s)
        PROVE  FALSE
    BY <1>1, <2>2 DEF TaskAdd
  <2>3. ASSUME NEW s \in Tasks, TaskWakeup(s)
        PROVE  FALSE
    <3>1. run' = s /\ s \in Range(queue[WaitQ])
      BY <2>3, TaskAssumption DEF TaskWakeup, WakeupTask, DispatchTask
    <3> QED
      BY <1>0, <1>1, <3>1, CoreFacts
  <2>4. ASSUME Caller, NEW st, NEW wup, Block(OffReady, st, wup)
        PROVE  FALSE
    BY <1>0, <1>1, <2>4, QueueIdFacts, BlockQueues, BlockResumesNone
  <2>5. ~ TaskExit
    BY <2>4 DEF TaskExit
  <2>6. ~ TaskPause
    BY <1>0, <1>1, QueueIdFacts, BlockQueues, BlockResumesNone DEF TaskPause
  <2>7. \A d \in Timeouts : ~ TaskSleep(d)
    BY <2>4 DEF TaskSleep
  <2> QED
    BY <1>3, <2>1, <2>2, <2>3, <2>5, <2>6, <2>7 DEF TaskCall
<1>4. ASSUME NEW j \in QueueIds, Caller, NEW st, NEW wup,
             Block(AddQueue(OffReady, j, run), st, wup)
      PROVE  FALSE
  BY <1>0, <1>1, <1>4, BlockQueues, BlockResumesNone
<1>5. CASE EventCall
  <2>0. PICK e \in Events :
          \/ \E d \in Timeouts \cup {0} : EventWaitStored(e, d)
          \/ \E d \in Timeouts \cup {0} : EventWaitBlock(e, d)
          \/ EventClear(e)
          \/ \E a \in Args : EventWakeup(e, a)
    BY <1>5 DEF EventCall
  <2>1. \A d \in Timeouts \cup {0} : ~ EventWaitStored(e, d)
    BY <1>1 DEF EventWaitStored
  <2>2. \A d \in Timeouts \cup {0} : ~ EventWaitBlock(e, d)
    BY <1>4, QueueIdFacts DEF EventWaitBlock
  <2>3. ~ EventClear(e)
    BY <1>1 DEF EventClear
  <2>4. ASSUME NEW a \in Args, EventWakeup(e, a)
        PROVE  Resumed(t)
    <3>1. ResumeWaiter(e)
      BY <1>1, <2>4 DEF EventWakeup
    <3>2. run' = Head(queue[EventQ(e)])
      <4> DEFINE h == Head(queue[EventQ(e)])
      <4>1. h \in Tasks
        BY <3>1, QueuedTasks, QueueIdFacts DEF ResumeWaiter, Core, Placed
      <4>2. WakeupTask(h, DelNextQueue(queue, EventQ(e)), priority, wup_time)
        BY <3>1 DEF ResumeWaiter
      <4> HIDE DEF h
      <4> QED
        BY <4>1, <4>2, TaskAssumption DEF WakeupTask, DispatchTask, h
    <3> QED
      BY <1>1, <2>4, <3>1, <3>2 DEF Resumed
  <2> QED
    BY <2>0, <2>1, <2>2, <2>3, <2>4
<1>6. CASE MutexCall
  <2>0. PICK m \in Mutexes :
          \/ \E d \in Timeouts \cup {0} : MutexLockFree(m, d)
          \/ MutexLockOwn(m)
          \/ \E d \in Timeouts \cup {0} : MutexLockBlock(m, d)
          \/ \E g \in Garbage : \/ MutexUnlockFree(m, g)
                               \/ MutexUnlockHandOver(m, g)
                               \/ MutexUnlockRefused(m, g)
    BY <1>6 DEF MutexCall
  <2>1. \A d \in Timeouts \cup {0} : ~ MutexLockFree(m, d)
    BY <1>1 DEF MutexLockFree
  <2>2. \A d \in Timeouts \cup {0} : ~ MutexLockBlock(m, d)
    BY <1>4, QueueIdFacts DEF MutexLockBlock
  <2>3. ~ MutexLockOwn(m)
    BY <1>1 DEF MutexLockOwn
  <2>4. \A g \in Garbage : ~ MutexUnlockFree(m, g) /\ ~ MutexUnlockRefused(m, g)
    BY <1>1 DEF MutexUnlockFree, MutexUnlockRefused
  <2>5. ASSUME NEW g \in Garbage, MutexUnlockHandOver(m, g)
        PROVE  Resumed(t)
    <3> DEFINE h == Head(queue[MutexQ(m)])
    <3>1. h \in Tasks
      BY <2>5, QueuedTasks, QueueIdFacts DEF MutexUnlockHandOver, Core, Placed
    <3>2. WakeupTask(h, DelNextQueue(queue, MutexQ(m)), priority, wup_time)
      BY <2>5 DEF MutexUnlockHandOver
    <3> HIDE DEF h
    <3>3. run' = h
      BY <3>1, <3>2, TaskAssumption DEF WakeupTask, DispatchTask
    <3> QED
      BY <1>1, <2>5, <3>3 DEF Resumed, h
  <2> QED
    BY <2>0, <2>1, <2>2, <2>3, <2>4, <2>5
<1>7. CASE Clock
  <2>1. ~ Elapse
    BY <1>1 DEF Elapse
  <2>2. Tick /\ TimeoutDue(now')
    BY <1>1, <1>7, <2>1 DEF Clock, Tick, TaskSchedule
  <2>3. run' = Head(timeq)
    <3> DEFINE h == Head(timeq)
               q == IF status[h] \in {"EVENT_WAIT", "MUTEX_WAIT"}
                    THEN DelQueue(queue, h) ELSE queue
    <3>1. h \in Tasks
      BY <2>2, TailRange DEF TimeoutDue, Core, SchedTypes, TimeoutsKept
    <3>2. WakeupTask(h, q, priority, wup_time)
      BY <2>2 DEF Tick, TaskSchedule
    <3> HIDE DEF h, q
    <3> QED
      BY <3>1, <3>2, TaskAssumption DEF WakeupTask, DispatchTask, h
  <2> QED
    BY <1>1, <2>2, <2>3 DEF Resumed
<1> QED
  BY <1>2, <1>3, <1>5, <1>6, <1>7 DEF Next

\* A deadline is not beyond the clock's last moment, and whoever waits for an
\* event has been told nothing yet.
Untold ==
    /\ \A t \in Tasks : wup_time[t] <= MaxTime
    /\ \A t \in Tasks : status[t] = "EVENT_WAIT" => ret[t] = -1 /\ arg[t] = NoArg

\* What a step does to a task that waits for an event after it.
LEMMA WaitersAreUntold ==
    ASSUME NoWrap, Core, Data, Untold, [Next]_vars,
           NEW t \in Tasks, status'[t] = "EVENT_WAIT"
    PROVE  ret'[t] = -1 /\ arg'[t] = NoArg
<1>0. /\ Core'
      /\ status \in [Tasks -> Statuses]
      /\ ret \in [Tasks -> Int] /\ arg \in [Tasks -> Args \cup {NoArg}]
      /\ \A s \in Tasks : status'[s] = "RUN" <=> s = run'
      /\ t # run'
  BY NextCore DEF Core, SchedTypes, RunningTaskHeadsItsQueue, Data, DataTypes
<1>1. ASSUME NEW x \in Tasks, NEW st, NEW pri, NEW wup, DispatchTask(x, st, pri, wup),
             st # "EVENT_WAIT"
      PROVE  t # run /\ status[t] = "EVENT_WAIT"
  BY <1>0, <1>1, TaskAssumption DEF DispatchTask
<1>2. ASSUME status[t] = "EVENT_WAIT" PROVE ret[t] = -1 /\ arg[t] = NoArg
  BY <1>2 DEF Untold
<1>3. \A s \in Tasks : status[s] = "RUN" <=> s = run
  BY DEF Core, RunningTaskHeadsItsQueue
<1>4. status[t] = "EVENT_WAIT" => t # run
  BY <1>3
\* The result of the caller's own call.
<1>5. ASSUME t # run, status[t] = "EVENT_WAIT", NEW r, NEW a, Result(r, a)
      PROVE  ret'[t] = -1 /\ arg'[t] = NoArg
  BY <1>0, <1>2, <1>5 DEF Result
<1>6. ASSUME status' = status, NEW r, NEW a, Result(r, a)
      PROVE  ret'[t] = -1 /\ arg'[t] = NoArg
  BY <1>4, <1>5, <1>6
<1>7. ASSUME Caller, NEW q, NEW st, NEW wup, st # "EVENT_WAIT",
             Block(q, st, wup), NEW r, NEW a, Result(r, a)
      PROVE  ret'[t] = -1 /\ arg'[t] = NoArg
  <2>1. DispatchTask(SearchNextTask(q), st, priority, wup)
    BY <1>7 DEF Block
  <2>2. status[t] = "EVENT_WAIT"
    BY <1>0, <1>7, <2>1 DEF DispatchTask, Caller
  <2> QED
    BY <1>4, <1>5, <1>7, <2>2
<1>8. ASSUME status' = status, ret' = ret, arg' = arg
      PROVE  ret'[t] = -1 /\ arg'[t] = NoArg
  BY <1>2, <1>8
<1>9. ASSUME NEW x, NEW q, NEW pri, NEW wup, WakeupTask(x, q, pri, wup)
      PROVE  status[t] = "EVENT_WAIT" /\ (x # NoTask => t # x)
  BY <1>0, <1>9 DEF WakeupTask, DispatchTask
<1>10. CASE UNCHANGED vars
  BY <1>8, <1>10 DEF vars
<1>11. CASE TaskCall
  <2>1. ASSUME NEW s \in Tasks, TaskExec(s) \/ TaskAdd(s) \/ TaskWakeup(s)
        PROVE  ret'[t] = -1 /\ arg'[t] = NoArg
    <3>1. ret' = ret /\ arg' = arg
      BY <2>1 DEF TaskExec, TaskAdd, TaskWakeup, TaskInit
    <3>2. status[t] = "EVENT_WAIT"
      <4>1. CASE TaskExec(s)
        BY <1>9, <4>1 DEF TaskExec
      <4>2. CASE TaskAdd(s)
        BY <1>0, <4>2 DEF TaskAdd
      <4>3. CASE TaskWakeup(s)
        BY <1>9, <4>3 DEF TaskWakeup
      <4> QED
        BY <2>1, <4>1, <4>2, <4>3
    <3> QED
      BY <1>2, <3>1, <3>2
  <2>2. CASE TaskExit
    BY <1>7, <2>2 DEF TaskExit, NoResult
  <2>3. CASE TaskPause
    BY <1>7, <2>3 DEF TaskPause, NoResult
  <2>4. ASSUME NEW d \in Timeouts, TaskSleep(d)
        PROVE  ret'[t] = -1 /\ arg'[t] = NoArg
    BY <1>7, <2>4 DEF TaskSleep, NoResult
  <2> QED
    BY <1>11, <2>1, <2>2, <2>3, <2>4 DEF TaskCall
<1>12. CASE EventCall
  <2>0. PICK e \in Events :
          \/ \E d \in Timeouts \cup {0} : EventWaitStored(e, d)
          \/ \E d \in Timeouts \cup {0} : EventWaitBlock(e, d)
          \/ EventClear(e)
          \/ \E a \in Args : EventWakeup(e, a)
    BY <1>12 DEF EventCall
  <2>1. ASSUME NEW d \in Timeouts \cup {0}, EventWaitStored(e, d)
        PROVE  ret'[t] = -1 /\ arg'[t] = NoArg
    BY <1>6, <2>1 DEF EventWaitStored
  <2>2. ASSUME NEW d \in Timeouts \cup {0}, EventWaitBlock(e, d)
        PROVE  ret'[t] = -1 /\ arg'[t] = NoArg
    <3>1. Result(-1, NoArg)
      BY <2>2 DEF EventWaitBlock
    <3>2. CASE t = run
      BY <1>0, <3>1, <3>2 DEF Result
    <3>3. CASE t # run
      <4>1. DispatchTask(SearchNextTask(AddQueue(OffReady, EventQ(e), run)),
                         "EVENT_WAIT", priority, DeadlineAfter(d))
        BY <2>2 DEF EventWaitBlock, Block
      <4>2. status[t] = "EVENT_WAIT"
        BY <1>0, <3>3, <4>1 DEF DispatchTask
      <4> QED
        BY <1>5, <3>1, <3>3, <4>2
    <3> QED
      BY <3>2, <3>3
  <2>3. CASE EventClear(e)
    BY <1>6, <2>3 DEF EventClear, NoResult
  <2>4. ASSUME NEW a \in Args, EventWakeup(e, a)
        PROVE  ret'[t] = -1 /\ arg'[t] = NoArg
    <3>1. CASE ResumeWaiter(e) /\ arg' = [arg EXCEPT ![Head(queue[EventQ(e)])] = a]
      <4> DEFINE h == Head(queue[EventQ(e)])
                 left == Remaining(h)
      <4>1. h \in Tasks
        BY <3>1, QueuedTasks, QueueIdFacts DEF ResumeWaiter, Core, Placed
      <4>2. WakeupTask(h, DelNextQueue(queue, EventQ(e)), priority, wup_time)
        BY <3>1 DEF ResumeWaiter
      <4>3. ret' = [ret EXCEPT ![h] = IF left < 0 THEN 0 ELSE left]
        BY <3>1 DEF ResumeWaiter
      <4>4. arg' = [arg EXCEPT ![h] = a]
        BY <3>1
      <4> HIDE DEF h, left
      <4>5. status[t] = "EVENT_WAIT" /\ t # h
        BY <1>9, <4>1, <4>2, TaskAssumption
      <4> QED
        BY <1>0, <1>2, <4>3, <4>4, <4>5
    <3>2. CASE UNCHANGED <<status, ret, arg>>
      BY <1>8, <3>2
    <3> QED
      BY <2>4, <3>1, <3>2 DEF EventWakeup
  <2> QED
    BY <2>0, <2>1, <2>2, <2>3, <2>4
<1>13. CASE MutexCall
  <2>0. PICK m \in Mutexes :
          \/ \E d \in Timeouts \cup {0} : MutexLockFree(m, d)
          \/ MutexLockOwn(m)
          \/ \E d \in Timeouts \cup {0} : MutexLockBlock(m, d)
          \/ \E g \in Garbage : \/ MutexUnlockFree(m, g)
                               \/ MutexUnlockHandOver(m, g)
                               \/ MutexUnlockRefused(m, g)
    BY <1>13 DEF MutexCall
  <2>1. ASSUME NEW d \in Timeouts \cup {0}, MutexLockFree(m, d)
        PROVE  ret'[t] = -1 /\ arg'[t] = NoArg
    BY <1>6, <2>1 DEF MutexLockFree
  <2>2. CASE MutexLockOwn(m)
    BY <1>6, <2>2 DEF MutexLockOwn
  <2>3. ASSUME NEW d \in Timeouts \cup {0}, MutexLockBlock(m, d)
        PROVE  ret'[t] = -1 /\ arg'[t] = NoArg
    BY <1>7, <2>3 DEF MutexLockBlock
  <2>4. ASSUME NEW g \in Garbage, MutexUnlockFree(m, g) \/ MutexUnlockRefused(m, g)
        PROVE  ret'[t] = -1 /\ arg'[t] = NoArg
    BY <1>6, <2>4 DEF MutexUnlockFree, MutexUnlockRefused
  <2>5. ASSUME NEW g \in Garbage, MutexUnlockHandOver(m, g)
        PROVE  ret'[t] = -1 /\ arg'[t] = NoArg
    <3> DEFINE h == Head(queue[MutexQ(m)])
    <3>1. h \in Tasks
      BY <2>5, QueuedTasks, QueueIdFacts DEF MutexUnlockHandOver, Core, Placed
    <3>2. /\ WakeupTask(h, DelNextQueue(queue, MutexQ(m)), priority, wup_time)
          /\ ret' = [ret EXCEPT ![h] = Remaining(h), ![run] = g]
          /\ arg' = [arg EXCEPT ![run] = NoArg]
      BY <2>5 DEF MutexUnlockHandOver
    <3> HIDE DEF h
    <3>3. status[t] = "EVENT_WAIT" /\ t # h
      BY <1>9, <3>1, <3>2, TaskAssumption
    <3> QED
      BY <1>0, <1>2, <1>4, <3>2, <3>3
  <2> QED
    BY <2>0, <2>1, <2>2, <2>3, <2>4, <2>5
<1>14. CASE Clock
  <2>1. ret' = ret /\ arg' = arg
    BY <1>14 DEF Clock, Elapse, Tick
  <2>2. status[t] = "EVENT_WAIT"
    <3>1. CASE status' = status
      BY <1>0, <3>1
    <3>2. CASE status' # status
      <4>1. \E x, q : WakeupTask(x, q, priority, wup_time)
        BY <1>14, <3>2 DEF Clock, Elapse, Tick, TaskSchedule
      <4> QED
        BY <1>9, <4>1
    <3> QED
      BY <3>1, <3>2
  <2> QED
    BY <1>2, <2>1, <2>2
<1> QED
  BY <1>10, <1>11, <1>12, <1>13, <1>14 DEF Next

LEMMA NextKeepsUntold ==
    ASSUME NoWrap, Core, Data, Untold, [Next]_vars
    PROVE  Untold'
<1>1. /\ wup_time \in [Tasks -> Nat] /\ wup_time' \in [Tasks -> Nat]
      /\ MaxTime \in Nat
  BY NextCore, TimeAssumption DEF Core, SchedTypes
<1>2. Removes \/ Inserts
  BY NextMoves
<1>3. \A t \in Tasks : wup_time[t] <= MaxTime
  BY DEF Untold
<1>4. \A t \in Tasks : wup_time'[t] <= MaxTime
  <2>1. CASE Removes
    BY <1>1, <1>3, <2>1 DEF Removes, DeadlinesStay
  <2>2. CASE Inserts
    BY <1>1, <1>3, <2>2 DEF Inserts
  <2> QED
    BY <1>2, <2>1, <2>2
<1> QED
  BY <1>4, WaitersAreUntold DEF Untold

LEMMA UntoldInvariance ==
    ASSUME NoWrap
    PROVE  Spec => [](Core /\ Data /\ Untold)
<1>1. Init => Core /\ Data /\ Untold
  <2>1. Init => Untold
    BY TimeAssumption DEF Init, Untold
  <2> QED
    BY <2>1, InitCore, InitData
<1>2. Core /\ Data /\ Untold /\ [Next]_vars => (Core /\ Data /\ Untold)'
  BY NextCore, NextData, NextKeepsUntold
<1> QED
  BY <1>1, <1>2, PTL DEF Spec

\* Without a wrap the time left is below 0 only after the deadline.
LEMMA LeftIsSigned ==
    ASSUME MaxTime < TimeModulus \div 2, Core, Untold, NEW t \in Tasks,
           Remaining(t) < 0
    PROVE  now >= wup_time[t]
<1> DEFINE x == wup_time[t] - now
<1>1. /\ wup_time[t] \in Nat /\ now \in Nat /\ wup_time[t] <= MaxTime
      /\ MaxTime \in Nat /\ TimeModulus \in Nat \ {0}
  BY TimeAssumption DEF Core, SchedTypes, Untold
<1>2. TimeModulus \div 2 \in Nat /\ TimeModulus \div 2 <= TimeModulus
  BY <1>1
<1>3. SUFFICES ASSUME ~ (now >= wup_time[t])
               PROVE  FALSE
  OBVIOUS
<1>4. x \in Nat /\ x < TimeModulus \div 2 /\ wup_time[t] # 0 /\ x < TimeModulus
  BY <1>1, <1>2, <1>3
<1>5. Remaining(t) = Signed(x)
  BY <1>4 DEF Remaining
<1> HIDE DEF x
<1>6. x % TimeModulus = x
  BY <1>1, <1>4
<1>7. Signed(x) = x
  BY <1>4, <1>6 DEF Signed
<1> QED
  BY <1>4, <1>5, <1>7

\* A task that sleeps, or is told that its time ran out, goes on at its deadline
\* or later, however the queues were used in between.
THEOREM NobodyIsEarly ==
    ASSUME MaxTime < TimeModulus \div 2
    PROVE  Spec => NeverResumedEarly
<1>0. NoWrap
  <2>1. MaxTime \in Nat /\ TimeModulus \in Nat \ {0}
    BY TimeAssumption
  <2> QED
    BY <2>1 DEF NoWrap
<1>1. ASSUME Core, Data, Untold, [Next]_vars, NEW t \in Tasks,
             t \in Range(timeq), status[t] = "TIMER_WAIT" \/ ret[t] = -1,
             status'[t] = "RUN", ret'[t] = ret[t]
      PROVE  now' >= wup_time[t]
  <2>0. /\ status[t] \in Waiting /\ wup_time[t] \in Nat
        /\ ret \in [Tasks -> Int]
        /\ run \in Tasks => status[run] = "RUN"
    BY <1>1, CoreFacts DEF Core, SchedTypes, TimeoutsKept, Data, DataTypes
  <2>1. Resumed(t)
    BY <1>0, <1>1, <2>0, Resumption
  <2>2. ASSUME NEW e \in Events, ResumeWaiter(e), t = Head(queue[EventQ(e)])
        PROVE  FALSE
    <3> DEFINE left == Remaining(t)
    <3>1. t \in Range(queue[EventQ(e)])
      BY <1>1, <2>2, QueuedTasks, QueueIdFacts DEF ResumeWaiter, Core, Placed
    <3>2. status[t] = "EVENT_WAIT"
      BY <1>1, <3>1, CoreFacts
    <3>3. ret[t] = -1
      BY <1>1, <3>2
    <3>4. ret' = [ret EXCEPT ![t] = IF left < 0 THEN 0 ELSE left]
      BY <2>2 DEF ResumeWaiter
    <3>5. left \in Int
      BY <1>1, RemainingType
    <3> HIDE DEF left
    <3> QED
      BY <1>1, <2>0, <3>3, <3>4, <3>5
  <2>3. ASSUME NEW m \in Mutexes, NEW g \in Garbage, MutexUnlockHandOver(m, g),
               t = Head(queue[MutexQ(m)])
        PROVE  now' >= wup_time[t]
    <3>1. t \in Range(queue[MutexQ(m)])
      BY <1>1, <2>3, QueuedTasks, QueueIdFacts DEF MutexUnlockHandOver, Core, Placed
    <3>2. status[t] = "MUTEX_WAIT"
      BY <1>1, <3>1, CoreFacts
    <3>3. ret[t] = -1 /\ t # run
      BY <1>1, <2>0, <3>2
    <3>4. ret' = [ret EXCEPT ![t] = Remaining(t), ![run] = g] /\ now' = now
      BY <2>3 DEF MutexUnlockHandOver
    <3>5. ret'[t] = Remaining(t)
      BY <2>0, <3>3, <3>4
    <3>6. Remaining(t) < 0
      BY <1>1, <3>3, <3>5
    <3>7. now >= wup_time[t]
      BY <1>1, <3>6, LeftIsSigned
    <3> QED
      BY <3>4, <3>7
  <2>4. CASE Tick /\ TimeoutDue(now') /\ t = Head(timeq)
    BY <2>4 DEF TimeoutDue
  <2> QED
    BY <2>1, <2>2, <2>3, <2>4 DEF Resumed
<1>2. Core /\ Data /\ Untold /\ [Next]_vars =>
        [\A t \in Tasks :
          /\ t \in Range(timeq)
          /\ status[t] = "TIMER_WAIT" \/ ret[t] = -1
          /\ status'[t] = "RUN"
          /\ ret'[t] = ret[t]
          => now' >= wup_time[t]]_vars
  BY <1>1
<1> QED
  BY <1>0, <1>2, UntoldInvariance, PTL DEF Spec, NeverResumedEarly

\* event_wait() says that time was left exactly when it gives an event, however
\* late it came.
THEOREM WaitersAreTold ==
    ASSUME NoWrap
    PROVE  Spec => ToldOfTheEvent
<1>1. ASSUME Core, Data, Untold, [Next]_vars, NEW t \in Tasks,
             status[t] = "EVENT_WAIT", status'[t] = "RUN"
      PROVE  ret'[t] >= 0 <=> arg'[t] # NoArg
  <2>0. /\ ret \in [Tasks -> Int] /\ arg \in [Tasks -> Args \cup {NoArg}]
        /\ ret[t] = -1 /\ arg[t] = NoArg
    BY <1>1 DEF Data, DataTypes, Untold
  <2>1. Resumed(t)
    BY <1>1, Resumption DEF Waiting
  <2>2. ASSUME NEW e \in Events, NEW a \in Args, EventWakeup(e, a),
               ResumeWaiter(e), t = Head(queue[EventQ(e)])
        PROVE  ret'[t] >= 0 /\ arg'[t] # NoArg
    <3> DEFINE left == Remaining(t)
    <3>1. /\ ret' = [ret EXCEPT ![t] = IF left < 0 THEN 0 ELSE left]
          /\ queue[EventQ(e)] # <<>>
      BY <2>2 DEF ResumeWaiter
    <3>2. arg' = [arg EXCEPT ![t] = a]
      BY <2>2, <3>1 DEF EventWakeup
    <3>3. left \in Int
      BY <1>1, RemainingType
    <3> HIDE DEF left
    <3> QED
      BY <2>0, <3>1, <3>2, <3>3, EventAssumption
  <2>3. ASSUME NEW m \in Mutexes, NEW g \in Garbage, MutexUnlockHandOver(m, g),
               t = Head(queue[MutexQ(m)])
        PROVE  FALSE
    <3>1. t \in Range(queue[MutexQ(m)])
      BY <1>1, <2>3, QueuedTasks, QueueIdFacts DEF MutexUnlockHandOver, Core, Placed
    <3> QED
      BY <1>1, <3>1, CoreFacts
  <2>4. CASE Tick
    BY <2>0, <2>4 DEF Tick
  <2> QED
    BY <2>1, <2>2, <2>3, <2>4 DEF Resumed
<1>2. Core /\ Data /\ Untold /\ [Next]_vars =>
        [\A t \in Tasks :
          status[t] = "EVENT_WAIT" /\ status'[t] = "RUN" =>
              (ret'[t] >= 0 <=> arg'[t] # NoArg)]_vars
  BY <1>1
<1> QED
  BY <1>2, UntoldInvariance, PTL DEF Spec, ToldOfTheEvent

-----------------------------------------------------------------------------
(* One task kills another. *)

\* task_kill() ends up as if the caller had been interrupted: whoever is found
\* next is on its ready queue, and only the task killed has left its queue.
LEMMA KillKeepsCore ==
    ASSUME Core, NEW v \in Tasks, TaskKill(v)
    PROVE  /\ Core'
           /\ \A s \in task_list' \ {v} : Findable(s) => Findable(s)'
<1>0. /\ run \in Tasks
      /\ run # Idle
      /\ v # Idle
      /\ v \in task_list
      /\ BasePriority \in [Tasks -> Priorities]
      /\ priority = BasePriority
      /\ next_priority = BasePriority
      /\ UNCHANGED <<now, task_list, next_priority, timeq>>
  BY TaskAssumption DEF Core, Caller, TaskKill
<1>1. /\ \A s \in Tasks : status[s] = "RUN" <=> s = run
      /\ status \in [Tasks -> Statuses]
      /\ wup_time \in [Tasks -> Nat]
      /\ Queued(queue)
  BY DEF Core, SchedTypes, RunningTaskHeadsItsQueue, Placed
<1>2. \A i \in QueueIds : \A s \in Range(queue[i]) :
         /\ s \in Tasks
         /\ s \in task_list
         /\ i \in Home(s, status[s])
  BY CoreFacts DEF Core, Placed
<1>3. CASE UNCHANGED <<run, status, priority, wup_time, queue>>
  <2>1. now \in Nat
    BY DEF Core, SchedTypes
  <2>2. Core'
    BY <1>0, <1>3, <2>1, IdleStepKeepsCore
  <2> QED
    BY <1>3, <2>2 DEF Findable, Off
<1>4. CASE Block(DelQueue(queue, v), "DORMANT", wup_time)
  <2> DEFINE q == DelQueue(queue, v)
             t == SearchNextTask(q)
             home == Ready(BasePriority[t])
  <2>1. /\ Queued(q)
        /\ \A i \in QueueIds : Range(q[i]) = Range(queue[i]) \ {v}
        /\ Off(q, v)
    BY <1>1, DelQueueUnlinks
  <2>2. Block(q, "DORMANT", wup_time)
    BY <1>4
  <2> HIDE DEF q
  <2>3. /\ BasePriority[Idle] \in Priorities
        /\ Idle \in Tasks
        /\ Ready(BasePriority[Idle]) \in QueueIds
        /\ Idle \in Range(q[Ready(BasePriority[Idle])])
        /\ q[Ready(BasePriority[Idle])] # <<>>
    <3>1. /\ Idle \in Tasks
          /\ BasePriority[Idle] \in Priorities
          /\ Ready(BasePriority[Idle]) \in QueueIds
      BY TaskAssumption, HomeFacts
    <3>2. Idle \in Range(q[Ready(BasePriority[Idle])])
      BY <1>0, <2>1, <3>1 DEF Core, TasksKept
    <3> QED
      BY <2>1, <3>1, <3>2, QueuedTasks
  \* The task found, perhaps the caller itself, is on its own ready queue.
  <2>4. /\ t \in Tasks
        /\ t # v
        /\ status[t] \in {"DORMANT", "READY", "RUN"}
        /\ home \in QueueIds
        /\ t \in Range(queue[home])
        /\ q[home] # <<>>
        /\ Head(q[home]) = t
        /\ \A l \in Priorities : l < BasePriority[t] => q[Ready(l)] = <<>>
    <3>1. PICK n \in Priorities :
              /\ q[Ready(n)] # <<>>
              /\ SearchNextTask(q) = Head(q[Ready(n)])
              /\ \A l \in Priorities : l < n => q[Ready(l)] = <<>>
      BY ONLY <2>1, <2>3, SearchNextTaskFinds
    <3>2. Ready(n) \in QueueIds
      BY QueueIdFacts
    <3>3. t \in Range(q[Ready(n)])
      BY <2>1, <3>1, <3>2, QueuedTasks
    <3>4. t \in Range(queue[Ready(n)]) /\ t # v
      BY <2>1, <3>2, <3>3
    <3>5. t \in Tasks /\ Ready(n) \in Home(t, status[t])
      BY <1>2, <3>2, <3>4
    <3>6. status[t] \in Statuses
      BY <1>1, <3>5
    <3>7. n = BasePriority[t] /\ status[t] \in {"DORMANT", "READY", "RUN"}
      BY <3>5, <3>6, HomeOfReady
    <3> QED
      BY <3>1, <3>2, <3>4, <3>5, <3>7
  <2>5. /\ queue' = q
        /\ status' = [s \in Tasks |-> IF s = t THEN "RUN"
                                      ELSE IF s = run THEN "DORMANT"
                                      ELSE status[s]]
        /\ priority' = [s \in Tasks |-> IF s = run THEN next_priority[s]
                                        ELSE priority[s]]
        /\ wup_time' = [wup_time EXCEPT ![t] = 0]
        /\ run' = t
    <3>1. t # NoTask
      BY <2>4, TaskAssumption
    <3> QED
      BY <2>2, <3>1 DEF Block, DispatchTask
  <2> HIDE DEF t, home
  <2>6. t \notin Range(timeq) /\ wup_time[t] = 0
    BY <2>4 DEF Core, TimeoutsKept, Waiting
  <2>7. SchedTypes'
    <3>1. status' \in [Tasks -> Statuses]
      BY <1>1, <2>5 DEF Statuses
    <3>2. wup_time' \in [Tasks -> Nat]
      BY <1>1, <2>5
    <3> QED
      BY <1>0, <2>4, <2>5, <3>1, <3>2 DEF SchedTypes, Core
  <2>8. (priority = BasePriority /\ next_priority = BasePriority)'
    BY <1>0, <2>5
  <2>9. Placed'
    <3>1. ASSUME NEW i \in QueueIds, NEW s \in Range(queue'[i])
          PROVE  i \in Home(s, status'[s])
      <4>1. s \in Range(queue[i]) /\ s \in Tasks /\ i \in Home(s, status[s])
        BY <1>2, <2>1, <2>5, <3>1
      <4>2. CASE s = t
        BY <2>4, <2>5, <4>1, <4>2, HomeFacts
      <4>3. CASE s # t /\ s = run
        <5>1. status'[s] = "DORMANT" /\ status[s] = "RUN"
          BY <1>1, <2>5, <4>1, <4>3
        <5> QED
          BY <4>1, <5>1, HomeFacts
      <4>4. CASE s # t /\ s # run
        BY <2>5, <4>1, <4>4
      <4> QED
        BY <4>2, <4>3, <4>4
    <3> QED
      BY <2>1, <2>5, <3>1 DEF Placed
  <2>10. RunningTaskHeadsItsQueue'
    <3>1. \A s \in Tasks : status'[s] = "RUN" <=> s = t
      BY <1>1, <2>5
    <3>2. Ready(priority'[run']) = home
      BY <2>5, <2>8 DEF home
    <3> QED
      BY <2>4, <2>5, <3>1, <3>2 DEF RunningTaskHeadsItsQueue
  <2>11. IdlesOnlyWithoutWork'
    <3> SUFFICES ASSUME t = Idle,
                        NEW p \in Priorities, NEW s \in Range(q[Ready(p)])
                 PROVE  s = Idle
      BY <2>5 DEF IdlesOnlyWithoutWork
    <3>1. Ready(p) \in QueueIds
      BY QueueIdFacts
    <3>2. s \in Tasks /\ Ready(p) \in Home(s, status[s])
      BY <1>2, <2>1, <3>1
    <3>3. status[s] \in Statuses
      BY <1>1, <3>2
    <3>4. p = BasePriority[s]
      BY <3>2, <3>3, HomeOfReady
    <3>5. q[Ready(p)] # <<>>
      BY <2>1, <3>1, QueuedTasks
    <3>6. ~ (p < BasePriority[Idle])
      BY <2>4, <3>5
    <3> QED
      BY <3>2, <3>4, <3>6, IdleAssumption
  <2>12. TimeoutsKept'
    <3>1. wup_time' = wup_time
      BY <1>1, <2>4, <2>5, <2>6
    <3>2. ASSUME NEW s \in Range(timeq)
          PROVE  status'[s] \in Waiting
      <4>1. s \in Tasks
        BY InRange, ElementOfSeq DEF Core, SchedTypes
      <4>2. s # t /\ s # run
        BY <1>0, <2>6, CoreFacts
      <4> QED
        BY <2>5, <4>1, <4>2 DEF Core, TimeoutsKept
    <3>3. ASSUME NEW s \in Tasks, status'[s] = "TIMER_WAIT"
          PROVE  s \in Range(timeq)
      BY <2>5, <3>3 DEF Core, TimeoutsKept
    <3> QED
      BY <1>0, <3>1, <3>2, <3>3 DEF Core, TimeoutsKept
  <2>13. TasksKept'
    <3>1. ASSUME NEW s \in Tasks \ task_list
          PROVE  status'[s] = "DORMANT" /\ Off(queue', s)
      <4>1. s # t /\ s # run
        BY <1>0, <1>2, <2>4, CoreFacts
      <4>2. status[s] = "DORMANT" /\ Off(queue, s)
        BY DEF Core, TasksKept
      <4> QED
        BY <2>1, <2>5, <4>1, <4>2 DEF Off
    <3> QED
      BY <1>0, <2>3, <2>5, <3>1 DEF Core, TasksKept
  <2>14. ASSUME NEW s \in task_list' \ {v}, Findable(s)
         PROVE  Findable(s)'
    <3>1. s \in Tasks
      BY <1>0 DEF Core, SchedTypes
    <3>2. CASE ~ Off(queue, s)
      BY <2>1, <2>5, <2>14, <3>2 DEF Findable, Off
    <3>3. CASE status[s] = "TIMER_WAIT"
      <4>1. s # t /\ s # run
        BY <1>1, <2>4, <3>1, <3>3
      <4> QED
        BY <2>5, <3>1, <3>3, <4>1 DEF Findable
    <3> QED
      BY <2>14, <3>2, <3>3 DEF Findable
  <2> QED
    BY <2>7, <2>8, <2>9, <2>10, <2>11, <2>12, <2>13, <2>14 DEF Core
<1> QED
  BY <1>3, <1>4 DEF TaskKill

\* The invariant of a kernel in which tasks are killed: the lists stay as the
\* scheduler needs them, and only the tasks killed can be lost.
AdminInd == Core /\ \A t \in task_list \ killed : Findable(t)

\* Whatever tasks are killed and when, no other task is lost: each one that was
\* started and has not ended is linked on a queue or has a timeout to come, for
\* any number of tasks, priorities, events and mutexes.
THEOREM KillLosesNobodyElse ==
    ASSUME NoWrap
    PROVE  KillSpec => []OthersAreNotLost
<1>1. AdminInit => AdminInd
  <2> SUFFICES ASSUME AdminInit PROVE AdminInd
    OBVIOUS
  <2>1. Core /\ task_list = {Idle}
    BY InitCore DEF AdminInit, Init
  <2> QED
    BY <2>1, CoreFacts DEF AdminInd, Findable
<1>2. AdminInd /\ [Base \/ \E t \in Tasks : TaskKill(t)]_adminVars => AdminInd'
  <2> SUFFICES ASSUME AdminInd,
                      [Base \/ \E t \in Tasks : TaskKill(t)]_adminVars
               PROVE  AdminInd'
    OBVIOUS
  <2>1. CASE [Next]_vars /\ UNCHANGED killed
    <3>1. Core' /\ LosesNobody
      BY <2>1, NextCore DEF AdminInd
    <3> QED
      BY <2>1, <3>1 DEF AdminInd, LosesNobody
  <2>2. ASSUME NEW v \in Tasks, TaskKill(v)
        PROVE  AdminInd'
    <3>1. /\ Core'
          /\ \A s \in task_list' \ {v} : Findable(s) => Findable(s)'
      BY <2>2, KillKeepsCore DEF AdminInd
    <3>2. task_list' = task_list /\ killed' = killed \cup {v}
      BY <2>2 DEF TaskKill
    <3> QED
      BY <3>1, <3>2 DEF AdminInd
  <2> QED
    BY <2>1, <2>2 DEF Base, adminVars
<1>3. AdminInd => OthersAreNotLost
  <2> SUFFICES ASSUME AdminInd, NEW t \in task_list \ killed
               PROVE  \/ t \in Range(timeq)
                      \/ \E i \in QueueIds : t \in Range(queue[i])
    BY DEF OthersAreNotLost
  <2>1. t \in Tasks /\ Findable(t)
    BY DEF AdminInd, Core, SchedTypes
  <2> QED
    BY <2>1 DEF AdminInd, Core, TimeoutsKept, Findable, Off
<1> QED
  BY <1>1, <1>2, <1>3, PTL DEF KillSpec

-----------------------------------------------------------------------------
(* The kernel implements Scheduler.tla: each step of it resumes one task,  *)
(* adds one, passes the processor on, or is nothing that the application   *)
(* sees.                                                                   *)

IsReady(t) == \E p \in Priorities : t \in Range(queue[Ready(p)])

\* The tasks of the ready queues in q are those that are ready, but for S.
ReadyBut(q, S) ==
    \A p \in Priorities : Range(q[Ready(p)]) = Range(queue[Ready(p)]) \ S

-----------------------------------------------------------------------------
(* What Core says of the ready queues.                                     *)

LEMMA ReadyStatus ==
    ASSUME Core, NEW t \in Tasks, NEW p \in Priorities,
           t \in Range(queue[Ready(p)])
    PROVE  p = BasePriority[t] /\ status[t] \in {"DORMANT", "READY", "RUN"}
<1>1. Ready(p) \in Home(t, status[t]) /\ status[t] \in Statuses
  BY QueueIdFacts DEF Core, Placed, SchedTypes
<1> QED
  BY <1>1, HomeOfReady

\* A task that waits, or has not started, is seen as such.
LEMMA NotReadyIsSeen ==
    ASSUME NEW t \in Tasks, t # run, ~ IsReady(t)
    PROVE  SchedulerState[t] = IF status[t] = "DORMANT" THEN "DORMANT" ELSE "WAITING"
BY DEF SchedulerState, IsReady

LEMMA ReadyIsSeen ==
    ASSUME NEW t \in Tasks
    PROVE  /\ SchedulerState[t] = "READY" <=> t # run /\ IsReady(t)
           /\ SchedulerState[t] = "RUN" <=> t = run
BY DEF SchedulerState, IsReady

\* The running task is ready.
LEMMA RunningIsReady ==
    ASSUME Core, run \in Tasks
    PROVE  IsReady(run)
<1>1. /\ queue[Ready(BasePriority[run])] # <<>>
      /\ Head(queue[Ready(BasePriority[run])]) = run
      /\ BasePriority[run] \in Priorities
      /\ Ready(BasePriority[run]) \in QueueIds
      /\ Queued(queue)
  BY HomeFacts DEF Core, RunningTaskHeadsItsQueue, Placed
<1>2. run \in Range(queue[Ready(BasePriority[run])])
  BY <1>1, QueuedTasks
<1> QED
  BY <1>1, <1>2 DEF IsReady

-----------------------------------------------------------------------------
(* Each way to move tasks is a step of the scheduler.                      *)

\* wakeup_task(): the task takes the processor.
LEMMA WakeupPreempts ==
    ASSUME Core, NEW t \in Tasks, t # run, ~ IsReady(t),
           NEW q, Queued(q), ReadyBut(q, {}), NEW wup,
           WakeupTask(t, q, BasePriority, wup)
    PROVE  Scheduling!Next
<1> DEFINE home == Ready(BasePriority[t])
<1>1. /\ BasePriority[t] \in Priorities /\ home \in QueueIds
      /\ q \in [QueueIds -> Seq(Tasks)] /\ q[home] \in Seq(Tasks)
      /\ status \in [Tasks -> Statuses]
  BY HomeFacts DEF Queued, Core, SchedTypes
<1>2. /\ queue' = [q EXCEPT ![home] = <<t>> \o @]
      /\ run' = t
      /\ status' = [s \in Tasks |-> IF s = t THEN "RUN"
                                    ELSE IF s = run THEN "READY" ELSE status[s]]
  BY TaskAssumption DEF WakeupTask, DispatchTask, InsertQueue
<1>3. Range(queue'[home]) = Range(q[home]) \cup {t}
  BY <1>1, <1>2, ConsRange
<1>4. \A p \in Priorities :
         Range(queue'[Ready(p)]) = Range(queue[Ready(p)])
                                     \cup (IF p = BasePriority[t] THEN {t} ELSE {})
  <2> SUFFICES ASSUME NEW p \in Priorities
               PROVE  Range(queue'[Ready(p)]) = Range(queue[Ready(p)])
                                     \cup (IF p = BasePriority[t] THEN {t} ELSE {})
    OBVIOUS
  <2>1. Range(q[Ready(p)]) = Range(queue[Ready(p)])
    BY DEF ReadyBut
  <2>2. CASE p = BasePriority[t]
    BY <1>3, <2>1, <2>2
  <2>3. CASE p # BasePriority[t]
    <3>1. Ready(p) # home /\ Ready(p) \in QueueIds
      BY <1>1, <2>3, QueueIdFacts
    <3>2. queue'[Ready(p)] = q[Ready(p)]
      BY <1>1, <1>2, <3>1
    <3> QED
      BY <2>1, <2>3, <3>2
  <2> QED
    BY <2>2, <2>3
<1>5. \A s \in Tasks \ {t} : IsReady(s)' <=> IsReady(s)
  BY <1>4 DEF IsReady
<1>6. ASSUME NEW s \in Tasks \ {t}
      PROVE  SchedulerState'[s] = IF SchedulerState[s] = "RUN" THEN "READY"
                                  ELSE SchedulerState[s]
  <2>1. CASE s = run
    BY <1>2, <1>5, <2>1, RunningIsReady DEF SchedulerState, IsReady
  <2>2. CASE s # run
    BY <1>2, <1>5, <2>2 DEF SchedulerState, IsReady
  <2> QED
    BY <2>1, <2>2
<1>7. SchedulerState'[t] = "RUN"
  BY <1>2 DEF SchedulerState
<1>8. SchedulerState[t] \in {"DORMANT", "WAITING"}
  BY NotReadyIsSeen
<1>9. SchedulerState' = [s \in Tasks |-> IF s = t THEN "RUN"
                                 ELSE IF SchedulerState[s] = "RUN" THEN "READY"
                                 ELSE SchedulerState[s]]
  <2>1. SchedulerState' = [s \in Tasks |-> SchedulerState'[s]]
    BY DEF SchedulerState
  <2> QED
    BY <1>6, <1>7, <2>1
<1> QED
  BY <1>8, <1>9 DEF Scheduling!Next, Scheduling!Preempt

\* A blocking call: the first of the tasks with the highest priority runs.
LEMMA BlockGivesWay ==
    ASSUME Core, Caller, NEW q, Queued(q), ReadyBut(q, {run}),
           NEW st \in Statuses, st # "RUN", NEW wup, Block(q, st, wup)
    PROVE  Scheduling!Next
<1> DEFINE t == SearchNextTask(q)
           to == IF st = "DORMANT" THEN "DORMANT" ELSE "WAITING"
<1>0. /\ run \in Tasks /\ Idle \in Tasks /\ run # Idle
      /\ BasePriority[Idle] \in Priorities
      /\ status \in [Tasks -> Statuses]
      /\ Priorities \subseteq Int
      /\ BasePriority \in [Tasks -> Priorities]
  BY TaskAssumption DEF Caller, Core, SchedTypes, Priorities
<1>1. q[Ready(BasePriority[Idle])] # <<>>
  <2>1. Idle \in Range(q[Ready(BasePriority[Idle])])
    BY <1>0 DEF Core, TasksKept, ReadyBut
  <2> QED
    BY <1>0, <2>1, QueueIdFacts, QueuedTasks
<1>2. PICK n \in Priorities :
          /\ q[Ready(n)] # <<>>
          /\ t = Head(q[Ready(n)])
          /\ \A l \in Priorities : l < n => q[Ready(l)] = <<>>
  BY <1>0, <1>1, SearchNextTaskFinds
<1> HIDE DEF t
<1>3. t \in Range(q[Ready(n)]) /\ t \in Tasks
  BY <1>2, QueuedTasks, QueueIdFacts
<1>4. t # run /\ t \in Range(queue[Ready(n)])
  BY <1>3 DEF ReadyBut
<1>5. IsReady(t) /\ n = BasePriority[t]
  BY <1>3, <1>4, ReadyStatus DEF IsReady
<1>6. ASSUME NEW s \in Tasks, SchedulerState[s] = "READY"
      PROVE  BasePriority[t] <= BasePriority[s]
  <2>1. s # run /\ IsReady(s)
    BY <1>6, ReadyIsSeen
  <2>2. s \in Range(queue[Ready(BasePriority[s])]) /\ BasePriority[s] \in Priorities
    BY <1>0, <2>1, ReadyStatus DEF IsReady
  <2>3. q[Ready(BasePriority[s])] # <<>>
    BY <2>1, <2>2, QueueIdFacts, QueuedTasks DEF ReadyBut
  <2>4. ~ (BasePriority[s] < n)
    BY <1>2, <2>2, <2>3
  <2>5. n \in Int /\ BasePriority[s] \in Int
    BY <1>0, <2>2
  <2> QED
    BY <1>5, <2>4, <2>5
<1>7. /\ queue' = q /\ run' = t
      /\ status' = [s \in Tasks |-> IF s = t THEN "RUN"
                                    ELSE IF s = run THEN st ELSE status[s]]
  BY <1>3, TaskAssumption DEF Block, DispatchTask, t
<1>8. \A s \in Tasks : IsReady(s)' <=> s # run /\ IsReady(s)
  BY <1>7 DEF IsReady, ReadyBut
<1>9. SchedulerState' = [SchedulerState EXCEPT ![run] = to, ![t] = "RUN"]
  <2>1. SchedulerState'[t] = "RUN"
    BY <1>3, <1>7 DEF SchedulerState
  <2>2. SchedulerState'[run] = to
    BY <1>0, <1>4, <1>7, <1>8 DEF SchedulerState, IsReady
  <2>3. \A s \in Tasks \ {t, run} : SchedulerState'[s] = SchedulerState[s]
    BY <1>7, <1>8 DEF SchedulerState, IsReady
  <2>4. /\ SchedulerState' = [s \in Tasks |-> SchedulerState'[s]]
        /\ SchedulerState = [s \in Tasks |-> SchedulerState[s]]
    BY DEF SchedulerState
  <2> QED
    BY <1>0, <1>3, <1>4, <2>1, <2>2, <2>3, <2>4
<1>10. SchedulerState[run] = "RUN" /\ SchedulerState[t] = "READY"
  BY <1>0, <1>3, <1>4, <1>5, ReadyIsSeen
<1>11. Scheduling!GiveWay(run, t, to)
  BY <1>6, <1>9, <1>10 DEF Scheduling!GiveWay
<1> QED
  BY <1>0, <1>3, <1>11 DEF Scheduling!Next

\* A step that moves nobody.
LEMMA NothingIsSeen ==
    ASSUME run' = run, status' = status, queue' = queue
    PROVE  UNCHANGED SchedulerState
BY DEF SchedulerState

-----------------------------------------------------------------------------
(* The actions.                                                            *)

\* The queues of a blocking call: the running task leaves its ready queue, and
\* may join another queue.
LEMMA OffReadyIsReadyBut ==
    ASSUME Core, Caller
    PROVE  /\ Queued(OffReady) /\ ReadyBut(OffReady, {run})
           /\ \A i \in QueueIds :
                 (\A p \in Priorities : i # Ready(p)) =>
                    /\ Queued(AddQueue(OffReady, i, run))
                    /\ ReadyBut(AddQueue(OffReady, i, run), {run})
<1>1. /\ Queued(OffReady) /\ Off(OffReady, run) /\ run \in Tasks
      /\ \A i \in QueueIds : Range(OffReady[i]) = Range(queue[i]) \ {run}
  BY OffReadyFacts DEF Caller
<1>2. ReadyBut(OffReady, {run})
  BY <1>1, QueueIdFacts DEF ReadyBut
<1>3. ASSUME NEW i \in QueueIds, \A p \in Priorities : i # Ready(p)
      PROVE  /\ Queued(AddQueue(OffReady, i, run))
             /\ ReadyBut(AddQueue(OffReady, i, run), {run})
  <2> DEFINE q == AddQueue(OffReady, i, run)
  <2>1. Queued(q) /\ SameBut(OffReady, q, i)
    BY ONLY <1>1, i \in QueueIds, AddQueueLinks
  <2>2. \A p \in Priorities : q[Ready(p)] = OffReady[Ready(p)]
    BY <1>3, <2>1, QueueIdFacts DEF SameBut
  <2> QED
    BY <1>2, <2>1, <2>2 DEF ReadyBut
<1> QED
  BY <1>1, <1>2, <1>3

\* The first waiter of an event or of a mutex is resumed.
LEMMA HeadPreempts ==
    ASSUME Core, NEW i \in QueueIds, \A p \in Priorities : i # Ready(p),
           NEW t, t = Head(queue[i]), queue[i] # <<>>,
           status[t] \in {"EVENT_WAIT", "MUTEX_WAIT"},
           WakeupTask(t, DelNextQueue(queue, i), BasePriority, wup_time)
    PROVE  Scheduling!Next
<1> DEFINE q == DelNextQueue(queue, i)
<1>1. Queued(queue) /\ t \in Range(queue[i]) /\ t \in Tasks
  BY QueuedTasks DEF Core, Placed
<1>2. ~ IsReady(t)
  BY <1>1, ReadyStatus DEF IsReady
<1>3. t # run
  BY <1>1, CoreFacts
<1>4. Queued(q) /\ SameBut(queue, q, i)
  BY ONLY <1>1, i \in QueueIds, queue[i] # <<>>, t = Head(queue[i]),
          DelNextQueueUnlinks
<1>5. ReadyBut(q, {})
  BY <1>4, QueueIdFacts DEF SameBut, ReadyBut
<1>6. WakeupTask(t, q, BasePriority, wup_time)
  OBVIOUS
<1> HIDE DEF q
<1> QED
  BY ONLY Core, <1>1, <1>2, <1>3, <1>4, <1>5, <1>6, WakeupPreempts

\* del_queue() of a task that is not ready.
LEMMA DelQueueIsReadyBut ==
    ASSUME Core, NEW t \in Tasks, ~ IsReady(t)
    PROVE  Queued(DelQueue(queue, t)) /\ ReadyBut(DelQueue(queue, t), {})
<1>1. Queued(queue)
  BY DEF Core, Placed
<1>2. /\ Queued(DelQueue(queue, t))
      /\ \A i \in QueueIds : Range(DelQueue(queue, t)[i]) = Range(queue[i]) \ {t}
  BY ONLY <1>1, DelQueueUnlinks
<1> QED
  BY <1>2, QueueIdFacts DEF ReadyBut, IsReady

LEMMA TaskCallSchedules ==
    ASSUME Core, TaskCall
    PROVE  Scheduling!Next
<1>0. /\ priority = BasePriority /\ Queued(queue) /\ ReadyBut(queue, {})
      /\ wup_time \in [Tasks -> Nat]
      /\ {"DORMANT", "TIMER_WAIT", "REQUEST_WAIT"} \subseteq Statuses
      /\ "RUN" \notin {"DORMANT", "TIMER_WAIT", "REQUEST_WAIT"}
  BY DEF Core, Placed, SchedTypes, ReadyBut, Statuses
\* A task that is started has not run before.
<1>1. ASSUME NEW t \in Tasks, TaskInit(t)
      PROVE  t # run /\ ~ IsReady(t) /\ status[t] = "DORMANT"
  <2>1. t \notin task_list /\ status[t] = "DORMANT" /\ Off(queue, t)
    BY <1>1 DEF TaskInit, Core, TasksKept
  <2> QED
    BY <2>1, CoreFacts, QueueIdFacts DEF IsReady, Off
<1>2. ASSUME NEW t \in Tasks, TaskExec(t)
      PROVE  Scheduling!Next
  <2> DEFINE wup == [wup_time EXCEPT ![t] = 0]
  <2>1. [priority EXCEPT ![t] = BasePriority[t]] = BasePriority
    BY <1>0, TaskAssumption
  <2>2. WakeupTask(t, queue, BasePriority, wup) /\ t # run /\ ~ IsReady(t)
    BY <1>1, <1>2, <2>1 DEF TaskExec
  <2> HIDE DEF wup
  <2> QED
    BY ONLY Core, t \in Tasks, <1>0, <2>2, WakeupPreempts
<1>3. ASSUME NEW t \in Tasks, TaskAdd(t)
      PROVE  Scheduling!Next
  <2> DEFINE home == Ready(BasePriority[t])
  <2>1. /\ t # run /\ ~ IsReady(t) /\ status[t] = "DORMANT"
        /\ BasePriority[t] \in Priorities /\ home \in QueueIds
        /\ queue \in [QueueIds -> Seq(Tasks)] /\ queue[home] \in Seq(Tasks)
        /\ status \in [Tasks -> Statuses]
    BY <1>0, <1>1, <1>3, HomeFacts DEF TaskAdd, Queued, Core, SchedTypes
  <2>2. /\ run' = run /\ status' = status
        /\ queue' = [queue EXCEPT ![home] = Append(@, t)]
    BY <1>3, <2>1 DEF TaskAdd, AddQueue
  <2>3. Range(queue'[home]) = Range(queue[home]) \cup {t}
    BY <2>1, <2>2, AppendRange
  <2>4. \A p \in Priorities : p # BasePriority[t] => queue'[Ready(p)] = queue[Ready(p)]
    BY <2>1, <2>2, QueueIdFacts
  <2>5. IsReady(t)' /\ \A s \in Tasks \ {t} : IsReady(s)' <=> IsReady(s)
    BY <2>1, <2>3, <2>4 DEF IsReady
  <2>6. SchedulerState[t] = "DORMANT" /\ SchedulerState'[t] = "READY"
    BY <2>1, <2>2, <2>5 DEF SchedulerState, IsReady
  <2>7. \A s \in Tasks \ {t} : SchedulerState'[s] = SchedulerState[s]
    BY <2>2, <2>5 DEF SchedulerState, IsReady
  <2>8. /\ SchedulerState' = [s \in Tasks |-> SchedulerState'[s]]
        /\ SchedulerState = [s \in Tasks |-> SchedulerState[s]]
    BY DEF SchedulerState
  <2>9. SchedulerState' = [SchedulerState EXCEPT ![t] = "READY"]
    BY <2>6, <2>7, <2>8
  <2> QED
    BY <2>6, <2>9 DEF Scheduling!Next, Scheduling!Add
<1>4. ASSUME NEW t \in Tasks, TaskWakeup(t)
      PROVE  Scheduling!Next
  <2>1. status[t] = "REQUEST_WAIT"
    BY <1>4, CoreFacts DEF TaskWakeup
  <2>2. t # run /\ ~ IsReady(t)
    BY <2>1, CoreFacts, ReadyStatus DEF IsReady
  <2>3. WakeupTask(t, DelQueue(queue, t), BasePriority, wup_time)
    BY <1>0, <1>4 DEF TaskWakeup
  <2> QED
    BY ONLY Core, t \in Tasks, <2>2, <2>3, DelQueueIsReadyBut, WakeupPreempts
<1>5. CASE TaskExit
  <2>1. Caller /\ Block(OffReady, "DORMANT", wup_time)
    BY <1>5 DEF TaskExit
  <2> QED
    BY ONLY Core, <1>0, <2>1, OffReadyIsReadyBut, BlockGivesWay
<1>6. CASE TaskPause
  <2>1. Caller /\ Block(AddQueue(OffReady, WaitQ, run), "REQUEST_WAIT", wup_time)
    BY <1>6 DEF TaskPause
  <2>2. WaitQ \in QueueIds /\ \A p \in Priorities : WaitQ # Ready(p)
    BY QueueIdFacts
  <2> QED
    BY ONLY Core, <1>0, <2>1, <2>2, OffReadyIsReadyBut, BlockGivesWay
<1>7. ASSUME NEW d \in Timeouts, TaskSleep(d)
      PROVE  Scheduling!Next
  <2>1. Caller /\ Block(OffReady, "TIMER_WAIT", DeadlineAfter(d))
    BY <1>7 DEF TaskSleep
  <2> QED
    BY ONLY Core, <1>0, <2>1, OffReadyIsReadyBut, BlockGivesWay
<1> QED
  BY <1>2, <1>3, <1>4, <1>5, <1>6, <1>7 DEF TaskCall

LEMMA EventCallSchedules ==
    ASSUME Core, EventCall
    PROVE  Scheduling!Next \/ UNCHANGED SchedulerState
<1>0. PICK e \in Events :
        \/ \E d \in Timeouts \cup {0} : EventWaitStored(e, d)
        \/ \E d \in Timeouts \cup {0} : EventWaitBlock(e, d)
        \/ EventClear(e)
        \/ \E a \in Args : EventWakeup(e, a)
  BY DEF EventCall
<1>1. /\ EventQ(e) \in QueueIds /\ \A p \in Priorities : EventQ(e) # Ready(p)
      /\ "EVENT_WAIT" \in Statuses /\ "EVENT_WAIT" # "RUN"
  BY QueueIdFacts DEF Statuses
<1>2. ASSUME NEW d \in Timeouts \cup {0}, EventWaitStored(e, d)
      PROVE  UNCHANGED SchedulerState
  BY <1>2, NothingIsSeen DEF EventWaitStored
<1>3. ASSUME NEW d \in Timeouts \cup {0}, EventWaitBlock(e, d)
      PROVE  Scheduling!Next
  <2>1. /\ Caller
        /\ Block(AddQueue(OffReady, EventQ(e), run), "EVENT_WAIT", DeadlineAfter(d))
    BY <1>3 DEF EventWaitBlock
  <2> QED
    BY ONLY Core, <1>1, <2>1, OffReadyIsReadyBut, BlockGivesWay
<1>4. CASE EventClear(e)
  BY <1>4, NothingIsSeen DEF EventClear
<1>5. ASSUME NEW a \in Args, EventWakeup(e, a)
      PROVE  Scheduling!Next \/ UNCHANGED SchedulerState
  <2>1. CASE ResumeWaiter(e)
    <3> DEFINE t == Head(queue[EventQ(e)])
    <3>1. /\ queue[EventQ(e)] # <<>>
          /\ WakeupTask(t, DelNextQueue(queue, EventQ(e)), BasePriority, wup_time)
      BY <2>1 DEF ResumeWaiter, Core
    <3>2. status[t] \in {"EVENT_WAIT", "MUTEX_WAIT"}
      BY <1>1, <3>1, QueuedTasks, CoreFacts DEF Core, Placed
    <3> QED
      BY ONLY Core, <1>1, <3>1, <3>2, HeadPreempts
  <2>2. CASE ~ ResumeWaiter(e)
    BY <1>5, <2>2, NothingIsSeen DEF EventWakeup
  <2> QED
    BY <2>1, <2>2
<1> QED
  BY <1>0, <1>2, <1>3, <1>4, <1>5

LEMMA MutexCallSchedules ==
    ASSUME Core, MutexCall
    PROVE  Scheduling!Next \/ UNCHANGED SchedulerState
<1>0. PICK m \in Mutexes :
        \/ \E d \in Timeouts \cup {0} : MutexLockFree(m, d)
        \/ MutexLockOwn(m)
        \/ \E d \in Timeouts \cup {0} : MutexLockBlock(m, d)
        \/ \E g \in Garbage : \/ MutexUnlockFree(m, g)
                             \/ MutexUnlockHandOver(m, g)
                             \/ MutexUnlockRefused(m, g)
  BY DEF MutexCall
<1>1. /\ MutexQ(m) \in QueueIds /\ \A p \in Priorities : MutexQ(m) # Ready(p)
      /\ "MUTEX_WAIT" \in Statuses /\ "MUTEX_WAIT" # "RUN"
  BY QueueIdFacts DEF Statuses
<1>2. ASSUME NEW d \in Timeouts \cup {0}, MutexLockFree(m, d)
      PROVE  UNCHANGED SchedulerState
  BY <1>2, NothingIsSeen DEF MutexLockFree
<1>3. ASSUME MutexLockOwn(m)
      PROVE  UNCHANGED SchedulerState
  BY <1>3, NothingIsSeen DEF MutexLockOwn
<1>4. ASSUME NEW d \in Timeouts \cup {0}, MutexLockBlock(m, d)
      PROVE  Scheduling!Next
  <2>1. /\ Caller
        /\ Block(AddQueue(OffReady, MutexQ(m), run), "MUTEX_WAIT", DeadlineAfter(d))
    BY <1>4 DEF MutexLockBlock
  <2> QED
    BY ONLY Core, <1>1, <2>1, OffReadyIsReadyBut, BlockGivesWay
<1>5. ASSUME NEW g \in Garbage, MutexUnlockFree(m, g) \/ MutexUnlockRefused(m, g)
      PROVE  UNCHANGED SchedulerState
  BY <1>5, NothingIsSeen DEF MutexUnlockFree, MutexUnlockRefused
<1>6. ASSUME NEW g \in Garbage, MutexUnlockHandOver(m, g)
      PROVE  Scheduling!Next
  <2> DEFINE t == Head(queue[MutexQ(m)])
  <2>1. /\ queue[MutexQ(m)] # <<>>
        /\ WakeupTask(t, DelNextQueue(queue, MutexQ(m)), BasePriority, wup_time)
    BY <1>6 DEF MutexUnlockHandOver, Core
  <2>2. status[t] \in {"EVENT_WAIT", "MUTEX_WAIT"}
    BY <1>1, <2>1, QueuedTasks, CoreFacts DEF Core, Placed
  <2> QED
    BY ONLY Core, <1>1, <2>1, <2>2, HeadPreempts
<1> QED
  BY <1>0, <1>2, <1>3, <1>4, <1>5, <1>6

LEMMA ClockSchedules ==
    ASSUME Core, Clock
    PROVE  Scheduling!Next \/ UNCHANGED SchedulerState
<1>1. CASE Elapse
  BY <1>1, NothingIsSeen DEF Elapse
<1>2. CASE Tick /\ TimeoutDue(now')
  <2> DEFINE t == Head(timeq)
             q == IF status[t] \in {"EVENT_WAIT", "MUTEX_WAIT"}
                  THEN DelQueue(queue, t) ELSE queue
  <2>1. timeq # <<>> /\ WakeupTask(t, q, BasePriority, wup_time)
    BY <1>2 DEF Tick, TaskSchedule, TimeoutDue, Core
  <2>2. t \in Tasks /\ t \in Range(timeq)
    BY <2>1, TailRange DEF Core, SchedTypes, TimeoutsKept
  <2>3. status[t] \in Waiting
    BY <2>2 DEF Core, TimeoutsKept
  <2>4. t # run /\ ~ IsReady(t)
    BY <2>2, <2>3, CoreFacts, ReadyStatus DEF IsReady, Waiting
  <2>5. Queued(q) /\ ReadyBut(q, {})
    <3>1. Queued(queue) /\ ReadyBut(queue, {})
      BY DEF Core, Placed, ReadyBut
    <3> QED
      BY <2>2, <2>4, <3>1, DelQueueIsReadyBut
  <2> HIDE DEF t, q
  <2> QED
    BY ONLY Core, <2>1, <2>2, <2>4, <2>5, WakeupPreempts
<1>3. CASE Tick /\ ~ TimeoutDue(now')
  BY <1>3, NothingIsSeen DEF Tick, TaskSchedule
<1> QED
  BY <1>1, <1>2, <1>3 DEF Clock

\* The kernel schedules as Scheduler.tla says: whoever gives the processor up
\* passes it to a ready task of the highest priority, and whoever is started or
\* resumed by somebody else takes it at once.
THEOREM KernelSchedules ==
    ASSUME NoWrap
    PROVE  Spec => SchedulesByPriority
<1>1. Init => Scheduling!Init
  <2> SUFFICES ASSUME Init
               PROVE  SchedulerState \in [Tasks -> {"DORMANT", "READY"}]
    BY DEF Scheduling!Init
  <2>1. run \notin Tasks /\ \A t \in Tasks : status[t] = "DORMANT"
    BY TaskAssumption DEF Init
  <2> QED
    BY <2>1 DEF SchedulerState
<1>2. ASSUME Core, [Next]_vars
      PROVE  [Scheduling!Next]_SchedulerState
  <2>1. CASE UNCHANGED vars
    BY <2>1, NothingIsSeen DEF vars
  <2>2. CASE TaskCall
    BY <1>2, <2>2, TaskCallSchedules
  <2>3. CASE EventCall
    BY <1>2, <2>3, EventCallSchedules
  <2>4. CASE MutexCall
    BY <1>2, <2>4, MutexCallSchedules
  <2>5. CASE Clock
    BY <1>2, <2>5, ClockSchedules
  <2> QED
    BY <1>2, <2>1, <2>2, <2>3, <2>4, <2>5 DEF Next
<1>3. Core /\ [Next]_vars => [Scheduling!Next]_SchedulerState
  BY <1>2
<1> QED
  BY <1>1, <1>3, CoreInvariance, PTL DEF Spec, SchedulesByPriority, Scheduling!Spec

=============================================================================
