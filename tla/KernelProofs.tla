---------------------------- MODULE KernelProofs ----------------------------
(***************************************************************************)
(* The scheduler's invariant, proved for any number of tasks, priorities,  *)
(* events and mutexes, as long as the clock stays below TimeModulus.       *)
(*                                                                         *)
(* The scheduler lemmas say that the three ways in which the kernel moves  *)
(* tasks (resume one, block the running one, leave all in place) preserve  *)
(* Core; each action is then one of the three.                             *)
(*                                                                         *)
(* The first part is what the list operations of queue.c do to the set of  *)
(* lists as a whole, and what the scheduler finds there.                   *)
(***************************************************************************)
EXTENDS KernelProps, SeqLemmas

\* The lists are well formed: nothing is linked twice.
Queued(q) ==
    /\ q \in [QueueIds -> Seq(Tasks)]
    /\ \A i \in QueueIds : Distinct(q[i])
    /\ \A i, j \in QueueIds : \A t \in Range(q[i]) : t \in Range(q[j]) => i = j

\* The task t is on none of the lists.
Off(q, t) == \A i \in QueueIds : t \notin Range(q[i])

\* The lists r are the lists q, but for the i-th.
SameBut(q, r, i) == \A j \in QueueIds \ {i} : r[j] = q[j]

\* The queues are all different.
LEMMA QueueIdFacts ==
    /\ \A p \in Priorities : Ready(p) \in QueueIds
    /\ \A e \in Events : EventQ(e) \in QueueIds
    /\ \A m \in Mutexes : MutexQ(m) \in QueueIds
    /\ WaitQ \in QueueIds
    /\ \A p, r \in Priorities : Ready(p) = Ready(r) => p = r
    /\ \A e, f \in Events : EventQ(e) = EventQ(f) => e = f
    /\ \A m, n \in Mutexes : MutexQ(m) = MutexQ(n) => m = n
    /\ \A p \in Priorities, e \in Events : Ready(p) # EventQ(e)
    /\ \A p \in Priorities, m \in Mutexes : Ready(p) # MutexQ(m)
    /\ \A p \in Priorities : Ready(p) # WaitQ
    /\ \A e \in Events, m \in Mutexes : EventQ(e) # MutexQ(m)
    /\ \A e \in Events : EventQ(e) # WaitQ
    /\ \A m \in Mutexes : MutexQ(m) # WaitQ
BY DEF Ready, EventQ, MutexQ, WaitQ, QueueIds

\* The entries of the lists are tasks.
LEMMA QueuedTasks ==
    ASSUME NEW q, Queued(q), NEW i \in QueueIds
    PROVE  /\ q[i] \in Seq(Tasks)
           /\ Range(q[i]) \subseteq Tasks
           /\ q[i] # <<>> => Head(q[i]) \in Range(q[i])
           /\ q[i] = <<>> <=> Range(q[i]) = {}
<1>1. q[i] \in Seq(Tasks) /\ Distinct(q[i])
  BY DEF Queued
<1>2. Len(q[i]) \in Nat /\ DOMAIN q[i] = 1 .. Len(q[i])
  BY <1>1, LenProperties
<1>3. \A k \in 1 .. Len(q[i]) : q[i][k] \in Tasks
  BY <1>1, ElementOfSeq
<1>4. q[i] # <<>> => Head(q[i]) \in Range(q[i])
  BY <1>1, TailRange
<1>5. Range(q[i]) = {} => q[i] = <<>>
  BY <1>4
<1>6. q[i] = <<>> => Range(q[i]) = {}
  BY DEF Range
<1> QED
  BY <1>1, <1>2, <1>3, <1>4, <1>5, <1>6 DEF Range

\* add_queue() of a task that is not linked.
LEMMA AddQueueLinks ==
    ASSUME NEW q, Queued(q), NEW i \in QueueIds, NEW t \in Tasks, Off(q, t)
    PROVE  LET r == AddQueue(q, i, t)
           IN  /\ Queued(r)
               /\ SameBut(q, r, i)
               /\ Range(r[i]) = Range(q[i]) \cup {t}
               /\ q[i] # <<>> => Head(r[i]) = Head(q[i])
               /\ r[i] # <<>>
<1> DEFINE r == AddQueue(q, i, t)
<1>1. q \in [QueueIds -> Seq(Tasks)] /\ q[i] \in Seq(Tasks) /\ Distinct(q[i])
  BY DEF Queued
<1>2. t \notin Range(q[i])
  BY DEF Off
<1>3. /\ Range(Append(q[i], t)) = Range(q[i]) \cup {t}
      /\ Distinct(Append(q[i], t))
      /\ q[i] # <<>> => Head(Append(q[i], t)) = Head(q[i])
  BY <1>1, <1>2, AppendRange
<1>4. Append(q[i], t) \in Seq(Tasks) /\ Append(q[i], t) # <<>>
  BY <1>1, AppendProperties
<1>5. r = [q EXCEPT ![i] = Append(q[i], t)]
  BY DEF AddQueue
<1>6. /\ r \in [QueueIds -> Seq(Tasks)]
      /\ r[i] = Append(q[i], t)
      /\ SameBut(q, r, i)
  BY <1>1, <1>4, <1>5 DEF SameBut
<1> HIDE DEF r
<1>7. Queued(r)
  BY <1>2, <1>3, <1>6 DEF Queued, Off, SameBut
<1> QED
  BY <1>3, <1>4, <1>6, <1>7 DEF r

\* insert_queue() of a task that is not linked.
LEMMA InsertQueueLinks ==
    ASSUME NEW q, Queued(q), NEW i \in QueueIds, NEW t \in Tasks, Off(q, t)
    PROVE  LET r == InsertQueue(q, i, t)
           IN  /\ Queued(r)
               /\ SameBut(q, r, i)
               /\ Range(r[i]) = Range(q[i]) \cup {t}
               /\ r[i] # <<>>
               /\ Head(r[i]) = t
<1> DEFINE r == InsertQueue(q, i, t)
           c == <<t>> \o q[i]
<1>1. q \in [QueueIds -> Seq(Tasks)] /\ q[i] \in Seq(Tasks) /\ Distinct(q[i])
  BY DEF Queued
<1>2. t \notin Range(q[i])
  BY DEF Off
<1>3. /\ c \in Seq(Tasks)
      /\ c # <<>>
      /\ Range(c) = Range(q[i]) \cup {t}
      /\ Distinct(c)
      /\ Head(c) = t
  BY <1>1, <1>2, ConsRange
<1>4. r = [q EXCEPT ![i] = c]
  BY DEF InsertQueue
<1> HIDE DEF r, c
<1>5. r \in [QueueIds -> Seq(Tasks)] /\ r[i] = c /\ SameBut(q, r, i)
  BY <1>1, <1>3, <1>4 DEF SameBut
<1>6. Queued(r)
  BY <1>2, <1>3, <1>5 DEF Queued, Off, SameBut
<1> QED
  BY <1>3, <1>5, <1>6 DEF r

\* del_next_queue() of a list that is not empty.
LEMMA DelNextQueueUnlinks ==
    ASSUME NEW q, Queued(q), NEW i \in QueueIds, q[i] # <<>>
    PROVE  LET r == DelNextQueue(q, i)
           IN  /\ Queued(r)
               /\ SameBut(q, r, i)
               /\ r[i] = Tail(q[i])
               /\ Range(r[i]) = Range(q[i]) \ {Head(q[i])}
               /\ Off(r, Head(q[i]))
<1> DEFINE r == DelNextQueue(q, i)
<1>1. q \in [QueueIds -> Seq(Tasks)] /\ q[i] \in Seq(Tasks) /\ Distinct(q[i])
  BY DEF Queued
<1>2. /\ Tail(q[i]) \in Seq(Tasks)
      /\ Head(q[i]) \in Range(q[i])
      /\ Range(Tail(q[i])) = Range(q[i]) \ {Head(q[i])}
      /\ Distinct(Tail(q[i]))
  BY <1>1, TailRange
<1>3. r = [q EXCEPT ![i] = Tail(q[i])]
  BY DEF DelNextQueue
<1>4. r \in [QueueIds -> Seq(Tasks)] /\ r[i] = Tail(q[i]) /\ SameBut(q, r, i)
  BY <1>1, <1>2, <1>3 DEF SameBut
<1> HIDE DEF r
<1>5. Queued(r)
  BY <1>2, <1>4 DEF Queued, SameBut
<1>6. Off(r, Head(q[i]))
  BY <1>2, <1>4 DEF Queued, Off, SameBut
<1> QED
  BY <1>2, <1>4, <1>5, <1>6 DEF r

\* Unlinking one task from a list.
LEMMA UnlinkedRange ==
    ASSUME NEW s \in Seq(Tasks), Distinct(s), NEW t
    PROVE  /\ Unlinked(s, t) \in Seq(Tasks)
           /\ Distinct(Unlinked(s, t))
           /\ Range(Unlinked(s, t)) = Range(s) \ {t}
           /\ s # <<>> /\ Head(s) # t => /\ Unlinked(s, t) # <<>>
                                         /\ Head(Unlinked(s, t)) = Head(s)
<1>1. CASE t \notin Range(s)
  BY <1>1 DEF Unlinked
<1>2. CASE t \in Range(s)
  <2> DEFINE k == CHOOSE i \in DOMAIN s : s[i] = t
  <2>1. DOMAIN s = 1 .. Len(s)
    BY LenProperties
  <2>2. k \in 1 .. Len(s) /\ s[k] = t
    BY <1>2, <2>1 DEF Range
  <2>3. Unlinked(s, t) = RemoveAt(s, k)
    BY <1>2 DEF Unlinked
  <2> HIDE DEF k
  <2>4. /\ RemoveAt(s, k) \in Seq(Tasks)
        /\ Range(RemoveAt(s, k)) = Range(s) \ {s[k]}
        /\ Distinct(RemoveAt(s, k))
        /\ k # 1 => /\ RemoveAt(s, k) # <<>>
                    /\ Head(RemoveAt(s, k)) = Head(s)
    BY <2>2, RemoveAtRange
  <2>5. s # <<>> => Head(s) = s[1]
    BY HeadTailProperties
  <2> QED
    BY <2>2, <2>3, <2>4, <2>5
<1> QED
  BY <1>1, <1>2

\* del_queue() of a task, linked or not.
LEMMA DelQueueUnlinks ==
    ASSUME NEW q, Queued(q), NEW t
    PROVE  LET r == DelQueue(q, t)
           IN  /\ Queued(r)
               /\ \A i \in QueueIds : Range(r[i]) = Range(q[i]) \ {t}
               /\ \A i \in QueueIds : t \notin Range(q[i]) => r[i] = q[i]
               /\ Off(r, t)
<1> DEFINE r == DelQueue(q, t)
<1>1. ASSUME NEW i \in QueueIds
      PROVE  /\ Unlinked(q[i], t) \in Seq(Tasks)
             /\ Distinct(Unlinked(q[i], t))
             /\ Range(Unlinked(q[i], t)) = Range(q[i]) \ {t}
  <2>1. q[i] \in Seq(Tasks) /\ Distinct(q[i])
    BY DEF Queued
  <2> QED
    BY <2>1, UnlinkedRange
<1>2. r = [i \in QueueIds |-> Unlinked(q[i], t)]
  BY DEF DelQueue
<1>3. r \in [QueueIds -> Seq(Tasks)]
  BY <1>1, <1>2
<1>4. \A i \in QueueIds : Distinct(r[i]) /\ Range(r[i]) = Range(q[i]) \ {t}
  BY <1>1, <1>2
<1>5. \A i \in QueueIds : t \notin Range(q[i]) => r[i] = q[i]
  BY <1>2 DEF Unlinked
<1> HIDE DEF r
<1>6. Queued(r) /\ Off(r, t)
  BY <1>3, <1>4 DEF Queued, Off
<1> QED
  BY <1>4, <1>5, <1>6 DEF r

\* search_next_task() finds the head of the first ready queue that has one.
LEMMA SearchNextTaskFinds ==
    ASSUME NEW q, Queued(q), NEW p \in Priorities, q[Ready(p)] # <<>>
    PROVE  \E n \in Priorities :
               /\ n <= p
               /\ q[Ready(n)] # <<>>
               /\ SearchNextTask(q) = Head(q[Ready(n)])
               /\ \A l \in Priorities : l < n => q[Ready(l)] = <<>>
<1> DEFINE levels == {n \in Priorities : q[Ready(n)] # <<>>}
<1>1. levels # {} /\ p \in levels
  OBVIOUS
<1>2. levels \subseteq Nat /\ Priorities \subseteq Nat
  BY TaskAssumption DEF Priorities
<1>3. Min(levels) \in levels /\ \A n \in levels : Min(levels) <= n
  BY <1>1, <1>2, MinOfNaturals
<1>4. SearchNextTask(q) = Head(q[Ready(Min(levels))])
  BY <1>1 DEF SearchNextTask
<1>5. ASSUME NEW l \in Priorities, l < Min(levels)
      PROVE  q[Ready(l)] = <<>>
  BY <1>2, <1>3, <1>5
<1> QED
  BY <1>1, <1>3, <1>4, <1>5

-----------------------------------------------------------------------------
(* The scheduler. *)

\* st_tcb.wup_time does not wrap: 0 still means that no timeout is pending.
NoWrap == MaxTime < TimeModulus

Waiting == {"TIMER_WAIT", "EVENT_WAIT", "MUTEX_WAIT"}

\* The lists a task with status st may be linked on.
Home(t, st) ==
    CASE st = "EVENT_WAIT"   -> {EventQ(e) : e \in Events}
      [] st = "MUTEX_WAIT"   -> {MutexQ(m) : m \in Mutexes}
      [] st = "REQUEST_WAIT" -> {WaitQ}
      [] st = "TIMER_WAIT"   -> {}
      [] OTHER               -> {Ready(BasePriority[t])}

SchedTypes ==
    /\ now \in Nat
    /\ run \in Tasks \cup {Dummy}
    /\ task_list \in SUBSET Tasks
    /\ status \in [Tasks -> Statuses]
    /\ wup_time \in [Tasks -> Nat]
    /\ timeq \in Seq(Tasks)

\* The queues and the statuses agree.
Placed ==
    /\ Queued(queue)
    /\ \A i \in QueueIds : \A t \in Range(queue[i]) : i \in Home(t, status[t])

TimeoutsKept ==
    /\ Distinct(timeq)
    /\ \A t \in Tasks : wup_time[t] # 0 <=> t \in Range(timeq)
    /\ \A t \in Range(timeq) : status[t] \in Waiting
    /\ \A t \in Tasks : status[t] = "TIMER_WAIT" => t \in Range(timeq)

TasksKept ==
    /\ Idle \in task_list
    /\ Idle \in Range(queue[Ready(BasePriority[Idle])])
    /\ \A t \in Tasks \ task_list : status[t] = "DORMANT" /\ Off(queue, t)

\* The scheduler's part of KernelInv, in the terms of the lemmas.
Core ==
    /\ SchedTypes
    /\ priority = BasePriority /\ next_priority = BasePriority
    /\ Placed
    /\ RunningTaskHeadsItsQueue
    /\ IdlesOnlyWithoutWork
    /\ TimeoutsKept
    /\ TasksKept

\* A task that sleeps is on the timeout queue; all others must be linked.
Findable(t) == status[t] = "TIMER_WAIT" \/ ~ Off(queue, t)

NobodyIsLost == \A t \in task_list : Findable(t)

\* A step after which no task is lost that was not lost before.
LosesNobody ==
    \A s \in task_list' : (s \in task_list => Findable(s)) => Findable(s)'

-----------------------------------------------------------------------------
(* Consequences of Core.                                                   *)

\* Which status goes with which list.
LEMMA HomeFacts ==
    ASSUME NEW t \in Tasks
    PROVE  /\ BasePriority[t] \in Priorities
           /\ Ready(BasePriority[t]) \in QueueIds
           /\ Home(t, "DORMANT") = {Ready(BasePriority[t])}
           /\ Home(t, "READY") = {Ready(BasePriority[t])}
           /\ Home(t, "RUN") = {Ready(BasePriority[t])}
           /\ Home(t, "TIMER_WAIT") = {}
           /\ Home(t, "EVENT_WAIT") = {EventQ(e) : e \in Events}
           /\ Home(t, "MUTEX_WAIT") = {MutexQ(m) : m \in Mutexes}
           /\ Home(t, "REQUEST_WAIT") = {WaitQ}
<1>1. BasePriority[t] \in Priorities
  BY TaskAssumption
<1>2. Ready(BasePriority[t]) \in QueueIds
  BY <1>1, QueueIdFacts
<1> QED
  BY <1>1, <1>2 DEF Home

LEMMA HomeOfReady ==
    ASSUME NEW t \in Tasks, NEW st \in Statuses, NEW p \in Priorities,
           Ready(p) \in Home(t, st)
    PROVE  p = BasePriority[t] /\ st \in {"DORMANT", "READY", "RUN"}
<1>1. CASE st \in {"DORMANT", "READY", "RUN"}
  BY <1>1, HomeFacts, QueueIdFacts
<1>2. CASE st = "TIMER_WAIT"
  BY <1>2, HomeFacts
<1>3. CASE st = "EVENT_WAIT"
  BY <1>3, HomeFacts, QueueIdFacts
<1>4. CASE st = "MUTEX_WAIT"
  BY <1>4, HomeFacts, QueueIdFacts
<1>5. CASE st = "REQUEST_WAIT"
  BY <1>5, HomeFacts, QueueIdFacts
<1> QED
  BY <1>1, <1>2, <1>3, <1>4, <1>5 DEF Statuses

LEMMA HomeOfEvent ==
    ASSUME NEW t \in Tasks, NEW st \in Statuses, NEW e \in Events,
           EventQ(e) \in Home(t, st)
    PROVE  st = "EVENT_WAIT"
<1>0. BasePriority[t] \in Priorities
  BY TaskAssumption
<1>1. CASE st \in {"DORMANT", "READY", "RUN"}
  BY <1>0, <1>1, HomeFacts, QueueIdFacts
<1>2. CASE st = "TIMER_WAIT"
  BY <1>2, HomeFacts
<1>3. CASE st = "MUTEX_WAIT"
  BY <1>3, HomeFacts, QueueIdFacts
<1>4. CASE st = "REQUEST_WAIT"
  BY <1>4, HomeFacts, QueueIdFacts
<1> QED
  BY <1>1, <1>2, <1>3, <1>4 DEF Statuses

LEMMA HomeOfMutex ==
    ASSUME NEW t \in Tasks, NEW st \in Statuses, NEW m \in Mutexes,
           MutexQ(m) \in Home(t, st)
    PROVE  st = "MUTEX_WAIT"
<1>0. BasePriority[t] \in Priorities
  BY TaskAssumption
<1>1. CASE st \in {"DORMANT", "READY", "RUN"}
  BY <1>0, <1>1, HomeFacts, QueueIdFacts
<1>2. CASE st = "TIMER_WAIT"
  BY <1>2, HomeFacts
<1>3. CASE st = "EVENT_WAIT"
  BY <1>3, HomeFacts, QueueIdFacts
<1>4. CASE st = "REQUEST_WAIT"
  BY <1>4, HomeFacts, QueueIdFacts
<1> QED
  BY <1>1, <1>2, <1>3, <1>4 DEF Statuses

LEMMA HomeOfWait ==
    ASSUME NEW t \in Tasks, NEW st \in Statuses, WaitQ \in Home(t, st)
    PROVE  st = "REQUEST_WAIT"
<1>0. BasePriority[t] \in Priorities
  BY TaskAssumption
<1>1. CASE st \in {"DORMANT", "READY", "RUN"}
  BY <1>0, <1>1, HomeFacts, QueueIdFacts
<1>2. CASE st = "TIMER_WAIT"
  BY <1>2, HomeFacts
<1>3. CASE st = "EVENT_WAIT"
  BY <1>3, HomeFacts, QueueIdFacts
<1>4. CASE st = "MUTEX_WAIT"
  BY <1>4, HomeFacts, QueueIdFacts
<1> QED
  BY <1>1, <1>2, <1>3, <1>4 DEF Statuses

\* What Core says of the tasks that are linked, of the idle task and of the
\* running one.
LEMMA CoreFacts ==
    ASSUME Core
    PROVE  /\ \A i \in QueueIds : Range(queue[i]) \subseteq Tasks
           /\ \A i \in QueueIds : \A t \in Range(queue[i]) : t \in task_list
           /\ status[Idle] \in {"DORMANT", "READY", "RUN"}
           /\ ~ Off(queue, Idle)
           /\ run \in Tasks => /\ status[run] = "RUN"
                               /\ run \in task_list
                               /\ run \notin Range(timeq)
           /\ \A e \in Events : \A t \in Range(queue[EventQ(e)]) :
                 status[t] = "EVENT_WAIT"
           /\ \A m \in Mutexes : \A t \in Range(queue[MutexQ(m)]) :
                 status[t] = "MUTEX_WAIT"
           /\ \A t \in Range(queue[WaitQ]) : status[t] = "REQUEST_WAIT"
<1>1. \A i \in QueueIds : Range(queue[i]) \subseteq Tasks
  BY QueuedTasks DEF Core, Placed
<1>2. \A i \in QueueIds : \A t \in Range(queue[i]) : t \in task_list
  BY <1>1 DEF Core, TasksKept, Off
<1>3. \A t \in Tasks : status[t] \in Statuses
  BY DEF Core, SchedTypes
<1>4. \A i \in QueueIds : \A t \in Range(queue[i]) : i \in Home(t, status[t])
  BY DEF Core, Placed
<1>5. status[Idle] \in {"DORMANT", "READY", "RUN"} /\ ~ Off(queue, Idle)
  <2>1. /\ Idle \in Tasks
        /\ BasePriority[Idle] \in Priorities
        /\ Ready(BasePriority[Idle]) \in QueueIds
        /\ Idle \in Range(queue[Ready(BasePriority[Idle])])
    BY TaskAssumption, HomeFacts DEF Core, TasksKept
  <2> QED
    BY <2>1, <1>3, <1>4, HomeOfReady DEF Off
<1>6. run \in Tasks => /\ status[run] = "RUN"
                       /\ run \in task_list
                       /\ run \notin Range(timeq)
  BY DEF Core, RunningTaskHeadsItsQueue, TasksKept, TimeoutsKept, Waiting
<1>7. \A e \in Events : \A t \in Range(queue[EventQ(e)]) :
         status[t] = "EVENT_WAIT"
  BY <1>1, <1>3, <1>4, HomeOfEvent, QueueIdFacts
<1>8. \A m \in Mutexes : \A t \in Range(queue[MutexQ(m)]) :
         status[t] = "MUTEX_WAIT"
  BY <1>1, <1>3, <1>4, HomeOfMutex, QueueIdFacts
<1>9. \A t \in Range(queue[WaitQ]) : status[t] = "REQUEST_WAIT"
  BY <1>1, <1>3, <1>4, HomeOfWait, QueueIdFacts
<1> QED
  BY <1>1, <1>2, <1>5, <1>6, <1>7, <1>8, <1>9
-----------------------------------------------------------------------------
(* The three ways in which a call leaves the tasks.                        *)

\* wakeup_task(): the task t, which the caller has taken off whatever queue it
\* was on and off the timeout queue, runs in the place of the running one.
LEMMA WakeupKeepsCore ==
    ASSUME Core,
           NEW t \in Tasks, t # run, t # Idle,
           NEW q, Queued(q), Off(q, t),
           \A i \in QueueIds : Range(q[i]) = Range(queue[i]) \ {t},
           NEW wup \in [Tasks -> Nat],
           \A s \in Tasks \ {t} : wup[s] = wup_time[s],
           timeq' \in Seq(Tasks), Distinct(timeq'),
           Range(timeq') = Range(timeq) \ {t},
           now' \in Nat,
           task_list' = task_list \cup {t},
           next_priority' = next_priority,
           WakeupTask(t, q, BasePriority, wup)
    PROVE  Core' /\ LosesNobody
<1> DEFINE home == Ready(BasePriority[t])
<1>1. /\ queue' = InsertQueue(q, home, t)
      /\ status' = [s \in Tasks |-> IF s = t THEN "RUN"
                                    ELSE IF s = run THEN "READY"
                                    ELSE status[s]]
      /\ priority' = [s \in Tasks |-> IF s = run THEN next_priority[s]
                                      ELSE BasePriority[s]]
      /\ wup_time' = [wup EXCEPT ![t] = 0]
      /\ run' = t
  <2>1. t # NoTask
    BY TaskAssumption
  <2> QED
    BY <2>1 DEF WakeupTask, DispatchTask
<1>2. /\ home \in QueueIds
      /\ BasePriority[t] \in Priorities
      /\ Home(t, "RUN") = {home}
  BY HomeFacts
<1> HIDE DEF home
<1>3. /\ Queued(queue')
      /\ queue'[home] # <<>>
      /\ Head(queue'[home]) = t
      /\ Range(queue'[home]) = (Range(queue[home]) \ {t}) \cup {t}
      /\ \A i \in QueueIds \ {home} :
            Range(queue'[i]) = Range(queue[i]) \ {t}
  <2>1. /\ Queued(queue')
        /\ SameBut(q, queue', home)
        /\ Range(queue'[home]) = Range(q[home]) \cup {t}
        /\ queue'[home] # <<>>
        /\ Head(queue'[home]) = t
    <3> DEFINE r == InsertQueue(q, home, t)
    <3>1. /\ Queued(r)
          /\ SameBut(q, r, home)
          /\ Range(r[home]) = Range(q[home]) \cup {t}
          /\ r[home] # <<>>
          /\ Head(r[home]) = t
      BY ONLY <1>2, Queued(q), Off(q, t), t \in Tasks, InsertQueueLinks
    <3> QED
      BY <3>1, <1>1
  <2> QED
    BY <2>1, <1>2 DEF SameBut
<1>4. /\ \A s \in Tasks : status[s] = "RUN" <=> s = run
      /\ status \in [Tasks -> Statuses]
      /\ wup_time \in [Tasks -> Nat]
  BY DEF Core, SchedTypes, RunningTaskHeadsItsQueue
<1>5. SchedTypes'
  <2>1. status' \in [Tasks -> Statuses]
    BY <1>1, <1>4 DEF Statuses
  <2>2. wup_time' \in [Tasks -> Nat]
    BY <1>1
  <2>3. task_list' \in SUBSET Tasks
    BY DEF Core, SchedTypes
  <2> QED
    BY <1>1, <2>1, <2>2, <2>3 DEF SchedTypes
<1>6. (priority = BasePriority /\ next_priority = BasePriority)'
  <2>1. BasePriority \in [Tasks -> Priorities] /\ next_priority = BasePriority
    BY TaskAssumption DEF Core
  <2> QED
    BY <2>1, <1>1
<1>7. Placed'
  <2>1. ASSUME NEW i \in QueueIds, NEW s \in Range(queue'[i])
        PROVE  i \in Home(s, status'[s])
    <3>1. CASE s = t
      <4>1. i = home
        BY <1>3, <2>1, <3>1
      <4> QED
        BY <4>1, <3>1, <1>1, <1>2
    <3>2. CASE s # t
      <4>1. s \in Range(queue[i]) /\ s \in Tasks
        BY <1>3, <2>1, <3>2, CoreFacts
      <4>2. i \in Home(s, status[s])
        BY <4>1 DEF Core, Placed
      <4>3. Home(s, "RUN") = Home(s, "READY")
        BY <4>1, HomeFacts
      <4>4. status'[s] = IF s = run THEN "READY" ELSE status[s]
        BY <1>1, <3>2, <4>1
      <4> QED
        BY <4>1, <4>2, <4>3, <4>4, <1>4
    <3> QED
      BY <3>1, <3>2
  <2> QED
    BY <1>3, <2>1 DEF Placed
<1>8. RunningTaskHeadsItsQueue'
  <2>1. \A s \in Tasks : status'[s] = "RUN" <=> s = t
    BY <1>1, <1>4
  <2>2. Ready(priority'[run']) = home
    BY <1>1, <1>6 DEF home
  <2> QED
    BY <1>1, <1>3, <2>1, <2>2 DEF RunningTaskHeadsItsQueue
<1>9. IdlesOnlyWithoutWork'
  BY <1>1 DEF IdlesOnlyWithoutWork
<1>10. TimeoutsKept'
  <2>1. ASSUME NEW s \in Tasks
        PROVE  wup_time'[s] # 0 <=> s \in Range(timeq')
    <3>1. CASE s = t
      BY <1>1, <3>1
    <3>2. CASE s # t
      <4>1. wup_time'[s] = wup_time[s]
        BY <1>1, <3>2
      <4> QED
        BY <4>1, <3>2 DEF Core, TimeoutsKept
    <3> QED
      BY <3>1, <3>2
  <2>2. ASSUME NEW s \in Range(timeq')
        PROVE  status'[s] \in Waiting
    <3>1. s \in Range(timeq) /\ s # t
      OBVIOUS
    <3>2. status[s] \in Waiting
      BY <3>1 DEF Core, TimeoutsKept
    <3>3. s \in Tasks
      <4>1. timeq \in Seq(Tasks)
        BY DEF Core, SchedTypes
      <4>2. PICK k \in 1 .. Len(timeq) : timeq[k] = s
        BY <4>1, <3>1, InRange
      <4> QED
        BY <4>1, <4>2, ElementOfSeq
    <3>4. s # run
      BY <3>2, <3>3, <1>4 DEF Waiting
    <3> QED
      BY <1>1, <3>1, <3>2, <3>3, <3>4
  <2>3. ASSUME NEW s \in Tasks, status'[s] = "TIMER_WAIT"
        PROVE  s \in Range(timeq')
    <3>1. s # t /\ status[s] = "TIMER_WAIT"
      BY <1>1, <2>3
    <3> QED
      BY <3>1 DEF Core, TimeoutsKept
  <2> QED
    BY <2>1, <2>2, <2>3 DEF TimeoutsKept
<1>11. TasksKept'
  <2>1. Idle \in Tasks /\ Ready(BasePriority[Idle]) \in QueueIds
    BY TaskAssumption, HomeFacts
  <2>2. Idle \in Range(queue'[Ready(BasePriority[Idle])])
    <3>1. Idle \in Range(queue[Ready(BasePriority[Idle])])
      BY DEF Core, TasksKept
    <3> QED
      BY <2>1, <3>1, <1>3
  <2>3. ASSUME NEW s \in Tasks \ task_list'
        PROVE  status'[s] = "DORMANT" /\ Off(queue', s)
    <3>1. s # t /\ status[s] = "DORMANT" /\ Off(queue, s)
      BY DEF Core, TasksKept
    <3>2. s # run
      BY <3>1, <1>4
    <3> QED
      BY <1>1, <1>3, <3>1, <3>2 DEF Off
  <2> QED
    BY <2>2, <2>3 DEF TasksKept, Core
<1>12. LosesNobody
  <2> SUFFICES ASSUME NEW s \in task_list', s \in task_list => Findable(s)
               PROVE  Findable(s)'
    BY DEF LosesNobody
  <2>1. CASE s = t
    BY <1>2, <1>3, <2>1 DEF Findable, Off
  <2>2. CASE s # t /\ ~ Off(queue, s)
    BY <1>3, <2>2 DEF Findable, Off
  <2>3. CASE s # t /\ status[s] = "TIMER_WAIT"
    <3>1. s \in Tasks /\ s # run
      BY <1>4, <1>5, <2>3 DEF SchedTypes
    <3> QED
      BY <1>1, <2>3, <3>1 DEF Findable
  <2> QED
    BY <2>1, <2>2, <2>3 DEF Findable
<1> QED
  BY <1>5, <1>6, <1>7, <1>8, <1>9, <1>10, <1>11, <1>12 DEF Core

\* The head of the running task's ready queue, which a blocking call drops, is
\* the running task.
LEMMA OffReadyFacts ==
    ASSUME Core, Caller
    PROVE  /\ Queued(OffReady)
           /\ Off(OffReady, run)
           /\ \A i \in QueueIds : Range(OffReady[i]) = Range(queue[i]) \ {run}
           /\ \A i \in QueueIds :
                 i # Ready(BasePriority[run]) => OffReady[i] = queue[i]
<1> DEFINE home == Ready(BasePriority[run])
<1>1. run \in Tasks /\ home \in QueueIds
  BY HomeFacts DEF Caller
<1>2. /\ OffReady = DelNextQueue(queue, home)
      /\ queue[home] # <<>>
      /\ Head(queue[home]) = run
  BY <1>1 DEF Core, RunningTaskHeadsItsQueue, OffReady
<1>3. Queued(queue)
  BY DEF Core, Placed
<1>4. run \in Range(queue[home])
  BY <1>1, <1>2, <1>3, QueuedTasks
<1> HIDE DEF home
<1> DEFINE r == DelNextQueue(queue, home)
<1>5. /\ Queued(r)
      /\ SameBut(queue, r, home)
      /\ Range(r[home]) = Range(queue[home]) \ {Head(queue[home])}
      /\ Off(r, Head(queue[home]))
  BY ONLY <1>1, <1>2, <1>3, DelNextQueueUnlinks
<1> HIDE DEF r
<1>6. \A i \in QueueIds \ {home} : r[i] = queue[i] /\ run \notin Range(r[i])
  BY <1>2, <1>5 DEF SameBut, Off
<1>7. \A i \in QueueIds : Range(r[i]) = Range(queue[i]) \ {run}
  BY <1>2, <1>5, <1>6
<1> QED
  BY <1>2, <1>5, <1>6, <1>7 DEF r, home

\* A blocking call: the running task leaves its ready queue for the queue that
\* its status st says, if any, and the next ready task runs.
LEMMA BlockKeepsCore ==
    ASSUME Core, Caller,
           NEW q, Queued(q),
           NEW st \in {"DORMANT", "REQUEST_WAIT"} \cup Waiting,
           \A i \in QueueIds : Range(q[i]) \ {run} = Range(queue[i]) \ {run},
           \A i \in QueueIds : run \in Range(q[i]) => i \in Home(run, st),
           \A p \in Priorities : run \notin Range(q[Ready(p)]),
           st \notin {"DORMANT", "TIMER_WAIT"} => ~ Off(q, run),
           NEW wup \in [Tasks -> Nat],
           timeq' \in Seq(Tasks), Distinct(timeq'),
           \/ /\ timeq' = timeq
              /\ wup = wup_time
              /\ st # "TIMER_WAIT"
           \/ /\ Range(timeq') = Range(timeq) \cup {run}
              /\ wup[run] # 0
              /\ \A s \in Tasks \ {run} : wup[s] = wup_time[s]
              /\ st \in Waiting,
           now' = now,
           task_list' \in SUBSET Tasks,
           task_list' = task_list \/
              (st = "DORMANT" /\ task_list' = task_list \ {run} /\ Off(q, run)),
           st = "DORMANT" => run \notin task_list',
           next_priority' = next_priority,
           Block(q, st, wup)
    PROVE  Core' /\ LosesNobody
<1> DEFINE t == SearchNextTask(q)
           home == Ready(BasePriority[t])
<1>0. /\ run \in Tasks
      /\ run # Idle
      /\ Idle \in Tasks
      /\ BasePriority \in [Tasks -> Priorities]
      /\ priority = BasePriority
      /\ next_priority = BasePriority
  BY TaskAssumption DEF Core, Caller
<1>1. /\ \A s \in Tasks : status[s] = "RUN" <=> s = run
      /\ status \in [Tasks -> Statuses]
      /\ wup_time \in [Tasks -> Nat]
      /\ st \in Statuses
      /\ st # "RUN"
  BY DEF Core, SchedTypes, RunningTaskHeadsItsQueue, Statuses, Waiting
<1>2. \A i \in QueueIds : \A s \in Range(queue[i]) :
         /\ s \in Tasks
         /\ s \in task_list
         /\ i \in Home(s, status[s])
  BY CoreFacts DEF Core, Placed
<1>3. Idle \in Range(q[Ready(BasePriority[Idle])])
  BY <1>0, HomeFacts DEF Core, TasksKept
\* The task found is not the running one, and is on its own ready queue.
<1>4. /\ t \in Tasks
      /\ t # run
      /\ status[t] \in {"DORMANT", "READY"}
      /\ home \in QueueIds
      /\ t \in Range(queue[home])
      /\ q[home] # <<>>
      /\ Head(q[home]) = t
      /\ \A l \in Priorities : l < BasePriority[t] => q[Ready(l)] = <<>>
  <2>1. /\ BasePriority[Idle] \in Priorities
        /\ q[Ready(BasePriority[Idle])] # <<>>
    <3>1. /\ BasePriority[Idle] \in Priorities
          /\ Ready(BasePriority[Idle]) \in QueueIds
      BY <1>0, HomeFacts
    <3> QED
      BY <1>3, <3>1, QueuedTasks
  <2>2. PICK n \in Priorities :
            /\ q[Ready(n)] # <<>>
            /\ SearchNextTask(q) = Head(q[Ready(n)])
            /\ \A l \in Priorities : l < n => q[Ready(l)] = <<>>
    BY ONLY <2>1, Queued(q), SearchNextTaskFinds
  <2>3. Ready(n) \in QueueIds
    BY QueueIdFacts
  <2>4. t \in Range(q[Ready(n)])
    BY <2>2, <2>3, QueuedTasks
  <2>5. t # run
    BY <2>4
  <2>6. t \in Range(queue[Ready(n)])
    BY <2>3, <2>4, <2>5
  <2>7. t \in Tasks /\ Ready(n) \in Home(t, status[t])
    BY <1>2, <2>3, <2>6
  <2>8. status[t] \in Statuses
    BY <1>1, <2>7
  <2>9. n = BasePriority[t] /\ status[t] \in {"DORMANT", "READY", "RUN"}
    BY <2>7, <2>8, HomeOfReady
  <2> QED
    BY <1>1, <2>2, <2>3, <2>5, <2>6, <2>7, <2>9
<1>5. /\ queue' = q
      /\ status' = [s \in Tasks |-> IF s = t THEN "RUN"
                                    ELSE IF s = run THEN st
                                    ELSE status[s]]
      /\ priority' = [s \in Tasks |-> IF s = run THEN next_priority[s]
                                      ELSE priority[s]]
      /\ wup_time' = [wup EXCEPT ![t] = 0]
      /\ run' = t
  <2>1. t # NoTask
    BY <1>4, TaskAssumption
  <2> QED
    BY <2>1 DEF Block, DispatchTask
<1> HIDE DEF t, home
<1>6. t \notin Range(timeq') /\ wup[t] = wup_time[t] /\ wup_time[t] = 0
  BY <1>0, <1>4 DEF Core, TimeoutsKept, Waiting
<1>7. SchedTypes'
  <2>1. status' \in [Tasks -> Statuses]
    BY <1>1, <1>5 DEF Statuses
  <2>2. wup_time' \in [Tasks -> Nat]
    BY <1>5
  <2> QED
    BY <1>4, <1>5, <2>1, <2>2 DEF SchedTypes, Core
<1>8. (priority = BasePriority /\ next_priority = BasePriority)'
  BY <1>0, <1>5
<1>9. Placed'
  <2>1. ASSUME NEW i \in QueueIds, NEW s \in Range(queue'[i])
        PROVE  i \in Home(s, status'[s])
    <3>1. CASE s = run
      <4>1. status'[s] = st
        BY <1>0, <1>4, <1>5, <3>1
      <4> QED
        BY <4>1, <1>5, <2>1, <3>1
    <3>2. CASE s # run
      <4>1. s \in Range(queue[i])
        BY <1>5, <2>1, <3>2
      <4>2. s \in Tasks /\ i \in Home(s, status[s])
        BY <1>2, <4>1
      <4>3. CASE s = t
        <5>1. Home(s, "RUN") = Home(s, status[s])
          BY <1>4, <4>3, HomeFacts
        <5> QED
          BY <1>5, <4>2, <4>3, <5>1
      <4>4. CASE s # t
        BY <1>5, <3>2, <4>2, <4>4
      <4> QED
        BY <4>3, <4>4
    <3> QED
      BY <3>1, <3>2
  <2> QED
    BY <1>5, <2>1 DEF Placed
<1>10. RunningTaskHeadsItsQueue'
  <2>1. \A s \in Tasks : status'[s] = "RUN" <=> s = t
    BY <1>1, <1>5
  <2>2. Ready(priority'[run']) = home
    BY <1>5, <1>8 DEF home
  <2> QED
    BY <1>4, <1>5, <2>1, <2>2 DEF RunningTaskHeadsItsQueue
<1>11. IdlesOnlyWithoutWork'
  <2> SUFFICES ASSUME t = Idle,
                      NEW p \in Priorities, NEW s \in Range(q[Ready(p)])
               PROVE  s = Idle
    BY <1>5 DEF IdlesOnlyWithoutWork
  <2>1. Ready(p) \in QueueIds
    BY QueueIdFacts
  <2>2. s \in Tasks /\ Ready(p) \in Home(s, status[s])
    BY <1>2, <2>1
  <2>3. p = BasePriority[s]
    <3>1. status[s] \in Statuses
      BY <1>1, <2>2
    <3> QED
      BY <2>2, <3>1, HomeOfReady
  <2>4. ~ (p < BasePriority[Idle])
    <3>1. q[Ready(p)] # <<>>
      BY <2>1, QueuedTasks
    <3> QED
      BY <3>1, <1>4
  <2> QED
    BY <2>2, <2>3, <2>4, IdleAssumption
<1>12. TimeoutsKept'
  <2>1. ASSUME NEW s \in Tasks
        PROVE  wup_time'[s] # 0 <=> s \in Range(timeq')
    <3>1. CASE s = t
      BY <1>5, <1>6, <3>1
    <3>2. CASE s # t
      <4>1. wup_time'[s] = wup[s]
        BY <1>5, <3>2
      <4>2. wup_time[s] # 0 <=> s \in Range(timeq)
        BY DEF Core, TimeoutsKept
      <4> QED
        BY <4>1, <4>2
    <3> QED
      BY <3>1, <3>2
  <2>2. timeq \in Seq(Tasks) /\ Range(timeq) \subseteq Tasks
    <3>1. timeq \in Seq(Tasks)
      BY DEF Core, SchedTypes
    <3> QED
      BY <3>1, InRange, ElementOfSeq
  <2>3. ASSUME NEW s \in Range(timeq')
        PROVE  status'[s] \in Waiting
    <3>1. s # t
      BY <1>6
    <3>2. CASE s = run
      <4>1. run \notin Range(timeq)
        BY <1>0, CoreFacts
      <4>2. st \in Waiting
        BY <4>1, <3>2
      <4> QED
        BY <1>0, <1>5, <3>1, <3>2, <4>2
    <3>3. CASE s # run
      <4>1. s \in Range(timeq)
        BY <3>3
      <4>2. s \in Tasks /\ status[s] \in Waiting
        BY <2>2, <4>1 DEF Core, TimeoutsKept
      <4> QED
        BY <1>5, <3>1, <3>3, <4>2
    <3> QED
      BY <3>2, <3>3
  <2>4. ASSUME NEW s \in Tasks, status'[s] = "TIMER_WAIT"
        PROVE  s \in Range(timeq')
    <3>1. s # t
      BY <1>5, <2>4
    <3>2. CASE s = run
      BY <1>5, <2>4, <3>1, <3>2
    <3>3. CASE s # run
      <4>1. status[s] = "TIMER_WAIT"
        BY <1>5, <2>4, <3>1, <3>3
      <4>2. s \in Range(timeq)
        BY <4>1 DEF Core, TimeoutsKept
      <4> QED
        BY <4>2
    <3> QED
      BY <3>2, <3>3
  <2> QED
    BY <2>1, <2>3, <2>4 DEF TimeoutsKept
<1>13. TasksKept'
  <2>1. Idle \in task_list'
    BY <1>0 DEF Core, TasksKept
  <2>2. Idle \in Range(queue'[Ready(BasePriority[Idle])])
    BY <1>3, <1>5
  <2>3. ASSUME NEW s \in Tasks \ task_list'
        PROVE  status'[s] = "DORMANT" /\ Off(queue', s)
    <3>1. t \in task_list
      BY <1>2, <1>4
    <3>2. s # t
      BY <1>4, <3>1
    <3>3. CASE s = run
      <4>1. run \in task_list
        BY <1>0, CoreFacts
      <4>2. st = "DORMANT" /\ Off(q, run)
        BY <3>3, <4>1
      <4> QED
        BY <1>5, <3>2, <3>3, <4>2
    <3>4. CASE s # run
      <4>1. s \in Tasks \ task_list
        BY <3>4
      <4>2. status[s] = "DORMANT" /\ Off(queue, s)
        BY <4>1 DEF Core, TasksKept
      <4>3. Off(queue', s)
        BY <1>5, <3>4, <4>2 DEF Off
      <4> QED
        BY <1>5, <3>2, <3>4, <4>2, <4>3
    <3> QED
      BY <3>3, <3>4
  <2> QED
    BY <2>1, <2>2, <2>3 DEF TasksKept
<1>14. LosesNobody
  <2> SUFFICES ASSUME NEW s \in task_list', s \in task_list => Findable(s)
               PROVE  Findable(s)'
    BY DEF LosesNobody
  <2>1. s \in Tasks /\ Findable(s)
    BY DEF Core, SchedTypes
  <2>2. CASE s = run
    <3>1. status'[s] = st
      BY <1>0, <1>4, <1>5, <2>2
    <3> QED
      BY <1>5, <2>2, <3>1 DEF Findable
  <2>3. CASE s # run /\ ~ Off(queue, s)
    BY <1>5, <2>3 DEF Findable, Off
  <2>4. CASE s # run /\ s # t /\ status[s] = "TIMER_WAIT"
    BY <1>5, <2>1, <2>4 DEF Findable
  <2>5. CASE s = t
    BY <1>4, <1>5, <2>5 DEF Findable, Off
  <2> QED
    BY <2>1, <2>2, <2>3, <2>4, <2>5 DEF Findable
<1> QED
  BY <1>7, <1>8, <1>9, <1>10, <1>11, <1>12, <1>13, <1>14 DEF Core

\* A step that leaves the tasks where they are.
LEMMA IdleStepKeepsCore ==
    ASSUME Core, now' \in Nat,
           UNCHANGED <<run, task_list, status, priority, next_priority,
                       wup_time, queue, timeq>>
    PROVE  Core' /\ LosesNobody
<1>1. SchedTypes'
  BY DEF Core, SchedTypes
<1>2. (priority = BasePriority /\ next_priority = BasePriority)'
  BY DEF Core
<1>3. Placed'
  BY DEF Core, Placed
<1>4. RunningTaskHeadsItsQueue' /\ IdlesOnlyWithoutWork'
  BY DEF Core, RunningTaskHeadsItsQueue, IdlesOnlyWithoutWork
<1>5. TimeoutsKept' /\ TasksKept'
  BY DEF Core, TimeoutsKept, TasksKept
<1>6. LosesNobody
  BY DEF LosesNobody, Findable, Off
<1> QED
  BY <1>1, <1>2, <1>3, <1>4, <1>5, <1>6 DEF Core

-----------------------------------------------------------------------------
(* The timeout queue.                                                      *)

\* sleepqueue_add() links the running task once.
LEMMA SleepqueueAddFacts ==
    ASSUME Core, Caller, NEW d, SleepqueueAdd(run, d)
    PROVE  /\ timeq' \in Seq(Tasks)
           /\ Distinct(timeq')
           /\ Range(timeq') = Range(timeq) \cup {run}
<1> DEFINE w == Deadline(d)
           later == {i \in DOMAIN timeq : w < wup_time[timeq[i]]}
<1>1. timeq \in Seq(Tasks) /\ Distinct(timeq)
  BY DEF Core, SchedTypes, TimeoutsKept
<1>2. run \in Tasks /\ run \notin Range(timeq)
  BY CoreFacts DEF Caller
<1>3. Len(timeq) \in Nat /\ DOMAIN timeq = 1 .. Len(timeq)
  BY <1>1, LenProperties
<1>4. TimerSlot(w) \in 1 .. Len(timeq) + 1
  <2>1. CASE later = {}
    BY <2>1, <1>3 DEF TimerSlot
  <2>2. CASE later # {}
    <3>1. later \subseteq Nat
      BY <1>3
    <3>2. Min(later) \in later
      BY <2>2, <3>1, MinOfNaturals
    <3>3. TimerSlot(w) = Min(later)
      BY <2>2 DEF TimerSlot
    <3> QED
      BY <1>3, <3>2, <3>3
  <2> QED
    BY <2>1, <2>2
<1>5. timeq' = InsertAt(timeq, TimerSlot(w), run)
  BY DEF SleepqueueAdd
<1> QED
  BY ONLY <1>1, <1>2, <1>4, <1>5, InsertAtRange

\* The deadline of a timed wait is not 0, the mark of no timeout.
LEMMA DeadlineFacts ==
    ASSUME NoWrap, now \in Nat, NEW d \in Timeouts, CanWaitFor(d)
    PROVE  Deadline(d) \in Nat \ {0}
<1>1. d \in Nat \ {0} /\ TimeModulus \in Nat \ {0} /\ MaxTime \in Nat
  BY TimeAssumption
<1>2. now + d \in 1 .. TimeModulus - 1
  BY <1>1 DEF CanWaitFor, NoWrap
<1>3. (now + d) % TimeModulus = now + d
  BY <1>1, <1>2
<1> QED
  BY <1>2, <1>3 DEF Deadline

\* A wait with or without a timeout.
LEMMA StartTimeoutFacts ==
    ASSUME NoWrap, Core, Caller, NEW d \in Timeouts \cup {0}, CanWaitFor(d),
           StartTimeout(d)
    PROVE  /\ timeq' \in Seq(Tasks)
           /\ Distinct(timeq')
           /\ DeadlineAfter(d) \in [Tasks -> Nat]
           /\ \/ /\ timeq' = timeq
                 /\ DeadlineAfter(d) = wup_time
                 /\ d = 0
              \/ /\ Range(timeq') = Range(timeq) \cup {run}
                 /\ DeadlineAfter(d)[run] # 0
                 /\ \A s \in Tasks \ {run} :
                       DeadlineAfter(d)[s] = wup_time[s]
<1>0. /\ timeq \in Seq(Tasks)
      /\ Distinct(timeq)
      /\ wup_time \in [Tasks -> Nat]
      /\ now \in Nat
      /\ run \in Tasks
  BY DEF Core, SchedTypes, TimeoutsKept, Caller
<1>1. CASE d = 0
  BY <1>0, <1>1 DEF StartTimeout, DeadlineAfter
<1>2. CASE d # 0
  <2>1. SleepqueueAdd(run, d) /\ d \in Timeouts
    BY <1>2 DEF StartTimeout
  <2>2. /\ timeq' \in Seq(Tasks)
        /\ Distinct(timeq')
        /\ Range(timeq') = Range(timeq) \cup {run}
    BY <2>1, SleepqueueAddFacts
  <2>3. Deadline(d) \in Nat \ {0}
    BY <1>0, <2>1, DeadlineFacts
  <2>4. DeadlineAfter(d) = [wup_time EXCEPT ![run] = Deadline(d)]
    BY <1>2 DEF DeadlineAfter
  <2> QED
    BY <1>0, <2>2, <2>3, <2>4
<1> QED
  BY <1>1, <1>2

\* A waiter that is resumed leaves the timeout queue.
LEMMA CancelTimeoutFacts ==
    ASSUME Core, NEW t \in Tasks, CancelTimeout(t)
    PROVE  /\ timeq' \in Seq(Tasks)
           /\ Distinct(timeq')
           /\ Range(timeq') = Range(timeq) \ {t}
<1>1. timeq \in Seq(Tasks) /\ Distinct(timeq)
  BY DEF Core, SchedTypes, TimeoutsKept
<1>2. CASE wup_time[t] # 0
  BY <1>1, <1>2, UnlinkedRange DEF CancelTimeout
<1>3. CASE wup_time[t] = 0
  <2>1. t \notin Range(timeq)
    BY <1>3 DEF Core, TimeoutsKept
  <2> QED
    BY <1>1, <1>3, <2>1 DEF CancelTimeout
<1> QED
  BY <1>2, <1>3

-----------------------------------------------------------------------------
(* Each action is one of the three.                                        *)

\* The first waiter of an event or a mutex is resumed.
LEMMA HeadWakeup ==
    ASSUME Core, NEW i \in QueueIds, NEW t, queue[i] # <<>>,
           t = Head(queue[i]), status[t] \in {"EVENT_WAIT", "MUTEX_WAIT"},
           CancelTimeout(t),
           WakeupTask(t, DelNextQueue(queue, i), priority, wup_time),
           UNCHANGED <<now, task_list, next_priority>>
    PROVE  Core' /\ LosesNobody
<1> DEFINE q == DelNextQueue(queue, i)
<1>1. Queued(queue) /\ t \in Range(queue[i])
  BY QueuedTasks DEF Core, Placed
<1>2. t \in Tasks /\ t \in task_list
  BY <1>1, CoreFacts
<1>3. t # run /\ t # Idle
  <2>1. status[Idle] \in {"DORMANT", "READY", "RUN"}
    BY CoreFacts
  <2>2. run \in Tasks => status[run] = "RUN"
    BY CoreFacts
  <2> QED
    BY <1>2, <2>1, <2>2
<1>4. /\ Queued(q)
      /\ SameBut(queue, q, i)
      /\ Range(q[i]) = Range(queue[i]) \ {t}
      /\ Off(q, t)
  BY ONLY <1>1, i \in QueueIds, queue[i] # <<>>, t = Head(queue[i]),
          DelNextQueueUnlinks
<1> HIDE DEF q
<1>5. \A j \in QueueIds : Range(q[j]) = Range(queue[j]) \ {t}
  BY <1>4 DEF SameBut, Off
<1>6. /\ timeq' \in Seq(Tasks)
      /\ Distinct(timeq')
      /\ Range(timeq') = Range(timeq) \ {t}
  BY <1>2, CancelTimeoutFacts
<1>7. /\ wup_time \in [Tasks -> Nat]
      /\ now' \in Nat
      /\ task_list' = task_list \cup {t}
      /\ next_priority' = next_priority
      /\ WakeupTask(t, q, BasePriority, wup_time)
  BY <1>2 DEF Core, SchedTypes, q
<1> QED
  BY ONLY Core, <1>2, <1>3, <1>4, <1>5, <1>6, <1>7, WakeupKeepsCore

LEMMA TaskExecKeepsCore ==
    ASSUME Core, NEW t \in Tasks, TaskExec(t)
    PROVE  Core' /\ LosesNobody
<1> DEFINE wup == [wup_time EXCEPT ![t] = 0]
<1>1. /\ t \notin task_list
      /\ task_list' = task_list \cup {t}
      /\ next_priority' = [next_priority EXCEPT ![t] = BasePriority[t]]
      /\ now' = now /\ timeq' = timeq
      /\ WakeupTask(t, queue, [priority EXCEPT ![t] = BasePriority[t]], wup)
  BY DEF TaskExec, TaskInit
<1>2. /\ BasePriority \in [Tasks -> Priorities]
      /\ priority = BasePriority /\ next_priority = BasePriority
      /\ timeq \in Seq(Tasks) /\ Distinct(timeq)
      /\ wup_time \in [Tasks -> Nat]
      /\ now \in Nat
      /\ Queued(queue)
  BY TaskAssumption DEF Core, SchedTypes, Placed, TimeoutsKept
<1>3. /\ [priority EXCEPT ![t] = BasePriority[t]] = BasePriority
      /\ [next_priority EXCEPT ![t] = BasePriority[t]] = next_priority
  BY <1>2
<1>4. t # run /\ t # Idle
  BY <1>1, CoreFacts DEF Core, TasksKept
<1>5. status[t] = "DORMANT" /\ Off(queue, t)
  BY <1>1 DEF Core, TasksKept
<1>6. t \notin Range(timeq)
  BY <1>5 DEF Core, TimeoutsKept, Waiting
<1>7. \A i \in QueueIds : Range(queue[i]) = Range(queue[i]) \ {t}
  BY <1>5 DEF Off
<1>8. /\ wup \in [Tasks -> Nat]
      /\ \A s \in Tasks \ {t} : wup[s] = wup_time[s]
  BY <1>2
<1> HIDE DEF wup
<1>9. /\ timeq' \in Seq(Tasks) /\ Distinct(timeq')
      /\ Range(timeq') = Range(timeq) \ {t}
      /\ now' \in Nat
      /\ next_priority' = next_priority
      /\ WakeupTask(t, queue, BasePriority, wup)
  BY <1>1, <1>2, <1>3, <1>6
<1> QED
  BY ONLY Core, t \in Tasks, <1>1, <1>2, <1>4, <1>5, <1>7, <1>8, <1>9,
          WakeupKeepsCore

\* The lists of TaskAdd's new task: it is appended to its ready queue.
LEMMA TaskAddKeepsCore ==
    ASSUME Core, NEW t \in Tasks, TaskAdd(t)
    PROVE  Core' /\ LosesNobody
<1> DEFINE home == Ready(BasePriority[t])
           q == AddQueue(queue, home, t)
<1>1. /\ run # Idle
      /\ t \notin task_list
      /\ task_list' = task_list \cup {t}
      /\ next_priority' = [next_priority EXCEPT ![t] = BasePriority[t]]
      /\ now' = now /\ timeq' = timeq /\ run' = run
      /\ queue' = q
      /\ status' = [status EXCEPT ![t] = "DORMANT"]
      /\ priority' = [priority EXCEPT ![t] = BasePriority[t]]
      /\ wup_time' = [wup_time EXCEPT ![t] = 0]
  BY DEF TaskAdd, TaskInit
<1>2. /\ BasePriority \in [Tasks -> Priorities]
      /\ priority = BasePriority /\ next_priority = BasePriority
      /\ wup_time \in [Tasks -> Nat]
      /\ status \in [Tasks -> Statuses]
      /\ Queued(queue)
  BY TaskAssumption DEF Core, SchedTypes, Placed
<1>3. /\ status[t] = "DORMANT" /\ Off(queue, t)
      /\ t \notin Range(timeq) /\ wup_time[t] = 0
  <2>1. status[t] = "DORMANT" /\ Off(queue, t)
    BY <1>1 DEF Core, TasksKept
  <2> QED
    BY <2>1 DEF Core, TimeoutsKept, Waiting
<1>4. /\ priority' = priority /\ next_priority' = next_priority
      /\ status' = status /\ wup_time' = wup_time
  BY <1>1, <1>2, <1>3
<1>5. home \in QueueIds /\ Home(t, "DORMANT") = {home}
  BY HomeFacts
<1> HIDE DEF home
<1>6. /\ Queued(q)
      /\ SameBut(queue, q, home)
      /\ Range(q[home]) = Range(queue[home]) \cup {t}
      /\ queue[home] # <<>> => Head(q[home]) = Head(queue[home])
      /\ q[home] # <<>>
  BY ONLY <1>2, <1>3, <1>5, t \in Tasks, AddQueueLinks
<1> HIDE DEF q
<1>7. SchedTypes'
  BY <1>1, <1>4 DEF Core, SchedTypes
<1>8. Placed'
  <2>1. ASSUME NEW i \in QueueIds, NEW s \in Range(q[i])
        PROVE  i \in Home(s, status[s])
    <3>1. CASE s \in Range(queue[i])
      BY <3>1 DEF Core, Placed
    <3>2. CASE s \notin Range(queue[i])
      <4>1. i = home /\ s = t
        BY <1>6, <2>1, <3>2 DEF SameBut
      <4> QED
        BY <4>1, <1>3, <1>5
    <3> QED
      BY <3>1, <3>2
  <2> QED
    BY <1>1, <1>4, <1>6, <2>1 DEF Placed
<1>9. RunningTaskHeadsItsQueue'
  <2>1. /\ \A s \in Tasks : status[s] = "RUN" <=> s = run
        /\ run \in Tasks => /\ queue[Ready(priority[run])] # <<>>
                            /\ Head(queue[Ready(priority[run])]) = run
    BY DEF Core, RunningTaskHeadsItsQueue
  <2>2. ASSUME run \in Tasks
        PROVE  q[Ready(priority[run])] # <<>> /\ Head(q[Ready(priority[run])]) = run
    <3>1. Ready(priority[run]) \in QueueIds
      BY <1>2, <2>2, HomeFacts
    <3>2. CASE Ready(priority[run]) = home
      BY <1>6, <2>1, <2>2, <3>2
    <3>3. CASE Ready(priority[run]) # home
      BY <1>6, <2>1, <2>2, <3>1, <3>3 DEF SameBut
    <3> QED
      BY <3>2, <3>3
  <2> QED
    BY <1>1, <1>4, <2>1, <2>2 DEF RunningTaskHeadsItsQueue
<1>10. IdlesOnlyWithoutWork'
  BY <1>1 DEF IdlesOnlyWithoutWork
<1>11. TimeoutsKept'
  BY <1>1, <1>4 DEF Core, TimeoutsKept
<1>12. TasksKept'
  <2>1. Ready(BasePriority[Idle]) \in QueueIds
    BY TaskAssumption, HomeFacts
  <2>2. Idle \in Range(q[Ready(BasePriority[Idle])])
    <3>1. Idle \in Range(queue[Ready(BasePriority[Idle])])
      BY DEF Core, TasksKept
    <3> QED
      BY <2>1, <3>1, <1>6 DEF SameBut
  <2>3. ASSUME NEW s \in Tasks \ task_list'
        PROVE  status[s] = "DORMANT" /\ Off(q, s)
    <3>1. s # t /\ status[s] = "DORMANT" /\ Off(queue, s)
      BY <1>1 DEF Core, TasksKept
    <3>2. Off(q, s)
      BY <1>6, <3>1 DEF Off, SameBut
    <3> QED
      BY <3>1, <3>2
  <2> QED
    BY <1>1, <1>4, <2>2, <2>3 DEF Core, TasksKept
<1>13. LosesNobody
  <2> SUFFICES ASSUME NEW s \in task_list', s \in task_list => Findable(s)
               PROVE  Findable(s)'
    BY DEF LosesNobody
  <2>1. CASE s = t
    BY <1>1, <1>5, <1>6, <2>1 DEF Findable, Off
  <2>2. CASE s # t /\ ~ Off(queue, s)
    BY <1>1, <1>6, <2>2 DEF Findable, Off, SameBut
  <2>3. CASE s # t /\ status[s] = "TIMER_WAIT"
    BY <1>4, <2>3 DEF Findable
  <2> QED
    BY <1>1, <2>1, <2>2, <2>3 DEF Findable
<1> QED
  BY <1>2, <1>4, <1>7, <1>8, <1>9, <1>10, <1>11, <1>12, <1>13 DEF Core

\* The running task waits on the queue i, with or without a timeout.
LEMMA WaitKeepsCore ==
    ASSUME NoWrap, Core, Caller,
           NEW i \in QueueIds, NEW st \in {"EVENT_WAIT", "MUTEX_WAIT"},
           Home(run, st) \subseteq QueueIds, i \in Home(run, st),
           \A p \in Priorities : i # Ready(p),
           NEW d \in Timeouts \cup {0}, CanWaitFor(d), StartTimeout(d),
           Block(AddQueue(OffReady, i, run), st, DeadlineAfter(d)),
           UNCHANGED <<now, task_list, next_priority>>
    PROVE  Core' /\ LosesNobody
<1> DEFINE q == AddQueue(OffReady, i, run)
           wup == DeadlineAfter(d)
<1>1. /\ run \in Tasks
      /\ Queued(OffReady)
      /\ Off(OffReady, run)
      /\ \A j \in QueueIds : Range(OffReady[j]) = Range(queue[j]) \ {run}
  BY OffReadyFacts DEF Caller
<1>2. /\ Queued(q)
      /\ SameBut(OffReady, q, i)
      /\ Range(q[i]) = Range(OffReady[i]) \cup {run}
  BY ONLY <1>1, i \in QueueIds, AddQueueLinks
<1>3. /\ timeq' \in Seq(Tasks)
      /\ Distinct(timeq')
      /\ wup \in [Tasks -> Nat]
      /\ \/ timeq' = timeq /\ wup = wup_time
         \/ /\ Range(timeq') = Range(timeq) \cup {run}
            /\ wup[run] # 0
            /\ \A s \in Tasks \ {run} : wup[s] = wup_time[s]
  BY StartTimeoutFacts
<1>4. Block(q, st, wup)
  OBVIOUS
<1> HIDE DEF q, wup
<1>5. \A j \in QueueIds : Range(q[j]) \ {run} = Range(queue[j]) \ {run}
  BY <1>1, <1>2 DEF SameBut
<1>6. \A j \in QueueIds : run \in Range(q[j]) => j = i
  BY <1>1, <1>2 DEF SameBut, Off
<1>7. \A p \in Priorities : run \notin Range(q[Ready(p)])
  BY <1>6, QueueIdFacts
<1>8. ~ Off(q, run)
  BY <1>2 DEF Off
<1>9. /\ st \in {"DORMANT", "REQUEST_WAIT"} \cup Waiting
      /\ st # "TIMER_WAIT" /\ st \in Waiting
      /\ \A j \in QueueIds : run \in Range(q[j]) => j \in Home(run, st)
      /\ task_list' \in SUBSET Tasks /\ task_list' = task_list
      /\ now' = now /\ next_priority' = next_priority
  BY <1>6 DEF Waiting, Core, SchedTypes
<1> QED
  BY ONLY Core, Caller, <1>2, <1>3, <1>4, <1>5, <1>7, <1>8, <1>9,
          BlockKeepsCore

LEMMA TaskExitKeepsCore ==
    ASSUME Core, TaskExit
    PROVE  Core' /\ LosesNobody
<1>1. /\ Caller
      /\ task_list' = task_list \ {run}
      /\ Block(OffReady, "DORMANT", wup_time)
      /\ now' = now /\ next_priority' = next_priority /\ timeq' = timeq
  BY DEF TaskExit
<1>2. /\ run \in Tasks
      /\ Queued(OffReady)
      /\ Off(OffReady, run)
      /\ \A j \in QueueIds : Range(OffReady[j]) = Range(queue[j]) \ {run}
  BY <1>1, OffReadyFacts DEF Caller
<1> DEFINE q == OffReady
<1> HIDE DEF q
<1>3. /\ Queued(q) /\ Off(q, run)
      /\ \A j \in QueueIds : Range(q[j]) \ {run} = Range(queue[j]) \ {run}
      /\ \A j \in QueueIds : run \in Range(q[j]) => j \in Home(run, "DORMANT")
      /\ \A p \in Priorities : run \notin Range(q[Ready(p)])
      /\ Block(q, "DORMANT", wup_time)
  BY <1>1, <1>2, QueueIdFacts DEF Off, q
<1>4. /\ timeq' \in Seq(Tasks) /\ Distinct(timeq')
      /\ wup_time \in [Tasks -> Nat]
      /\ task_list' \in SUBSET Tasks
      /\ run \notin task_list'
      /\ "DORMANT" \in {"DORMANT", "REQUEST_WAIT"} \cup Waiting
      /\ "DORMANT" # "TIMER_WAIT"
  BY <1>1 DEF Core, SchedTypes, TimeoutsKept
<1> QED
  BY ONLY Core, <1>1, <1>3, <1>4, BlockKeepsCore

LEMMA TaskPauseKeepsCore ==
    ASSUME Core, TaskPause
    PROVE  Core' /\ LosesNobody
<1> DEFINE q == AddQueue(OffReady, WaitQ, run)
<1>1. /\ Caller
      /\ Block(q, "REQUEST_WAIT", wup_time)
      /\ now' = now /\ next_priority' = next_priority /\ timeq' = timeq
      /\ task_list' = task_list
  BY DEF TaskPause
<1>2. /\ run \in Tasks
      /\ Queued(OffReady)
      /\ Off(OffReady, run)
      /\ \A j \in QueueIds : Range(OffReady[j]) = Range(queue[j]) \ {run}
  BY <1>1, OffReadyFacts DEF Caller
<1>3. WaitQ \in QueueIds
  BY QueueIdFacts
<1>4. /\ Queued(q)
      /\ SameBut(OffReady, q, WaitQ)
      /\ Range(q[WaitQ]) = Range(OffReady[WaitQ]) \cup {run}
  BY ONLY <1>2, <1>3, AddQueueLinks
<1> HIDE DEF q
<1>5. \A j \in QueueIds : Range(q[j]) \ {run} = Range(queue[j]) \ {run}
  BY <1>2, <1>4 DEF SameBut
<1>6. \A j \in QueueIds : run \in Range(q[j]) => j = WaitQ
  BY <1>2, <1>4 DEF SameBut, Off
<1>7. /\ \A p \in Priorities : run \notin Range(q[Ready(p)])
      /\ \A j \in QueueIds : run \in Range(q[j]) =>
            j \in Home(run, "REQUEST_WAIT")
  BY <1>2, <1>6, QueueIdFacts, HomeFacts
<1>8. ~ Off(q, run)
  BY <1>3, <1>4 DEF Off
<1>9. /\ timeq' \in Seq(Tasks) /\ Distinct(timeq')
      /\ wup_time \in [Tasks -> Nat]
      /\ task_list' \in SUBSET Tasks
      /\ "REQUEST_WAIT" \in {"DORMANT", "REQUEST_WAIT"} \cup Waiting
      /\ "REQUEST_WAIT" \notin {"TIMER_WAIT", "DORMANT"}
  BY <1>1 DEF Core, SchedTypes, TimeoutsKept
<1> QED
  BY ONLY Core, <1>1, <1>4, <1>5, <1>7, <1>8, <1>9, BlockKeepsCore

LEMMA TaskSleepKeepsCore ==
    ASSUME NoWrap, Core, NEW d \in Timeouts, TaskSleep(d)
    PROVE  Core' /\ LosesNobody
<1>1. /\ Caller
      /\ CanWaitFor(d)
      /\ SleepqueueAdd(run, d)
      /\ Block(OffReady, "TIMER_WAIT", DeadlineAfter(d))
      /\ now' = now /\ next_priority' = next_priority
      /\ task_list' = task_list
  BY DEF TaskSleep
<1>2. /\ run \in Tasks
      /\ Queued(OffReady)
      /\ Off(OffReady, run)
      /\ \A j \in QueueIds : Range(OffReady[j]) = Range(queue[j]) \ {run}
  BY <1>1, OffReadyFacts DEF Caller
<1>3. d # 0
  BY TimeAssumption
<1>4. StartTimeout(d)
  BY <1>1, <1>3 DEF StartTimeout
<1>5. /\ timeq' \in Seq(Tasks)
      /\ Distinct(timeq')
      /\ DeadlineAfter(d) \in [Tasks -> Nat]
      /\ Range(timeq') = Range(timeq) \cup {run}
      /\ DeadlineAfter(d)[run] # 0
      /\ \A s \in Tasks \ {run} : DeadlineAfter(d)[s] = wup_time[s]
  BY <1>1, <1>3, <1>4, StartTimeoutFacts
<1> DEFINE q == OffReady
           wup == DeadlineAfter(d)
<1>6. Block(q, "TIMER_WAIT", wup)
  BY <1>1
<1> HIDE DEF q, wup
<1>7. /\ Queued(q) /\ Off(q, run)
      /\ \A j \in QueueIds : Range(q[j]) \ {run} = Range(queue[j]) \ {run}
      /\ \A j \in QueueIds :
            run \in Range(q[j]) => j \in Home(run, "TIMER_WAIT")
      /\ \A p \in Priorities : run \notin Range(q[Ready(p)])
  BY <1>2, QueueIdFacts DEF Off, q
<1>8. /\ wup \in [Tasks -> Nat]
      /\ wup[run] # 0
      /\ \A s \in Tasks \ {run} : wup[s] = wup_time[s]
  BY <1>5 DEF wup
<1>9. /\ "TIMER_WAIT" \in {"DORMANT", "REQUEST_WAIT"} \cup Waiting
      /\ "TIMER_WAIT" \in Waiting
      /\ task_list' \in SUBSET Tasks
  BY <1>1 DEF Waiting, Core, SchedTypes
<1> QED
  BY ONLY Core, <1>1, <1>5, <1>6, <1>7, <1>8, <1>9, BlockKeepsCore

LEMMA TaskWakeupKeepsCore ==
    ASSUME Core, NEW t \in Tasks, TaskWakeup(t)
    PROVE  Core' /\ LosesNobody
<1> DEFINE q == DelQueue(queue, t)
<1>1. /\ t \in Range(queue[WaitQ])
      /\ WakeupTask(t, q, priority, wup_time)
      /\ now' = now /\ next_priority' = next_priority /\ timeq' = timeq
      /\ task_list' = task_list
  BY DEF TaskWakeup
<1>2. status[t] = "REQUEST_WAIT" /\ t \in task_list
  BY <1>1, CoreFacts, QueueIdFacts
<1>3. t # run /\ t # Idle /\ t \notin Range(timeq)
  <2>1. /\ run \in Tasks => status[run] = "RUN"
        /\ status[Idle] \in {"DORMANT", "READY", "RUN"}
    BY CoreFacts
  <2> QED
    BY <1>2, <2>1 DEF Core, TimeoutsKept, Waiting
<1>4. Queued(queue)
  BY DEF Core, Placed
<1>5. /\ Queued(q)
      /\ \A i \in QueueIds : Range(q[i]) = Range(queue[i]) \ {t}
      /\ Off(q, t)
  BY ONLY <1>4, DelQueueUnlinks
<1> HIDE DEF q
<1>6. /\ timeq' \in Seq(Tasks) /\ Distinct(timeq')
      /\ Range(timeq') = Range(timeq) \ {t}
      /\ wup_time \in [Tasks -> Nat]
      /\ now' \in Nat
      /\ task_list' = task_list \cup {t}
      /\ WakeupTask(t, q, BasePriority, wup_time)
  BY <1>1, <1>2, <1>3 DEF Core, SchedTypes, TimeoutsKept
<1> QED
  BY ONLY Core, t \in Tasks, <1>1, <1>3, <1>5, <1>6, WakeupKeepsCore

LEMMA TickKeepsCore ==
    ASSUME Core, Tick
    PROVE  Core' /\ LosesNobody
<1>1. /\ now' \in Nat
      /\ UNCHANGED <<task_list, next_priority>>
      /\ TaskSchedule(now')
  BY DEF Tick, Core, SchedTypes
<1>2. CASE ~ TimeoutDue(now')
  BY <1>1, <1>2, IdleStepKeepsCore DEF TaskSchedule, Core
<1>3. CASE TimeoutDue(now')
  <2> DEFINE t == Head(timeq)
             q == IF status[t] \in {"EVENT_WAIT", "MUTEX_WAIT"}
                  THEN DelQueue(queue, t) ELSE queue
  <2>1. /\ timeq # <<>>
        /\ timeq' = Tail(timeq)
        /\ WakeupTask(t, q, priority, wup_time)
    BY <1>1, <1>3 DEF TaskSchedule, TimeoutDue
  <2>2. /\ timeq \in Seq(Tasks) /\ Distinct(timeq)
        /\ wup_time \in [Tasks -> Nat]
        /\ Queued(queue)
        /\ priority = BasePriority
    BY DEF Core, SchedTypes, TimeoutsKept, Placed
  <2>3. /\ t \in Tasks
        /\ t \in Range(timeq)
        /\ timeq' \in Seq(Tasks)
        /\ Distinct(timeq')
        /\ Range(timeq') = Range(timeq) \ {t}
    BY <2>1, <2>2, TailRange
  <2>4. status[t] \in Waiting
    BY <2>3 DEF Core, TimeoutsKept
  <2>5. t # run /\ t # Idle /\ t \in task_list
    <3>1. /\ run \in Tasks => status[run] = "RUN"
          /\ status[Idle] \in {"DORMANT", "READY", "RUN"}
      BY CoreFacts
    <3>2. t \in task_list
      BY <2>3, <2>4 DEF Core, TasksKept, Waiting
    <3> QED
      BY <2>3, <2>4, <3>1, <3>2 DEF Waiting
  <2>6. /\ Queued(q)
        /\ \A i \in QueueIds : Range(q[i]) = Range(queue[i]) \ {t}
        /\ Off(q, t)
    <3>1. CASE status[t] \in {"EVENT_WAIT", "MUTEX_WAIT"}
      <4> DEFINE r == DelQueue(queue, t)
      <4>1. /\ Queued(r)
            /\ \A i \in QueueIds : Range(r[i]) = Range(queue[i]) \ {t}
            /\ Off(r, t)
        BY ONLY <2>2, DelQueueUnlinks
      <4> QED
        BY <3>1, <4>1
    <3>2. CASE status[t] = "TIMER_WAIT"
      <4>1. \A i \in QueueIds : t \notin Range(queue[i])
        <5>1. Home(t, "TIMER_WAIT") = {}
          BY <2>3, HomeFacts
        <5> QED
          BY <3>2, <5>1 DEF Core, Placed
      <4>2. q = queue
        BY <3>2
      <4> HIDE DEF q
      <4> QED
        BY <2>2, <4>1, <4>2 DEF Off
    <3> QED
      BY <2>4, <3>1, <3>2 DEF Waiting
  <2> HIDE DEF t, q
  <2>7. /\ WakeupTask(t, q, BasePriority, wup_time)
        /\ task_list' = task_list \cup {t}
        /\ next_priority' = next_priority
    BY <1>1, <2>1, <2>2, <2>5
  <2> QED
    BY ONLY Core, <1>1, <2>2, <2>3, <2>5, <2>6, <2>7, WakeupKeepsCore
<1> QED
  BY <1>2, <1>3

LEMMA EventCallKeepsCore ==
    ASSUME NoWrap, Core, EventCall
    PROVE  Core' /\ LosesNobody
<1> now \in Nat
  BY DEF Core, SchedTypes
<1> SUFFICES ASSUME NEW e \in Events,
                    \/ \E d \in Timeouts \cup {0} : EventWaitStored(e, d)
                    \/ \E d \in Timeouts \cup {0} : EventWaitBlock(e, d)
                    \/ EventClear(e)
                    \/ \E a \in Args : EventWakeup(e, a)
             PROVE  Core' /\ LosesNobody
  BY DEF EventCall
<1>1. ASSUME NEW d \in Timeouts \cup {0}, EventWaitStored(e, d)
      PROVE  Core' /\ LosesNobody
  BY <1>1, IdleStepKeepsCore DEF EventWaitStored
<1>2. ASSUME NEW d \in Timeouts \cup {0}, EventWaitBlock(e, d)
      PROVE  Core' /\ LosesNobody
  <2> DEFINE i == EventQ(e)
             st == "EVENT_WAIT"
  <2>1. /\ Caller
        /\ CanWaitFor(d)
        /\ StartTimeout(d)
        /\ Block(AddQueue(OffReady, i, run), st, DeadlineAfter(d))
        /\ UNCHANGED <<now, task_list, next_priority>>
    BY <1>2 DEF EventWaitBlock
  <2>2. /\ i \in QueueIds
        /\ \A p \in Priorities : i # Ready(p)
        /\ i \in Home(run, st)
        /\ Home(run, st) \subseteq QueueIds
        /\ st \in {"EVENT_WAIT", "MUTEX_WAIT"}
    BY <2>1, QueueIdFacts, HomeFacts DEF Caller
  <2> HIDE DEF i, st
  <2> QED
    BY ONLY NoWrap, Core, <1>2, <2>1, <2>2, WaitKeepsCore
<1>3. CASE EventClear(e)
  BY <1>3, IdleStepKeepsCore DEF EventClear
<1>4. ASSUME NEW a \in Args, EventWakeup(e, a)
      PROVE  Core' /\ LosesNobody
  <2>1. CASE queue[EventQ(e)] = <<>>
    BY <1>4, <2>1, IdleStepKeepsCore DEF EventWakeup, ResumeWaiter
  <2>2. CASE queue[EventQ(e)] # <<>>
    <3> DEFINE i == EventQ(e)
               t == Head(queue[i])
    <3>1. /\ CancelTimeout(t)
          /\ WakeupTask(t, DelNextQueue(queue, i), priority, wup_time)
          /\ UNCHANGED <<now, task_list, next_priority>>
      BY <1>4, <2>2 DEF EventWakeup, ResumeWaiter
    <3>2. i \in QueueIds /\ Queued(queue)
      BY QueueIdFacts DEF Core, Placed
    <3>3. t \in Range(queue[i])
      BY <2>2, <3>2, QueuedTasks
    <3>4. status[t] \in {"EVENT_WAIT", "MUTEX_WAIT"}
      BY <3>3, CoreFacts
    <3>5. t = Head(queue[i]) /\ queue[i] # <<>>
      BY <2>2
    <3> HIDE DEF i, t
    <3> QED
      BY ONLY Core, <3>1, <3>2, <3>4, <3>5, HeadWakeup
  <2> QED
    BY <2>1, <2>2
<1> QED
  BY <1>1, <1>2, <1>3, <1>4

LEMMA MutexCallKeepsCore ==
    ASSUME NoWrap, Core, MutexCall
    PROVE  Core' /\ LosesNobody
<1> now \in Nat
  BY DEF Core, SchedTypes
<1> SUFFICES ASSUME NEW m \in Mutexes,
                    \/ \E d \in Timeouts \cup {0} : MutexLockFree(m, d)
                    \/ MutexLockOwn(m)
                    \/ \E d \in Timeouts \cup {0} : MutexLockBlock(m, d)
                    \/ \E g \in Garbage : \/ MutexUnlockFree(m, g)
                                         \/ MutexUnlockHandOver(m, g)
                                         \/ MutexUnlockRefused(m, g)
             PROVE  Core' /\ LosesNobody
  BY DEF MutexCall
<1>1. ASSUME NEW d \in Timeouts \cup {0}, MutexLockFree(m, d)
      PROVE  Core' /\ LosesNobody
  BY <1>1, IdleStepKeepsCore DEF MutexLockFree
<1>2. CASE MutexLockOwn(m)
  BY <1>2, IdleStepKeepsCore DEF MutexLockOwn
<1>3. ASSUME NEW d \in Timeouts \cup {0}, MutexLockBlock(m, d)
      PROVE  Core' /\ LosesNobody
  <2> DEFINE i == MutexQ(m)
             st == "MUTEX_WAIT"
  <2>1. /\ Caller
        /\ CanWaitFor(d)
        /\ StartTimeout(d)
        /\ Block(AddQueue(OffReady, i, run), st, DeadlineAfter(d))
        /\ UNCHANGED <<now, task_list, next_priority>>
    BY <1>3 DEF MutexLockBlock
  <2>2. /\ i \in QueueIds
        /\ \A p \in Priorities : i # Ready(p)
        /\ i \in Home(run, st)
        /\ Home(run, st) \subseteq QueueIds
        /\ st \in {"EVENT_WAIT", "MUTEX_WAIT"}
    BY <2>1, QueueIdFacts, HomeFacts DEF Caller
  <2> HIDE DEF i, st
  <2> QED
    BY ONLY NoWrap, Core, <1>3, <2>1, <2>2, WaitKeepsCore
<1>4. ASSUME NEW g \in Garbage, MutexUnlockFree(m, g)
      PROVE  Core' /\ LosesNobody
  BY <1>4, IdleStepKeepsCore DEF MutexUnlockFree
<1>5. ASSUME NEW g \in Garbage, MutexUnlockHandOver(m, g)
      PROVE  Core' /\ LosesNobody
  <2> DEFINE i == MutexQ(m)
             t == Head(queue[i])
  <2>1. /\ CancelTimeout(t)
        /\ WakeupTask(t, DelNextQueue(queue, i), priority, wup_time)
        /\ UNCHANGED <<now, task_list, next_priority>>
        /\ queue[i] # <<>>
    BY <1>5 DEF MutexUnlockHandOver
  <2>2. i \in QueueIds /\ Queued(queue)
    BY QueueIdFacts DEF Core, Placed
  <2>3. t \in Range(queue[i])
    BY <2>1, <2>2, QueuedTasks
  <2>4. status[t] \in {"EVENT_WAIT", "MUTEX_WAIT"}
    BY <2>3, CoreFacts
  <2>5. t = Head(queue[i])
    OBVIOUS
  <2> HIDE DEF i, t
  <2> QED
    BY ONLY Core, <2>1, <2>2, <2>4, <2>5, HeadWakeup
<1>6. ASSUME NEW g \in Garbage, MutexUnlockRefused(m, g)
      PROVE  Core' /\ LosesNobody
  BY <1>6, IdleStepKeepsCore DEF MutexUnlockRefused
<1> QED
  BY <1>1, <1>2, <1>3, <1>4, <1>5, <1>6

-----------------------------------------------------------------------------
(* The invariance of Core.                                                 *)

\* What init_task() leaves satisfies Core.
LEMMA InitCore == Init => Core
<1> SUFFICES ASSUME Init
             PROVE  Core
  OBVIOUS
<1> DEFINE home == Ready(BasePriority[Idle])
<1>1. /\ Idle \in Tasks
      /\ Dummy \notin Tasks
      /\ home \in QueueIds
      /\ Home(Idle, "DORMANT") = {home}
  BY TaskAssumption, HomeFacts
<1> HIDE DEF home
<1>2. queue = [i \in QueueIds |-> IF i = home THEN <<Idle>> ELSE <<>>]
  BY DEF Init, home
<1>3. \A i \in QueueIds : Range(queue[i]) = IF i = home THEN {Idle} ELSE {}
  <2>1. Range(<<Idle>>) = {Idle} /\ Range(<<>>) = {}
    BY DEF Range
  <2> QED
    BY <1>2, <2>1
<1>4. Queued(queue)
  <2>1. queue \in [QueueIds -> Seq(Tasks)]
    BY <1>1, <1>2
  <2>2. \A i \in QueueIds : Distinct(queue[i])
    BY <1>2 DEF Distinct
  <2>3. \A i, j \in QueueIds : \A t \in Range(queue[i]) :
           t \in Range(queue[j]) => i = j
    BY <1>3
  <2> QED
    BY <2>1, <2>2, <2>3 DEF Queued
<1>5. SchedTypes
  BY <1>1 DEF Init, SchedTypes, Statuses
<1>6. Placed
  <2>1. \A t \in Tasks : status[t] = "DORMANT"
    BY DEF Init
  <2> QED
    BY <1>1, <1>3, <1>4, <2>1 DEF Placed
<1>7. RunningTaskHeadsItsQueue /\ IdlesOnlyWithoutWork
  BY <1>1 DEF Init, RunningTaskHeadsItsQueue, IdlesOnlyWithoutWork
<1>8. TimeoutsKept
  <2>1. timeq = <<>> /\ Range(timeq) = {} /\ Distinct(timeq)
    BY DEF Init, Range, Distinct
  <2> QED
    BY <2>1 DEF Init, TimeoutsKept
<1>9. TasksKept
  <2>1. \A t \in Tasks \ {Idle} : Off(queue, t)
    BY <1>3 DEF Off
  <2>2. Idle \in Range(queue[home])
    BY <1>1, <1>3
  <2> QED
    BY <2>1, <2>2 DEF Init, TasksKept, home
<1> QED
  BY <1>5, <1>6, <1>7, <1>8, <1>9 DEF Core, Init

\* Every step preserves Core.
LEMMA NextCore ==
    ASSUME NoWrap, Core, [Next]_vars
    PROVE  Core' /\ LosesNobody
<1>0. now \in Nat
  BY DEF Core, SchedTypes
<1>1. ASSUME NEW t \in Tasks, TaskExec(t) \/ TaskAdd(t) \/ TaskWakeup(t)
      PROVE  Core' /\ LosesNobody
  BY <1>1, TaskExecKeepsCore, TaskAddKeepsCore, TaskWakeupKeepsCore
<1>2. CASE TaskExit
  BY <1>2, TaskExitKeepsCore
<1>3. CASE TaskPause
  BY <1>3, TaskPauseKeepsCore
<1>4. ASSUME NEW d \in Timeouts, TaskSleep(d)
      PROVE  Core' /\ LosesNobody
  BY <1>4, TaskSleepKeepsCore
<1>5. CASE EventCall
  BY <1>5, EventCallKeepsCore
<1>6. CASE MutexCall
  BY <1>6, MutexCallKeepsCore
<1>7. CASE Elapse
  BY <1>0, <1>7, IdleStepKeepsCore DEF Elapse
<1>8. CASE Tick
  BY <1>8, TickKeepsCore
<1>9. CASE UNCHANGED vars
  BY <1>0, <1>9, IdleStepKeepsCore DEF vars
<1> QED
  BY <1>1, <1>2, <1>3, <1>4, <1>5, <1>6, <1>7, <1>8, <1>9
     DEF Next, TaskCall, Clock

\* In every reachable state Core holds and no task is lost.
LEMMA CoreInvariance ==
    ASSUME NoWrap
    PROVE  Spec => [](Core /\ NobodyIsLost)
<1>1. Init => Core /\ NobodyIsLost
  <2>1. ASSUME Init PROVE NobodyIsLost
    <3>1. Core /\ task_list = {Idle}
      BY <2>1, InitCore DEF Init
    <3> QED
      BY <3>1, CoreFacts DEF NobodyIsLost, Findable
  <2> QED
    BY <2>1, InitCore
<1>2. Core /\ NobodyIsLost /\ [Next]_vars => (Core /\ NobodyIsLost)'
  BY NextCore DEF NobodyIsLost, LosesNobody
<1> QED
  BY <1>1, <1>2, PTL DEF Spec

\* They give the invariants of the queues and timeouts.
LEMMA CoreImplies ==
    ASSUME Core, NobodyIsLost
    PROVE  /\ LinkedOnce
           /\ StatusNamesTheQueue
           /\ RunningTaskHeadsItsQueue
           /\ IdleIsReady
           /\ IdlesOnlyWithoutWork
           /\ TimeoutsAgree
           /\ RestIsKept
<1>0. /\ Queued(queue)
      /\ priority = BasePriority
      /\ \A i \in QueueIds : Range(queue[i]) \subseteq Tasks
  BY CoreFacts DEF Core, Placed
<1>1. LinkedOnce
  <2> SUFFICES ASSUME NEW i \in QueueIds, NEW j \in QueueIds,
                      NEW k \in DOMAIN queue[i], NEW l \in DOMAIN queue[j],
                      queue[i][k] = queue[j][l]
               PROVE  i = j /\ k = l
    BY DEF LinkedOnce
  <2>1. queue[i][k] \in Range(queue[i]) /\ queue[i][k] \in Range(queue[j])
    BY DEF Range
  <2>2. i = j
    BY <1>0, <2>1 DEF Queued
  <2>3. Distinct(queue[i])
    BY <1>0 DEF Queued
  <2> QED
    BY <2>2, <2>3 DEF Distinct
<1>2. StatusNamesTheQueue
  <2>1. \A t : HomeOf(t) = Home(t, status[t])
    BY <1>0 DEF HomeOf, Home
  <2>2. ASSUME NEW t \in Tasks, status[t] \notin {"DORMANT", "TIMER_WAIT"}
        PROVE  \E i \in QueueIds : t \in Range(queue[i])
    <3>1. t \in task_list
      BY <2>2 DEF Core, TasksKept
    <3> QED
      BY <2>2, <3>1 DEF NobodyIsLost, Findable, Off
  <2> QED
    BY <2>1, <2>2 DEF Core, Placed, StatusNamesTheQueue
<1>3. IdleIsReady
  <2> DEFINE home == Ready(BasePriority[Idle])
  <2>1. /\ Idle \in Tasks
        /\ BasePriority[Idle] \in Priorities
        /\ home \in QueueIds
        /\ Idle \in Range(queue[home])
    BY TaskAssumption, HomeFacts DEF Core, TasksKept
  <2>2. ASSUME NEW s \in Range(queue[home])
        PROVE  s = Idle
    <3>1. s \in Tasks
      BY <1>0, <2>1
    <3>2. home \in Home(s, status[s])
      BY <2>1 DEF Core, Placed
    <3>3. status[s] \in Statuses
      BY <3>1 DEF Core, SchedTypes
    <3>4. BasePriority[Idle] = BasePriority[s]
      BY <2>1, <3>1, <3>2, <3>3, HomeOfReady
    <3>5. BasePriority[Idle] \in Nat
      BY <2>1, TaskAssumption DEF Priorities
    <3> QED
      BY <3>1, <3>4, <3>5, IdleAssumption
  <2> QED
    BY <1>0, <2>1, <2>2 DEF IdleIsReady
<1>4. TimeoutsAgree
  BY DEF Core, TimeoutsKept, Distinct, Waiting, TimeoutsAgree
<1>5. RestIsKept
  BY DEF Core, TasksKept, Off, RestIsKept
<1> QED
  BY <1>1, <1>2, <1>3, <1>4, <1>5 DEF Core

=============================================================================
