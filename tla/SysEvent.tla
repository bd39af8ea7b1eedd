------------------------------ MODULE SysEvent ------------------------------
(***************************************************************************)
(* The system events of kernel/sysevent.c: the handler that scans the keys *)
(* pushes events, other tasks set events, and one task gets them, with     *)
(* their life time and the key repeat.  Time passes in units of the repeat *)
(* interval; an age stops to grow when nothing compares it any more.       *)
(*                                                                         *)
(* The event queue is the one of Kernel and KernelPush: set_event() hands  *)
(* its event to a task that waits, while push_event_interrupt() stores it, *)
(* and set_event_interrupt() resumes the task without it.                  *)
(***************************************************************************)
EXTENDS Integers, Sequences, FiniteSets, SequencesExt

CONSTANTS
    Keys,       \* the keys of the keyboard: 1 .. n, in the order of the scan
    MaxEvents,  \* GSC_KERNEL_MAX_SYSTEMEVENT_COUNT
    LifeTime,   \* GSC_KERNEL_SYSTEMEVENT_LIFE_TIME
    StartTime,  \* GSC_KEY_REPEAT_START_TIME
    IntTime     \* GSC_KEY_REPEAT_INTERVAL_TIME

ASSUME SysEventAssumption ==
    /\ Keys \subseteq Nat \ {0} /\ IsFiniteSet(Keys)
    /\ MaxEvents \in Nat /\ Cardinality(Keys) <= MaxEvents
    /\ {LifeTime, StartTime, IntTime} \subseteq Nat \ {0}

VARIABLES
    down,           \* the keys that are pressed: key_stat of the driver
    evtque,         \* the events that are stored
    waits,          \* the task waits in get_event()
    event,          \* the task's event structure
    last_key,       \* the key to repeat, 0 for none
    repeat_flg,     \* key_repeat_flg
    start_age,      \* time since key_repeat_start_count
    int_age,        \* time since key_repeat_int_count
    rtn,            \* what get_event() has returned
    released_unseen \* a release was dropped or came too late

sysEventVars == <<down, evtque, waits, event, last_key, repeat_flg, start_age,
                  int_age, rtn, released_unseen>>
repeatVars == <<last_key, repeat_flg, start_age, int_age>>

Events == [what : {"null", "keydown", "keyup", "repeat", "other"},
           arg : Keys \cup {0}, age : 0 .. LifeTime]

NewEvent(what, arg) == [what |-> what, arg |-> arg, age |-> 0]

SysEventInit ==
    /\ down = {}
    /\ evtque = <<>>
    /\ waits = FALSE
    /\ event = NewEvent("null", 0)
    /\ last_key = 0 /\ repeat_flg = FALSE
    /\ start_age = 0 /\ int_age = 0
    /\ rtn = 0
    /\ released_unseen = FALSE

\* What write_fifo() stores of events that come one after the other: nothing
\* when there is no room left.
Room == MaxEvents - Len(evtque)
Stored(events) ==
    evtque \o SubSeq(events, 1, IF Len(events) <= Room THEN Len(events) ELSE Room)
Dropped(events) == {events[i] : i \in {j \in DOMAIN events : j > Room}}

IsRelease(e) == e.what = "keyup"

-----------------------------------------------------------------------------
(* do_keyrepeat() and the end of get_event().                              *)

RepeatStarts == ~ repeat_flg /\ last_key # 0 /\ start_age >= StartTime
RepeatIsDue == repeat_flg /\ int_age >= IntTime

RepeatClock ==
    /\ repeat_flg' = (repeat_flg \/ RepeatStarts)
    /\ int_age' = IF RepeatStarts \/ RepeatIsDue THEN 0 ELSE int_age
    /\ UNCHANGED <<last_key, start_age>>

\* Mistake: the release of a key ends the repeat only of the key that repeats.
KeyUp_KeepsLastKey(e) ==
    /\ last_key' = IF repeat_flg THEN 0 ELSE last_key
    /\ repeat_flg' = FALSE
    /\ UNCHANGED <<start_age, int_age>>

KeyUp(e) ==
    /\ last_key' = 0 /\ repeat_flg' = FALSE
    /\ UNCHANGED <<start_age, int_age>>

KeyDown(e) ==
    /\ last_key' = e.arg /\ start_age' = 0
    /\ UNCHANGED <<repeat_flg, int_age>>

\* get_event() with an event e from event_wait(), when `others` are stored.
\* A repeat that falls due is set as an event of its own.
Got(e, others) ==
    /\ waits' = FALSE
    /\ event' = e
    /\ rtn' = IF e.age < LifeTime THEN 1 ELSE -1
    /\ released_unseen' = (released_unseen \/ (IsRelease(e) /\ e.age >= LifeTime))
    /\ CASE e.age >= LifeTime ->
              UNCHANGED repeatVars /\ evtque' = others
         [] e.age < LifeTime /\ e.what = "keydown" ->
              KeyDown(e) /\ evtque' = others
         [] e.age < LifeTime /\ e.what = "keyup" ->
              KeyUp(e) /\ evtque' = others
         [] OTHER ->
              /\ RepeatClock
              /\ evtque' = IF RepeatIsDue /\ Len(others) < MaxEvents
                             THEN Append(others, NewEvent("repeat", last_key))
                             ELSE others

-----------------------------------------------------------------------------
(* The handlers and tasks.                                                 *)

\* The keys that have changed, in the order of the scan.
Scanned(changed) ==
    {keys \in [1 .. Cardinality(changed) -> changed] :
        /\ \A i, j \in DOMAIN keys : i < j => keys[i] < keys[j]
        /\ \A k \in changed : \E i \in DOMAIN keys : keys[i] = k}

\* scan_key(): every key that has changed is pushed, then the waiter resumed;
\* it takes what is in its structure for the event.
ScanKey(changed) ==
    \E pushed \in Scanned(changed) :
      LET new == [i \in DOMAIN pushed |->
                     NewEvent(IF pushed[i] \in down THEN "keyup" ELSE "keydown", pushed[i])]
          lost == \E e \in Dropped(new) : IsRelease(e)
      IN /\ down' = (down \ changed) \cup (changed \ down)
         /\ IF waits
              THEN Got(event, Stored(new))
              ELSE /\ evtque' = Stored(new)
                   /\ released_unseen' = (released_unseen \/ lost)
                   /\ UNCHANGED <<waits, event, repeatVars, rtn>>

\* set_event() or create_event() of another task.
SetEvent ==
    /\ IF waits
         THEN Got(NewEvent("other", 0), evtque)
         ELSE /\ evtque' = Stored(<<NewEvent("other", 0)>>)
              /\ UNCHANGED <<waits, event, repeatVars, rtn, released_unseen>>
    /\ UNCHANGED down

\* get_event() finds an event.
GetEvent ==
    /\ ~ waits /\ evtque # <<>>
    /\ Got(Head(evtque), Tail(evtque))
    /\ UNCHANGED down

\* get_event() waits ...
WaitEvent ==
    /\ ~ waits /\ evtque = <<>>
    /\ waits' = TRUE
    /\ UNCHANGED <<down, evtque, event, repeatVars, rtn, released_unseen>>

\* ... until its time is over.
NoEvent ==
    /\ waits
    /\ waits' = FALSE
    /\ RepeatClock
    /\ event' = IF RepeatIsDue THEN [event EXCEPT !.what = "repeat", !.arg = last_key]
                ELSE [event EXCEPT !.what = "null", !.age = 0]
    /\ rtn' = IF RepeatIsDue THEN 1 ELSE 0
    /\ UNCHANGED <<down, evtque, released_unseen>>

Older(age, limit) == IF age < limit THEN age + 1 ELSE age

TimePasses ==
    /\ evtque' = [i \in DOMAIN evtque |-> [evtque[i] EXCEPT !.age = Older(@, LifeTime)]]
    /\ event' = [event EXCEPT !.age = Older(@, LifeTime)]
    /\ start_age' = Older(start_age, StartTime)
    /\ int_age' = Older(int_age, IntTime)
    /\ UNCHANGED <<down, waits, last_key, repeat_flg, rtn, released_unseen>>

SysEventNext ==
    \/ \E changed \in (SUBSET Keys) \ {{}} : ScanKey(changed)
    \/ SetEvent
    \/ GetEvent \/ WaitEvent \/ NoEvent
    \/ TimePasses

SysEventSpec == SysEventInit /\ [][SysEventNext]_sysEventVars

\* The task calls get_event() again and again, and its waits end.
SysEventFairSpec == SysEventSpec /\ WF_sysEventVars(GetEvent \/ WaitEvent \/ NoEvent)

-----------------------------------------------------------------------------
(* Properties.                                                             *)

SysEventTypeOK ==
    /\ down \subseteq Keys
    /\ evtque \in BoundedSeq(Events, MaxEvents)
    /\ waits \in BOOLEAN /\ repeat_flg \in BOOLEAN /\ released_unseen \in BOOLEAN
    /\ event \in Events
    /\ last_key \in Keys \cup {0}
    /\ start_age \in 0 .. StartTime /\ int_age \in 0 .. IntTime
    /\ rtn \in -1 .. 1

ReleaseStored(k) == \E i \in DOMAIN evtque : IsRelease(evtque[i]) /\ evtque[i].arg = k

\* The key that is taken for pressed, and repeated, is pressed, or its release
\* is stored, unless a release was dropped by a full queue or fetched after its
\* life time (get_event(), event_push_ISR()).
RepeatedKeyIsDown ==
    released_unseen \/ last_key \in {0} \cup down \/ ReleaseStored(last_key)

\* With a key that is released the repeat ends, whatever else is pushed.
RepeatsEnd ==
    (last_key \notin {0} \cup down) ~> (last_key \in {0} \cup down \/ released_unseen)

\* A task that was waiting is told of an event that is new, and not of what its
\* structure held before (set_event_interrupt()).
PressesAreReportedOnce ==
    [][waits /\ ~ waits' /\ event'.what = "keydown" => event' # event]_sysEventVars

\* get_event() takes no key for pressed that is not, whatever scan_key() pushed
\* and other tasks set in between.
SysEventInv == SysEventTypeOK /\ RepeatedKeyIsDown

=============================================================================
