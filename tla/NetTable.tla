------------------------------ MODULE NetTable ------------------------------
(***************************************************************************)
(* The tables of net/sys_arch.c: semaphores and mailboxes are entries that *)
(* lwIP's threads take and give back through a pointer, threads are        *)
(* entries that are only taken.  sys_sem_* and sys_mbox_* do the same; a   *)
(* mutex has no flg "valid".                                               *)
(***************************************************************************)
EXTENDS Integers, FiniteSets, FiniteSetsExt

CONSTANTS
    Owners,     \* tasks that use semaphores or mailboxes
    Slots,      \* 0 .. MAX_NET_MBOX - 1
    Functions,  \* what sys_thread_new() is called with
    MaxThreads, \* MAX_THREAD_NUM
    NoSlot, NoFunction, Nobody

ASSUME NetTableAssumption ==
    /\ Slots \subseteq Nat /\ IsFiniteSet(Slots) /\ NoSlot \notin Slots
    /\ MaxThreads \in Nat
    /\ NoFunction \notin Functions
    /\ Nobody \notin Owners

VARIABLES
    use, valid,   \* of every slot
    registered,   \* how often its event is linked in the kernel's list
    ptr,          \* the pointer of every owner
    step,         \* what the owner is about to do
    newlock,      \* lwip_mbox_mtx
    lwip_thread_num,
    lwip_thread_func,
    creating,     \* sys_thread_new() after its task_exec(), before the count
    runs          \* of every thread: what it was created for and what it runs

slotVars == <<use, valid, registered, ptr, step, newlock>>
threadVars == <<lwip_thread_num, lwip_thread_func, creating, runs>>
netTableVars == <<use, valid, registered, ptr, step, newlock,
                  lwip_thread_num, lwip_thread_func, creating, runs>>

NetTableInit ==
    /\ use = [s \in Slots |-> FALSE]
    /\ valid = [s \in Slots |-> FALSE]
    /\ registered = [s \in Slots |-> 0]
    /\ ptr = [o \in Owners |-> NoSlot]
    /\ step = [o \in Owners |-> "idle"]
    /\ newlock = Nobody
    /\ lwip_thread_num = 0
    /\ lwip_thread_func = [i \in 0 .. MaxThreads - 1 |-> NoFunction]
    /\ creating = FALSE
    /\ runs = <<>>

Goes(o, from, to) == step[o] = from /\ step' = [step EXCEPT ![o] = to]

-----------------------------------------------------------------------------
(* sys_mbox_new(): the first free entry, under a mutex.                    *)

\* Mistake: the table is searched before the mutex is held.
NewLock_TooLate(o) ==
    /\ Goes(o, "idle", "look")
    /\ UNCHANGED <<use, valid, registered, ptr, newlock>>

NewLock(o) ==
    /\ newlock = Nobody
    /\ newlock' = o
    /\ Goes(o, "idle", "look")
    /\ UNCHANGED <<use, valid, registered, ptr>>

NewLook(o) ==
    /\ \E s \in Slots : ~ use[s]
    /\ Goes(o, "look", "take")
    /\ ptr' = [ptr EXCEPT ![o] = Min({s \in Slots : ~ use[s]})]
    /\ UNCHANGED <<use, valid, registered, newlock>>

NewFails(o) ==
    /\ \A s \in Slots : use[s]
    /\ Goes(o, "look", "idle")
    /\ newlock' = Nobody
    /\ UNCHANGED <<use, valid, registered, ptr>>

NewTake(o) ==
    /\ Goes(o, "take", "register")
    /\ use' = [use EXCEPT ![ptr[o]] = TRUE]
    /\ valid' = [valid EXCEPT ![ptr[o]] = TRUE]
    /\ UNCHANGED <<registered, ptr, newlock>>

\* eventqueue_register() and the end of the call.
NewRegister(o) ==
    /\ Goes(o, "register", "own")
    /\ registered' = [registered EXCEPT ![ptr[o]] = @ + 1]
    /\ newlock' = Nobody
    /\ UNCHANGED <<use, valid, ptr>>

-----------------------------------------------------------------------------
(* sys_mbox_free(), without the mutex, and the sys_mbox_set_invalid() that *)
(* lwIP calls after it.                                                    *)

\* Mistake: the entry is free before its event is out of the kernel's list.
FreeUnregister_UseFirst(o) ==
    /\ Goes(o, "own", "valid")
    /\ use' = [use EXCEPT ![ptr[o]] = FALSE]
    /\ UNCHANGED <<valid, registered, ptr, newlock>>

FreeUnregister(o) ==
    /\ Goes(o, "own", "valid")
    /\ registered' = [registered EXCEPT ![ptr[o]] = @ - 1]
    /\ UNCHANGED <<use, valid, ptr, newlock>>

FreeValid(o) ==
    /\ Goes(o, "valid", "use")
    /\ valid' = [valid EXCEPT ![ptr[o]] = FALSE]
    /\ UNCHANGED <<use, registered, ptr, newlock>>

FreeUse(o) ==
    /\ Goes(o, "use", "invalid")
    /\ use' = [use EXCEPT ![ptr[o]] = FALSE]
    /\ UNCHANGED <<valid, registered, ptr, newlock>>

SetInvalid(o) ==
    /\ Goes(o, "invalid", "idle")
    /\ valid' = [valid EXCEPT ![ptr[o]] = FALSE]
    /\ ptr' = [ptr EXCEPT ![o] = NoSlot]
    /\ UNCHANGED <<use, registered, newlock>>

SlotStep(o) ==
    \/ NewLock(o) \/ NewLook(o) \/ NewFails(o) \/ NewTake(o) \/ NewRegister(o)
    \/ FreeUnregister(o) \/ FreeValid(o) \/ FreeUse(o) \/ SetInvalid(o)

-----------------------------------------------------------------------------
(* sys_thread_new() and lwip_thread().  task_exec() runs the new task at   *)
(* once, and a new task of the same or of a higher priority, as all of     *)
(* them are, reads its function before its creator goes on.                *)

ThreadNew(f) ==
    /\ ~ creating /\ lwip_thread_num < MaxThreads
    /\ lwip_thread_func' = [lwip_thread_func EXCEPT ![lwip_thread_num] = f]
    /\ runs' = [t \in DOMAIN runs \cup {lwip_thread_num} |->
                   IF t = lwip_thread_num THEN [for |-> f, runs |-> NoFunction] ELSE runs[t]]
    /\ creating' = TRUE
    /\ UNCHANGED lwip_thread_num

Starting(t) == t \in DOMAIN runs /\ runs[t].runs = NoFunction

\* The thread indexes the table with the count, not with its own number.
ThreadStarts(t) ==
    /\ Starting(t)
    /\ runs' = [runs EXCEPT ![t].runs =
                   IF lwip_thread_num < MaxThreads THEN lwip_thread_func[lwip_thread_num]
                   ELSE NoFunction]
    /\ UNCHANGED <<lwip_thread_num, lwip_thread_func, creating>>

ThreadNewEnds ==
    /\ creating /\ \A t \in DOMAIN runs : ~ Starting(t)
    /\ lwip_thread_num' = lwip_thread_num + 1
    /\ creating' = FALSE
    /\ UNCHANGED <<lwip_thread_func, runs>>

ThreadStep ==
    \/ \E f \in Functions : ThreadNew(f)
    \/ \E t \in DOMAIN runs : ThreadStarts(t)
    \/ ThreadNewEnds

NetTableNext ==
    \/ (\E o \in Owners : SlotStep(o)) /\ UNCHANGED threadVars
    \/ ThreadStep /\ UNCHANGED slotVars

NetTableSpec == NetTableInit /\ [][NetTableNext]_netTableVars

-----------------------------------------------------------------------------
(* Properties.                                                             *)

NetTableTypeOK ==
    /\ use \in [Slots -> BOOLEAN] /\ valid \in [Slots -> BOOLEAN]
    /\ registered \in [Slots -> Nat]
    /\ ptr \in [Owners -> Slots \cup {NoSlot}]
    /\ step \in [Owners -> {"idle", "look", "take", "register", "own", "valid", "use", "invalid"}]
    /\ newlock \in Owners \cup {Nobody}
    /\ lwip_thread_num \in 0 .. MaxThreads
    /\ lwip_thread_func \in [0 .. MaxThreads - 1 -> Functions \cup {NoFunction}]
    /\ creating \in BOOLEAN

Holding(o) == step[o] \in {"take", "register", "own", "valid", "use"}

\* A semaphore or mailbox belongs to one task, from the search of
\* sys_mbox_new() to the end of sys_mbox_free().
OneOwner ==
    \A o, p \in Owners : Holding(o) /\ Holding(p) /\ ptr[o] = ptr[p] => o = p

\* Its event is in the kernel's list once while it can be used and not at all
\* when the entry can be taken: eventqueue_register() links it blindly, and a
\* second link would break the list.
RegisteredWhileOwned ==
    /\ \A o \in Owners : step[o] = "own" => registered[ptr[o]] = 1
    /\ \A s \in Slots : ~ use[s] => registered[s] = 0

\* A thread runs the function it was created with, though lwip_thread() is
\* told neither the function nor its number.
ThreadsRunTheirFunction ==
    \A t \in DOMAIN runs : runs[t].runs \in {NoFunction, runs[t].for}

\* What the comments of sys_sem_valid() and sys_mbox_valid() say: 1 for one
\* that is valid.
OwnedIsValid ==
    \A o \in Owners : step[o] = "own" => valid[ptr[o]]

\* The tables of sys_arch.c are shared by all of lwIP's threads: an entry has
\* one owner, is linked once, and a thread runs its own function.
NetTableInv == NetTableTypeOK /\ OneOwner /\ RegisteredWhileOwned /\ ThreadsRunTheirFunction

=============================================================================
