-------------------------------- MODULE Mbox --------------------------------
(***************************************************************************)
(* A mailbox of net/sys_arch.c.  A message goes to the task that has been  *)
(* waiting longest or, with nobody waiting, into the event's FIFO, which   *)
(* holds MBOX_QUEUE_COUNT of them; event_wakeup() does not tell its caller *)
(* that it was full.  A semaphore is a mailbox without messages.           *)
(*                                                                         *)
(* A step is a system call.  Messages are numbered in the order in which   *)
(* the tasks take them up.                                                 *)
(***************************************************************************)
EXTENDS Integers, Sequences, SequencesExt

CONSTANTS
    Posters,          \* tasks that call sys_mbox_post()
    TryPosters,       \* tasks that call sys_mbox_trypost()
    Fetchers,         \* tasks that call sys_arch_mbox_fetch() with a timeout or without
    TryFetchers,      \* tasks that call sys_arch_mbox_tryfetch()
    MBOX_QUEUE_COUNT,
    MaxPosts          \* bound: the number of messages

ASSUME MboxAssumption ==
    /\ MBOX_QUEUE_COUNT \in Nat \ {0} /\ MaxPosts \in Nat
    /\ Posters \cap TryPosters = {}

VARIABLES
    posts,     \* messages taken up
    fate,      \* what became of each
    posting,   \* of a task in sys_mbox_trypost() that found room: its message, or 0
    stored,    \* the event's FIFO
    waiters,   \* the tasks that wait for the event
    peeking,   \* the tasks in sys_arch_mbox_tryfetch() that found a message
    fetched,   \* the messages in the order they reached a task
    by         \* the task that posts each message

mboxVars == <<posts, fate, posting, stored, waiters, peeking, fetched, by>>

Messages == 1 .. MaxPosts
Fates == {"none", "posting", "refused", "lost", "stored", "fetched"}

MboxInit ==
    /\ posts = 0
    /\ fate = [m \in Messages |-> "none"]
    /\ posting = [t \in TryPosters |-> 0]
    /\ stored = <<>> /\ waiters = <<>>
    /\ peeking = {}
    /\ fetched = <<>>
    /\ by = <<>>

\* Mistake: the new message goes in front of those that are stored.
Wakeup_InFront(m) ==
    IF waiters # <<>>
      THEN /\ waiters' = Tail(waiters)
           /\ fetched' = Append(fetched, m)
           /\ fate' = [fate EXCEPT ![m] = "fetched"]
           /\ UNCHANGED stored
      ELSE /\ IF Len(stored) < MBOX_QUEUE_COUNT
                THEN stored' = <<m>> \o stored /\ fate' = [fate EXCEPT ![m] = "stored"]
                ELSE fate' = [fate EXCEPT ![m] = "lost"] /\ UNCHANGED stored
           /\ UNCHANGED <<waiters, fetched>>

\* event_wakeup() with the message m.
Wakeup(m) ==
    CASE waiters # <<>> ->
            /\ waiters' = Tail(waiters)
            /\ fetched' = Append(fetched, m)
            /\ fate' = [fate EXCEPT ![m] = "fetched"]
            /\ UNCHANGED stored
      [] waiters = <<>> /\ Len(stored) < MBOX_QUEUE_COUNT ->
            /\ stored' = Append(stored, m)
            /\ fate' = [fate EXCEPT ![m] = "stored"]
            /\ UNCHANGED <<waiters, fetched>>
      [] OTHER ->
            /\ fate' = [fate EXCEPT ![m] = "lost"]
            /\ UNCHANGED <<stored, waiters, fetched>>

Post(t) ==
    /\ posts < MaxPosts
    /\ posts' = posts + 1 /\ by' = Append(by, t)
    /\ Wakeup(posts + 1)
    /\ UNCHANGED <<posting, peeking>>

\* Mistake: one message more than fits is let through.
RoomFor_OneMore == Len(stored) <= MBOX_QUEUE_COUNT

RoomFor == Len(stored) < MBOX_QUEUE_COUNT

\* sys_mbox_trypost(): event_check() ...
TryPostLook(t) ==
    /\ posting[t] = 0 /\ posts < MaxPosts
    /\ posts' = posts + 1 /\ by' = Append(by, t)
    /\ posting' = [posting EXCEPT ![t] = IF RoomFor THEN posts + 1 ELSE 0]
    /\ fate' = [fate EXCEPT ![posts + 1] = IF RoomFor THEN "posting" ELSE "refused"]
    /\ UNCHANGED <<stored, waiters, peeking, fetched>>

\* ... and event_wakeup().
TryPost(t) ==
    /\ posting[t] # 0
    /\ Wakeup(posting[t])
    /\ posting' = [posting EXCEPT ![t] = 0]
    /\ UNCHANGED <<posts, by, peeking>>

Blocked(t) == Contains(waiters, t)

\* Mistake: the task waits without a look at what is stored.
FetchWait_NoLook(t) ==
    /\ waiters' = Append(waiters, t)
    /\ UNCHANGED <<stored, fetched, fate>>

\* event_wait() of the task t.
FetchWait(t) ==
    IF stored # <<>>
      THEN /\ fetched' = Append(fetched, Head(stored))
           /\ fate' = [fate EXCEPT ![Head(stored)] = "fetched"]
           /\ stored' = Tail(stored)
           /\ UNCHANGED waiters
      ELSE /\ waiters' = Append(waiters, t)
           /\ UNCHANGED <<stored, fetched, fate>>

Fetch(t) ==
    /\ ~ Blocked(t)
    /\ FetchWait(t)
    /\ UNCHANGED <<posts, by, posting, peeking>>

\* The timeout of a fetch is over.
FetchTimesOut(t) ==
    /\ \E i \in 1 .. Len(waiters) :
          waiters[i] = t /\ waiters' = RemoveAt(waiters, i)
    /\ UNCHANGED <<posts, by, fate, posting, stored, peeking, fetched>>

\* sys_arch_mbox_tryfetch(): event_check(), which finds a message ...
TryFetchLook(t) ==
    /\ t \notin peeking /\ ~ Blocked(t)
    /\ stored # <<>>
    /\ peeking' = peeking \cup {t}
    /\ UNCHANGED <<posts, by, fate, posting, stored, waiters, fetched>>

\* ... and event_wait() without a timeout.
TryFetch(t) ==
    /\ t \in peeking
    /\ peeking' = peeking \ {t}
    /\ FetchWait(t)
    /\ UNCHANGED <<posts, by, posting>>

MboxNext ==
    \/ \E t \in Posters : Post(t)
    \/ \E t \in TryPosters : TryPostLook(t) \/ TryPost(t)
    \/ \E t \in Fetchers : Fetch(t) \/ FetchTimesOut(t)
    \/ \E t \in TryFetchers : TryFetchLook(t) \/ TryFetch(t)

MboxSpec == MboxInit /\ [][MboxNext]_mboxVars

\* A task that fetches comes back for more.
MboxFairStep == \E t \in Fetchers : Fetch(t)

MboxFairSpec == MboxSpec /\ WF_mboxVars(MboxFairStep)

-----------------------------------------------------------------------------
(* Properties.                                                             *)

MboxTypeOK ==
    /\ posts \in 0 .. MaxPosts
    /\ fate \in [Messages -> Fates]
    /\ posting \in [TryPosters -> 0 .. MaxPosts]
    /\ stored \in BoundedSeq(Messages, MBOX_QUEUE_COUNT)
    /\ waiters \in Seq(Fetchers \cup TryFetchers)
    /\ peeking \subseteq TryFetchers
    /\ fetched \in Seq(Messages)
    /\ by \in [1 .. posts -> Posters \cup TryPosters]

\* Nobody waits for a mailbox that holds a message (event_wait() looks first
\* and event_wakeup() hands over): sys_arch_mbox_fetch() with timeout 0 would
\* never return.
WaitsOnlyWhileEmpty == waiters # <<>> => stored = <<>>

\* The messages of a task arrive in the order of its posts and none arrives
\* twice, whoever else posts, waits or gives up.
ArriveInOrder ==
    LET all == fetched \o stored
    IN \A i, j \in DOMAIN all : i < j /\ by[all[i]] = by[all[j]] => all[i] < all[j]

\* sys_mbox_trypost() looks and posts in two calls, and still loses a message
\* only to one that another task has posted.
LostToAnother ==
    [][\A t \in TryPosters :
        posting[t] # 0 /\ fate'[posting[t]] = "lost" =>
            \E m \in Messages : fate[m] = "stored" /\ by[m] # t]_mboxVars

\* A message that is stored reaches a task, as long as some task fetches again
\* and again.
StoredArrive ==
    \A m \in Messages : fate[m] = "stored" ~> fate[m] = "fetched"

\* What the comments above sys_mbox_post(), which must block until the message
\* is posted, and sys_mbox_trypost(), which returns ERR_OK when it is, say.
NothingIsLost == \A m \in Messages : fate[m] # "lost"

\* The comment above sys_arch_mbox_tryfetch(): it returns at once.
TryFetchReturns == \A t \in TryFetchers : ~ Blocked(t)

\* No message is passed by another of its task, delivered twice, or stored
\* behind the back of a task that waits (event_wait(), event_wakeup()).
MboxInv == MboxTypeOK /\ WaitsOnlyWhileEmpty /\ ArriveInOrder

=============================================================================
