------------------------------ MODULE NetInput ------------------------------
(***************************************************************************)
(* How a frame comes in: the DMA fills the receive descriptors and its     *)
(* interrupt sets an event (stm32f7xxx-disc_ether.c); devif_thread() of    *)
(* net/devif.c waits for the event, reads the frames into pbufs and posts  *)
(* them to lwIP's tcpip_thread; an application calls lwIP as well.  All    *)
(* three threads take lwIP's core lock, a mutex that is handed over in the *)
(* order of the waits.                                                     *)
(*                                                                         *)
(* devif_thread() leaves its loop over the frames with the core lock held, *)
(* and keeps it while it waits for the next frame.                         *)
(***************************************************************************)
EXTENDS Integers, Sequences, SequencesExt

CONSTANTS
    ETH_RXBUFNB,  \* receive descriptors, and the events that can be stored
    PBUF_POOL_SIZE,
    NoThread

ASSUME NetInputAssumption ==
    /\ ETH_RXBUFNB \in Nat \ {0} /\ PBUF_POOL_SIZE \in Nat
    /\ NoThread \notin {"devif", "tcpip", "app"}

VARIABLES
    ring,       \* frames received and not yet read
    irq,        \* the receive interrupt is pending
    events,     \* interrupt_evtque
    devif,      \* where devif_thread() is
    inFrame,    \* it has a frame in a pbuf
    tcpip_mbox, \* frames posted to tcpip_thread()
    tcpip,      \* where tcpip_thread() is
    outFrame,   \* it has a frame to handle
    app,        \* where the application is
    pool,       \* pbufs that are free
    kept,       \* pbufs that tcpip_thread() has passed to the application
    core,       \* who holds the core lock
    coreWaiters,
    starved     \* pbuf_alloc() has failed since the ring was empty

netInputVars == <<ring, irq, events, devif, inFrame, tcpip_mbox,
                  tcpip, outFrame, app, pool, kept, core, coreWaiters, starved>>
lockVars == <<core, coreWaiters>>
driverVars == <<ring, irq, events>>
tcpipVars == <<tcpip_mbox, tcpip, outFrame, kept>>
lwipVars == <<tcpip_mbox, tcpip, outFrame, kept, pool>>

NetInputInit ==
    /\ ring = 0 /\ irq = FALSE /\ events = 0
    /\ devif = "select" /\ inFrame = FALSE
    /\ tcpip_mbox = 0 /\ tcpip = "fetch" /\ outFrame = FALSE
    /\ app = "idle" /\ pool = PBUF_POOL_SIZE /\ kept = 0
    /\ core = NoThread /\ coreWaiters = <<>>
    /\ starved = FALSE

-----------------------------------------------------------------------------
(* The core lock.  A second lock of its holder has no effect.              *)

LockCore(t) ==
    IF core \in {NoThread, t}
      THEN core' = t /\ UNCHANGED coreWaiters
      ELSE coreWaiters' = Append(coreWaiters, t) /\ UNCHANGED core

\* Mistake: the lock is given away and the thread it is given to is not told.
UnlockCore_ForgetsWaiters(t) ==
    IF core = t
      THEN core' = NoThread /\ UNCHANGED coreWaiters
      ELSE UNCHANGED lockVars

UnlockCore(t) ==
    CASE core # t -> UNCHANGED lockVars
      [] core = t /\ coreWaiters = <<>> -> core' = NoThread /\ UNCHANGED coreWaiters
      [] OTHER -> core' = Head(coreWaiters) /\ coreWaiters' = Tail(coreWaiters)

Waits(t) == Contains(coreWaiters, t)

-----------------------------------------------------------------------------
(* The driver.                                                             *)

\* The DMA; without a free descriptor the frame is dropped.
FrameArrives ==
    /\ ring < ETH_RXBUFNB
    /\ ring' = ring + 1
    /\ irq' = TRUE
    /\ UNCHANGED <<events, devif, inFrame, lwipVars, app, lockVars, starved>>

\* Mistake: the waiting thread is not resumed, only told of what has come.
Interrupt_OnlyStores ==
    /\ irq
    /\ irq' = FALSE
    /\ events' = IF events < ETH_RXBUFNB THEN events + 1 ELSE events
    /\ UNCHANGED <<devif, ring, inFrame, lwipVars, app, lockVars, starved>>

\* inthdr_ether(): one event for all that has come since the last interrupt.
Interrupt ==
    /\ irq
    /\ irq' = FALSE
    /\ IF devif = "waiting"
         THEN devif' = "lock" /\ UNCHANGED events
         ELSE /\ events' = IF events < ETH_RXBUFNB THEN events + 1 ELSE events
              /\ UNCHANGED devif
    /\ UNCHANGED <<ring, inFrame, lwipVars, app, lockVars, starved>>

-----------------------------------------------------------------------------
(* devif_thread().                                                         *)

\* select_device(): ether_select().
Select ==
    /\ devif = "select"
    /\ IF events > 0
         THEN events' = events - 1 /\ devif' = "lock"
         ELSE devif' = "waiting" /\ UNCHANGED events
    /\ UNCHANGED <<ring, irq, inFrame, lwipVars, app, lockVars, starved>>

SelectTimesOut ==
    /\ devif = "waiting"
    /\ devif' = "select"
    /\ UNCHANGED <<driverVars, inFrame, lwipVars, app, lockVars, starved>>

DevifLock ==
    /\ devif = "lock"
    /\ devif' = "read"
    /\ LockCore("devif")
    /\ UNCHANGED <<driverVars, inFrame, lwipVars, app, starved>>

\* low_level_input() finds a frame.
Read ==
    /\ devif = "read" /\ ~ Waits("devif")
    /\ pool > 0 /\ ring > 0
    /\ inFrame' = TRUE /\ ring' = ring - 1 /\ pool' = pool - 1
    /\ starved' = (starved /\ ring' > 0)
    /\ devif' = "input"
    /\ UNCHANGED <<irq, events, tcpipVars, app, lockVars>>

\* It finds none, or gets no pbuf: the loop ends, without UNLOCK_TCPIP_CORE().
ReadEnds ==
    /\ devif = "read" /\ ~ Waits("devif")
    /\ pool = 0 \/ ring = 0
    /\ starved' = (ring > 0)
    /\ devif' = "select"
    /\ UNCHANGED <<driverVars, inFrame, lwipVars, app, lockVars>>

\* tcpip_input() with room in the mailbox, whose only poster this is.  A
\* tcpip_thread() that waits for a message gets it and then waits for the lock.
Input ==
    /\ devif = "input" /\ tcpip_mbox = 0
    /\ inFrame' = FALSE /\ devif' = "unlock"
    /\ IF tcpip = "waiting"
         THEN outFrame' = TRUE /\ tcpip' = "lock" /\ UNCHANGED tcpip_mbox
         ELSE tcpip_mbox' = 1 /\ UNCHANGED <<outFrame, tcpip>>
    /\ UNCHANGED <<driverVars, app, pool, kept, lockVars, starved>>

\* Mistake: the pbuf of a frame that is refused is forgotten.
InputRefused_Leaks ==
    /\ devif = "input" /\ tcpip_mbox > 0
    /\ inFrame' = FALSE /\ devif' = "unlock"
    /\ UNCHANGED <<driverVars, lwipVars, app, lockVars, starved>>

\* tcpip_input() finds the mailbox full: the pbuf is freed.
InputRefused ==
    /\ devif = "input" /\ tcpip_mbox > 0
    /\ inFrame' = FALSE /\ devif' = "unlock"
    /\ pool' = pool + 1
    /\ UNCHANGED <<driverVars, tcpipVars, app, lockVars, starved>>

InputEnds ==
    /\ devif = "unlock"
    /\ devif' = "lock"
    /\ UnlockCore("devif")
    /\ UNCHANGED <<driverVars, inFrame, lwipVars, app, starved>>

-----------------------------------------------------------------------------
(* lwIP's tcpip_thread, which holds the core lock whenever it does not     *)
(* fetch, and an application.                                              *)

TcpipFetch ==
    /\ tcpip = "fetch"
    /\ IF tcpip_mbox > 0
         THEN outFrame' = TRUE /\ tcpip_mbox' = 0 /\ tcpip' = "lock"
         ELSE tcpip' = "waiting" /\ UNCHANGED <<outFrame, tcpip_mbox>>
    /\ UNCHANGED <<driverVars, devif, inFrame, app, pool, kept, lockVars, starved>>

\* The time of the next lwIP timer has come.
TcpipTimesOut ==
    /\ tcpip = "waiting"
    /\ tcpip' = "lock"
    /\ UNCHANGED <<driverVars, devif, inFrame, tcpip_mbox, outFrame, app, pool, kept, lockVars, starved>>

TcpipLock ==
    /\ tcpip = "lock"
    /\ tcpip' = "handle"
    /\ LockCore("tcpip")
    /\ UNCHANGED <<driverVars, devif, inFrame, tcpip_mbox, outFrame, app, pool, kept, starved>>

\* The frame is handled, the pbuf freed or passed on.
TcpipHandle ==
    /\ tcpip = "handle" /\ ~ Waits("tcpip")
    /\ tcpip' = "fetch"
    /\ outFrame' = FALSE
    /\ \/ ~ outFrame /\ UNCHANGED <<pool, kept>>
       \/ outFrame /\ pool' = pool + 1 /\ UNCHANGED kept
       \/ outFrame /\ kept' = kept + 1 /\ UNCHANGED pool
    /\ UnlockCore("tcpip")
    /\ UNCHANGED <<driverVars, devif, inFrame, tcpip_mbox, app, starved>>

AppCalls ==
    /\ app = "idle"
    /\ app' = "locking"
    /\ LockCore("app")
    /\ UNCHANGED <<driverVars, devif, inFrame, lwipVars, starved>>

AppReturns ==
    /\ app = "locking" /\ ~ Waits("app")
    /\ app' = "idle"
    /\ UnlockCore("app")
    /\ UNCHANGED <<driverVars, devif, inFrame, lwipVars, starved>>

AppFrees ==
    /\ kept > 0
    /\ kept' = kept - 1 /\ pool' = pool + 1
    /\ UNCHANGED <<driverVars, devif, inFrame, tcpip_mbox, tcpip, outFrame, app, lockVars, starved>>

DevifStep == Select \/ DevifLock \/ Read \/ ReadEnds \/ Input \/ InputRefused \/ InputEnds
TcpipStep == TcpipFetch \/ TcpipLock \/ TcpipHandle

NetInputNext ==
    \/ FrameArrives \/ Interrupt
    \/ DevifStep \/ SelectTimesOut
    \/ TcpipStep \/ TcpipTimesOut
    \/ AppCalls \/ AppReturns \/ AppFrees

NetInputSpec == NetInputInit /\ [][NetInputNext]_netInputVars

\* Interrupts are served and threads go on, up to where they wait.
NetInputFairSpec ==
    /\ NetInputSpec
    /\ WF_netInputVars(Interrupt)
    /\ WF_netInputVars(DevifStep)
    /\ WF_netInputVars(TcpipStep)
    /\ WF_netInputVars(AppReturns)
    /\ WF_netInputVars(AppFrees)

-----------------------------------------------------------------------------
(* Properties.                                                             *)

NetInputTypeOK ==
    /\ ring \in 0 .. ETH_RXBUFNB
    /\ irq \in BOOLEAN /\ starved \in BOOLEAN
    /\ events \in 0 .. ETH_RXBUFNB
    /\ devif \in {"select", "waiting", "lock", "read", "input", "unlock"}
    /\ tcpip \in {"fetch", "waiting", "lock", "handle"}
    /\ app \in {"idle", "locking"}
    /\ inFrame \in BOOLEAN /\ outFrame \in BOOLEAN
    /\ tcpip_mbox \in 0 .. 1
    /\ pool \in 0 .. PBUF_POOL_SIZE /\ kept \in 0 .. PBUF_POOL_SIZE
    /\ core \in {NoThread, "devif", "tcpip", "app"}
    /\ coreWaiters \in BoundedSeq({"devif", "tcpip", "app"}, 2)

One(present) == IF present THEN 1 ELSE 0

\* Every pbuf is free or has a frame that is under way: none is lost when
\* tcpip_input() refuses a frame, and none is freed twice.
PbufsAccountedFor ==
    pool + One(inFrame) + tcpip_mbox + One(outFrame) + kept = PBUF_POOL_SIZE

\* Whoever is inside lwIP holds its core lock, and one only.
Inside(t) ==
    CASE t = "devif" -> devif \in {"read", "input", "unlock"} /\ ~ Waits("devif")
      [] t = "tcpip" -> tcpip = "handle" /\ ~ Waits("tcpip")
      [] t = "app" -> app = "locking" /\ ~ Waits("app")

CoreIsHeld == \A t \in {"devif", "tcpip", "app"} : Inside(t) => core = t

\* A frame in the ring is read, though interrupts come while devif_thread() is
\* busy and one interrupt may stand for several frames, unless pbufs run out.
FramesAreRead ==
    ring > 0 ~> devif = "input" \/ starved

\* As long as frames come the application gets the core lock: devif_thread()
\* hands it over between two frames.  Without frames it may wait for ever.
AppGetsTheCore ==
    []<><<FrameArrives>>_netInputVars => (Waits("app") ~> ~ Waits("app"))

\* Both: what is in the ring gets through, and so does the application.
FramesGetThrough == FramesAreRead /\ AppGetsTheCore

\* The frames and the core lock of devif_thread(), tcpip_thread() and the
\* application: no pbuf is lost or freed twice, nobody is inside unlocked.
NetInputInv == NetInputTypeOK /\ PbufsAccountedFor /\ CoreIsHeld

=============================================================================
