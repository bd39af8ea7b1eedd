---------------------------- MODULE DriverProofs ----------------------------
(***************************************************************************)
(* The safety of the common drivers and of the network port, for every     *)
(* size and every number of tasks: the ring buffer of Fifo.tla is a        *)
(* bounded queue, who writes through the UART of Uart.tla is told of every *)
(* byte that is sent, the mail boxes lose no message and keep the order of *)
(* each task, no two tasks have the same entry of a table, and no frame is *)
(* lost or used after it was freed.                                        *)
(***************************************************************************)
EXTENDS Fifo, Uart, NetPort, SeqLemmas

-----------------------------------------------------------------------------
(* The ring buffer. *)

\* What the writer has still to write fits.
WriteFits == w # "idle" => Len(todo) \in 1 .. fifo_free_size

\* What the two sides rely on between their steps: the writer stores at a
\* place that is not held, the reader copies from one that is.
Inv ==
    /\ TypeOK
    /\ WriteFits
    /\ w = "publish" => buf[wp] = Head(todo)
    /\ w = "store" => todo # <<>>
    /\ r # "idle" => want > 0
    /\ r \in {"copy", "skip", "advance"} => rp # wp
    /\ r = "advance" => byte = buf[rp]

LEMMA InitInv == Init => Inv
  BY FifoAssumption DEF Init, Inv, TypeOK, WriteFits, Indexes

\* The steps of the reader free places and change none that is held.
LEMMA ReaderKeepsInv == ASSUME Inv, Reader PROVE Inv'
<1> USE FifoAssumption
<1>0. TypeOK /\ WriteFits
  BY DEF Inv
<1>1. ASSUME NEW n \in 1 .. MaxLength, ReadFifo(n) \/ DropFifo(n) PROVE Inv'
  BY <1>1 DEF ReadFifo, DropFifo, Inv, TypeOK, WriteFits, wvars, Indexes,
              fifo_free_size
<1>2. CASE FoundEmpty
  BY <1>2 DEF FoundEmpty, Inv, TypeOK, WriteFits, wvars, Indexes,
              fifo_free_size
<1>3. CASE FoundByte
  BY <1>3 DEF FoundByte, Inv, TypeOK, WriteFits, wvars, Indexes,
              fifo_free_size
<1>4. CASE Copy
  BY <1>4 DEF Copy, Inv, TypeOK, WriteFits, wvars, Indexes,
              fifo_free_size
<1>5. CASE Advance \/ Skip
  <2>1. /\ rp' = Following(rp) /\ want' = want - 1
        /\ UNCHANGED <<buf, wp, w, todo, byte>>
        /\ rp # wp /\ want > 0
        /\ got' \in {got, byte}
        /\ r' \in {"idle", "read", "drop"}
        /\ r' # "idle" => want # 1
    BY <1>5 DEF Advance, Skip, wvars, Inv
  <2>2. rp' \in Indexes /\ fifo_free_size' = fifo_free_size + 1
    BY <1>0, <2>1 DEF TypeOK, Following, fifo_free_size, Indexes
  <2>3. TypeOK'
    BY <1>0, <2>1, <2>2 DEF TypeOK, Indexes
  <2>4. fifo_free_size \in Int /\ Len(todo) \in Nat
    BY <1>0 DEF TypeOK, Indexes, fifo_free_size
  <2>5. WriteFits'
    BY <1>0, <2>1, <2>2, <2>4 DEF WriteFits
  <2> QED
    BY <1>0, <2>1, <2>3, <2>5 DEF Inv, TypeOK
<1> QED
  BY <1>1, <1>2, <1>3, <1>4, <1>5 DEF Reader

\* The steps of the writer fill free places and change none that is held.
LEMMA WriterKeepsInv == ASSUME Inv, Writer PROVE Inv'
<1> USE FifoAssumption
<1>0. TypeOK /\ WriteFits
  BY DEF Inv
<1>1. ASSUME NEW n \in 1 .. MaxLength, NEW s \in [1 .. n -> Bytes], WriteFifo(s)
      PROVE  Inv'
  <2>1. s \in Seq(Bytes) /\ Len(s) = n /\ n \in Nat /\ n >= 1
    <3>1. n \in Nat /\ n >= 1
      OBVIOUS
    <3>2. s \in Seq(Bytes)
      BY <3>1
    <3> QED
      BY <3>1, <3>2
  <2> QED
    BY <1>1, <2>1 DEF WriteFifo, Inv, TypeOK, WriteFits, rvars, Indexes,
                      fifo_free_size
<1>2. CASE WriteLoop
  <2>1. Following(wp) # rp /\ todo # <<>>
    BY <1>0, <1>2 DEF WriteLoop, WriteFits, TypeOK, Indexes,
                      fifo_free_size, Following
  <2> QED
    BY <1>2, <2>1 DEF WriteLoop, Inv, TypeOK, WriteFits, rvars, Indexes,
                      fifo_free_size
<1>3. CASE Store
  <2>1. Len(todo) \in 1 .. fifo_free_size /\ todo \in Seq(Bytes)
    BY <1>0, <1>3 DEF Store, WriteFits, TypeOK
  <2>2. Head(todo) \in Bytes
    BY <2>1
  <2>3. buf' \in [Indexes -> Bytes \cup {NoByte}] /\ buf'[wp] = Head(todo)
        /\ (rp # wp => buf'[rp] = buf[rp])
    BY <1>0, <1>3, <2>2 DEF Store, TypeOK
  <2> QED
    BY <1>3, <2>3 DEF Store, Inv, TypeOK, WriteFits, rvars, Indexes,
                      fifo_free_size
<1>4. CASE Publish
  <2>1. Len(todo) \in 1 .. fifo_free_size /\ todo \in Seq(Bytes)
    BY <1>0, <1>4 DEF Publish, WriteFits, TypeOK
  <2>2. todo' \in Seq(Bytes) /\ Len(todo') = Len(todo) - 1
        /\ (todo' # <<>> => Len(todo') # 0)
    BY <1>4, <2>1 DEF Publish
  <2>3. /\ wp' \in Indexes /\ wp' # rp
        /\ fifo_free_size' = fifo_free_size - 1
        /\ fifo_free_size \in Int
    BY <1>0, <1>4, <2>1 DEF Publish, TypeOK, Following, fifo_free_size, Indexes,
                            rvars
  <2>4. TypeOK'
    BY <1>0, <1>4, <2>2, <2>3 DEF Publish, TypeOK, rvars, Indexes
  <2>5. WriteFits'
    BY <1>4, <2>1, <2>2, <2>3 DEF Publish, WriteFits
  <2> QED
    BY <1>4, <2>3, <2>4, <2>5 DEF Publish, Inv, rvars
<1> QED
  BY <1>1, <1>2, <1>3, <1>4 DEF Writer

LEMMA InvInvariance == Spec => []Inv
<1>1. Inv /\ UNCHANGED vars => Inv'
  BY DEF vars, Inv, TypeOK, WriteFits, fifo_free_size, Indexes
<1>2. Inv /\ [Next]_vars => Inv'
  BY <1>1, ReaderKeepsInv, WriterKeepsInv DEF Next
<1> QED
  BY <1>2, InitInv, PTL DEF Spec

-----------------------------------------------------------------------------
(* The refinement.                                                         *)

\* The places held are those from rp up to, and not including, wp.
LEMMA PlacesHeld ==
    ASSUME TypeOK
    PROVE  /\ fifo_size \in 0 .. Size - 1
           /\ fifo_free_size = Size - 1 - fifo_size
           /\ \A i \in 1 .. fifo_size : Place(i) \in Indexes \ {wp}
           /\ Place(fifo_size + 1) = wp
           /\ rp # wp => fifo_size > 0 /\ Place(1) = rp
  BY FifoAssumption DEF TypeOK, Indexes, fifo_size, fifo_free_size, Place

LEMMA ContentIsASequence ==
    ASSUME TypeOK
    PROVE  /\ Content \in Seq(Bytes \cup {NoByte})
           /\ Len(Content) = fifo_size
           /\ \A i \in 1 .. fifo_size : Content[i] = buf[Place(i)]
<1>1. fifo_size \in Nat
  BY PlacesHeld
<1>2. \A i \in 1 .. fifo_size : buf[Place(i)] \in Bytes \cup {NoByte}
  BY PlacesHeld DEF TypeOK
<1> QED
  BY <1>1, <1>2 DEF Content

\* Storing a byte at wp does not touch what is held.
LEMMA StoreIsHidden == ASSUME Inv, Store PROVE UNCHANGED <<Content, got>>
<1>1. /\ UNCHANGED <<wp, rp, got>>
      /\ buf' = [buf EXCEPT ![wp] = Head(todo)]
      /\ buf \in [Indexes -> Bytes \cup {NoByte}]
  BY DEF Store, rvars, Inv, TypeOK
<1>2. fifo_size' = fifo_size /\ \A i : Place(i)' = Place(i)
  BY <1>1 DEF fifo_size, Place
<1>3. \A i \in 1 .. fifo_size : buf'[Place(i)] = buf[Place(i)]
  BY <1>1, PlacesHeld DEF Inv
<1> QED
  BY <1>1, <1>2, <1>3 DEF Content

\* Moving wp is what adds the byte.
LEMMA PublishPuts ==
    ASSUME Inv, Publish
    PROVE  Queue!Put(Head(todo)) /\ Head(todo) \in Bytes
<1> DEFINE x == Head(todo)
<1>0. TypeOK /\ WriteFits
  BY DEF Inv
<1>1. /\ wp' = Following(wp)
      /\ UNCHANGED <<buf, rp, got>>
      /\ w = "publish"
      /\ buf[wp] = x
      /\ todo \in Seq(Bytes) /\ Len(todo) \in 1 .. fifo_free_size
  BY <1>0 DEF Publish, rvars, Inv, TypeOK, WriteFits
<1>2. x \in Bytes
  BY <1>1
<1>3. fifo_free_size >= 1
  <2>1. fifo_free_size \in Int /\ Len(todo) \in Int
    BY <1>0, <1>1, FifoAssumption DEF TypeOK, Indexes, fifo_free_size
  <2> QED
    BY <1>1, <2>1
<1>4. fifo_size' = fifo_size + 1 /\ \A i : Place(i)' = Place(i)
  BY <1>0, <1>1, <1>3, FifoAssumption
     DEF TypeOK, Indexes, Following, fifo_size, fifo_free_size, Place
<1>5. Len(Content) < Size - 1
  BY <1>0, <1>3, PlacesHeld, ContentIsASequence, FifoAssumption
<1>6. Content' = Append(Content, x)
  <2>1. /\ Content \in Seq(Bytes \cup {NoByte})
        /\ Len(Content) = fifo_size
        /\ fifo_size \in Nat
        /\ \A i \in 1 .. fifo_size : Content[i] = buf[Place(i)]
        /\ buf[Place(fifo_size + 1)] = x
    BY <1>0, <1>1, PlacesHeld, ContentIsASequence
  <2>2. Content' = [i \in 1 .. fifo_size + 1 |-> buf[Place(i)]]
    BY <1>1, <1>4 DEF Content
  <2>3. /\ Append(Content, x) \in Seq(Bytes \cup {NoByte})
        /\ Len(Append(Content, x)) = fifo_size + 1
        /\ \A i \in 1 .. fifo_size : Append(Content, x)[i] = Content[i]
        /\ Append(Content, x)[fifo_size + 1] = x
    BY <1>2, <2>1, AppendProperties
  <2>4. /\ Content' \in Seq(Bytes \cup {NoByte})
        /\ Len(Content') = fifo_size + 1
        /\ \A i \in 1 .. fifo_size + 1 : Content'[i] = buf[Place(i)]
    <3>1. \A i \in 1 .. fifo_size + 1 : buf[Place(i)] \in Bytes \cup {NoByte}
      BY <1>2, <2>1, <2>3
    <3> QED
      BY <2>1, <2>2, <3>1
  <2>5. \A i \in 1 .. fifo_size + 1 : Content'[i] = Append(Content, x)[i]
    BY <2>1, <2>3, <2>4
  <2> QED
    BY <2>3, <2>4, <2>5, SeqEqual
<1> QED
  BY <1>1, <1>2, <1>5, <1>6 DEF Queue!Put

\* Moving rp is what takes a byte: the one that was copied.
LEMMA AdvanceTakes ==
    ASSUME Inv, rp # wp, rp' = Following(rp), UNCHANGED <<buf, wp>>
    PROVE  /\ Content # <<>>
           /\ Head(Content) = buf[rp]
           /\ Content' = Tail(Content)
<1>0. TypeOK
  BY DEF Inv
<1>1. /\ Content \in Seq(Bytes \cup {NoByte})
      /\ Len(Content) = fifo_size
      /\ fifo_size \in Nat /\ fifo_size > 0
      /\ \A i \in 1 .. fifo_size : Content[i] = buf[Place(i)]
      /\ Place(1) = rp
  BY <1>0, PlacesHeld, ContentIsASequence
<1>2. Content # <<>> /\ Head(Content) = buf[rp]
  BY <1>1
<1>3. fifo_size' = fifo_size - 1
  BY <1>0, FifoAssumption DEF TypeOK, Indexes, Following, fifo_size
<1>4. \A i \in 1 .. fifo_size - 1 : Place(i)' = Place(i + 1)
  BY <1>0, FifoAssumption DEF TypeOK, Indexes, Following, fifo_size, Place
<1>5. Content' = [i \in 1 .. fifo_size - 1 |-> buf[Place(i + 1)]]
  BY <1>3, <1>4 DEF Content
<1>6. /\ Tail(Content) \in Seq(Bytes \cup {NoByte})
      /\ Len(Tail(Content)) = fifo_size - 1
      /\ \A i \in 1 .. fifo_size - 1 : Tail(Content)[i] = Content[i + 1]
  BY <1>1, <1>2, HeadTailProperties
<1>7. \A i \in 1 .. fifo_size - 1 : Content[i + 1] = buf[Place(i + 1)]
  BY <1>1
<1>8. /\ Content' \in Seq(Bytes \cup {NoByte})
      /\ Len(Content') = fifo_size - 1
      /\ \A i \in 1 .. fifo_size - 1 : Content'[i] = buf[Place(i + 1)]
  <2>1. fifo_size - 1 \in Nat
    BY <1>1
  <2>2. \A i \in 1 .. fifo_size - 1 : buf[Place(i + 1)] \in Bytes \cup {NoByte}
    <3>1. \A i \in 1 .. fifo_size - 1 : i + 1 \in 1 .. fifo_size
      BY <1>1
    <3> QED
      BY <1>0, <3>1, PlacesHeld DEF TypeOK
  <2> QED
    BY <1>5, <2>1, <2>2
<1>9. Content' = Tail(Content)
  BY <1>6, <1>7, <1>8, SeqEqual
<1> QED
  BY <1>2, <1>9

LEMMA StepsRefine ==
    ASSUME Inv, [Next]_vars
    PROVE  [Queue!Next]_<<Content, got>>
<1>1. ASSUME UNCHANGED <<buf, wp, rp, got>>
      PROVE  UNCHANGED <<Content, got>>
  BY <1>1 DEF Content, fifo_size, Place
<1>2. CASE UNCHANGED vars
  BY <1>1, <1>2 DEF vars
<1>3. CASE Writer
  <2>1. ASSUME NEW s, WriteFifo(s) PROVE UNCHANGED <<Content, got>>
    BY <1>1, <2>1 DEF WriteFifo, rvars
  <2>2. CASE WriteLoop
    BY <1>1, <2>2 DEF WriteLoop, rvars
  <2>3. CASE Publish
    BY <2>3, PublishPuts DEF Queue!Next
  <2> QED
    BY <1>3, <2>1, <2>2, <2>3, StoreIsHidden DEF Writer
<1>4. CASE Reader
  <2>1. ASSUME NEW n, ReadFifo(n) \/ DropFifo(n)
        PROVE  UNCHANGED <<Content, got>>
    BY <1>1, <2>1 DEF ReadFifo, DropFifo
  <2>2. CASE FoundEmpty \/ FoundByte \/ Copy
    BY <1>1, <2>2 DEF FoundEmpty, FoundByte, Copy
  <2>3. CASE Advance
    <3>1. /\ rp # wp /\ rp' = Following(rp) /\ UNCHANGED <<buf, wp>>
          /\ got' = buf[rp]
      BY <2>3 DEF Advance, Inv
    <3> QED
      BY <3>1, AdvanceTakes DEF Queue!Next, Queue!Get
  <2>4. CASE Skip
    <3>1. /\ rp # wp /\ rp' = Following(rp) /\ UNCHANGED <<buf, wp, got>>
      BY <2>4 DEF Skip, Inv
    <3> QED
      BY <3>1, AdvanceTakes DEF Queue!Next, Queue!Drop
  <2> QED
    BY <1>4, <2>1, <2>2, <2>3, <2>4 DEF Reader
<1> QED
  BY <1>2, <1>3, <1>4 DEF Next

-----------------------------------------------------------------------------
(* The theorems.                                                           *)

\* The pointers stay inside the buffer and the bytes are bytes.
THEOREM FifoTypeCorrect == Spec => []TypeOK
<1>1. Inv => TypeOK
  BY DEF Inv
<1> QED
  BY <1>1, InvInvariance, PTL

\* write_fifo() never stops in the middle of a write.
THEOREM FifoWritesWholeOrNothing == Spec => []WholeOrNothing
<1>1. Inv => WholeOrNothing
  <2> SUFFICES ASSUME Inv, w = "loop" PROVE Following(wp) # rp
    BY DEF WholeOrNothing
  <2>1. Len(todo) \in 1 .. fifo_free_size /\ TypeOK
    BY DEF Inv, WriteFits
  <2> QED
    BY <2>1, FifoAssumption DEF TypeOK, Indexes, fifo_free_size, Following
<1> QED
  BY <1>1, InvInvariance, PTL

\* One writer and one reader that are not synchronised share a bounded queue.
THEOREM FifoIsAByteQueue == Spec => IsAByteQueue
<1>1. Init => Queue!Init
  <2> SUFFICES ASSUME Init PROVE Queue!Init
    OBVIOUS
  <2>1. fifo_size = 0 /\ got = NoByte
    BY DEF Init, fifo_size
  <2>2. Content = <<>>
    BY <2>1 DEF Content
  <2> QED
    BY <2>1, <2>2 DEF Queue!Init
<1> QED
  BY <1>1, InvInvariance, StepsRefine, PTL DEF Spec, IsAByteQueue, Queue!Spec

-----------------------------------------------------------------------------
(* The UART. *)

Awaiting == {u \in Writers : putc[u] \in {"wait", "waiting"}}

\* The tasks in the list of tx_evq are those that wait, each once.
WaitersLinkedOnce ==
    /\ Distinct(txWaiters)
    /\ \A u \in Writers : putc[u] = "waiting" <=> u \in Range(txWaiters)

UartIInv == UartInv /\ WaitersLinkedOnce

LEMMA UartBegins == UartInit => UartIInv
<1> SUFFICES ASSUME UartInit PROVE UartIInv
  OBVIOUS
<1> USE UartAssumption DEF UartInit
<1>1. txWaiters \in Seq(Writers) /\ Range(txWaiters) = {} /\ Distinct(txWaiters)
  BY EmptySeq DEF Range, Distinct
<1>2. Cardinality({u \in Writers : putc[u] \in {"wait", "waiting"}}) = 0
  <2>1. {u \in Writers : putc[u] \in {"wait", "waiting"}} = {}
    OBVIOUS
  <2> QED
    BY <2>1, FS_EmptySet
<1>3. UartTypeOK
  <2>1. astray \in BOOLEAN /\ pushed \in BOOLEAN
    OBVIOUS
  <2>2. putc \in [Writers -> {"idle", "transmit", "wait", "waiting"}]
    OBVIOUS
  <2> QED
    BY <1>1, <2>1, <2>2 DEF UartTypeOK
<1> QED
  BY <1>1, <1>2, <1>3 DEF UartIInv, UartInv, TxEventsMatch, WaitsForAnEvent,
                          CgetcReturnsAByte, WaitersLinkedOnce

\* How many await the end of a byte, when one begins to and when one has it.
LEMMA AwaitingCount ==
    ASSUME UartAssumption
    PROVE  /\ IsFiniteSet(Awaiting) /\ Cardinality(Awaiting) \in Nat
           /\ \A u \in Writers :
                 /\ u \notin Awaiting =>
                       Cardinality(Awaiting \cup {u}) = Cardinality(Awaiting) + 1
                 /\ u \in Awaiting =>
                       Cardinality(Awaiting \ {u}) = Cardinality(Awaiting) - 1
<1>1. IsFiniteSet(Awaiting)
  BY FS_Subset DEF Awaiting, UartAssumption
<1> QED
  BY <1>1, FS_CardinalityType, FS_AddElement, FS_RemoveElement

\* The writers and the end of a byte, whatever happens to the reader.
LEMMA PutKept ==
    ASSUME UartAssumption, UartTypeOK, TxEventsMatch, WaitsForAnEvent, WaitersLinkedOnce,
           \/ \E u \in Writers : \/ PutBegin(u) \/ Transmit(u) \/ TransmitGivesUp(u)
                                 \/ TxWait(u) \/ TxTimesOut(u)
           \/ \E received \in BOOLEAN : Sent(received)
    PROVE  /\ putc' \in [Writers -> {"idle", "transmit", "wait", "waiting"}]
           /\ tx' \in Writers \cup {NoWriter}
           /\ txStored' \in 0 .. 1
           /\ txWaiters' \in Seq(Writers)
           /\ astray' \in BOOLEAN /\ pushed' \in BOOLEAN
           /\ TxEventsMatch' /\ WaitsForAnEvent' /\ WaitersLinkedOnce'
<1> DEFINE Types == /\ putc \in [Writers -> {"idle", "transmit", "wait", "waiting"}]
                    /\ tx \in Writers \cup {NoWriter}
                    /\ txStored \in 0 .. 1
                    /\ txWaiters \in Seq(Writers)
                    /\ astray \in BOOLEAN /\ pushed \in BOOLEAN
           Goal == Types /\ TxEventsMatch /\ WaitsForAnEvent /\ WaitersLinkedOnce
<1>0. /\ Types /\ NoWriter \notin Writers
      /\ Distinct(txWaiters)
      /\ \A u \in Writers : putc[u] = "waiting" <=> u \in Range(txWaiters)
      /\ ~ astray => Cardinality(Awaiting) = txStored + (IF tx = NoWriter THEN 0 ELSE 1)
      /\ pushed \/ txWaiters = <<>> \/ txStored = 0
  BY DEF UartTypeOK, UartAssumption, WaitersLinkedOnce, TxEventsMatch, WaitsForAnEvent, Awaiting
<1>1. ASSUME Types', Distinct(txWaiters'),
             \A u \in Writers : putc'[u] = "waiting" <=> u \in Range(txWaiters'),
             astray' \/ Cardinality(Awaiting') = txStored' + (IF tx' = NoWriter THEN 0 ELSE 1),
             pushed' \/ txWaiters' = <<>> \/ txStored' = 0
      PROVE  Goal'
  BY <1>1 DEF WaitersLinkedOnce, TxEventsMatch, WaitsForAnEvent, Awaiting
<1>2. /\ IsFiniteSet(Awaiting) /\ Cardinality(Awaiting) \in Nat
      /\ \A u \in Writers :
            /\ u \notin Awaiting =>
                  Cardinality(Awaiting \cup {u}) = Cardinality(Awaiting) + 1
            /\ u \in Awaiting =>
                  Cardinality(Awaiting \ {u}) = Cardinality(Awaiting) - 1
  BY AwaitingCount
<1>3. ASSUME NEW u \in Writers, PutBegin(u)
      PROVE  Goal'
  <2>1. Awaiting' = Awaiting
    BY <1>0, <1>3 DEF PutBegin, Awaiting
  <2> QED
    BY <1>0, <1>1, <1>3, <2>1 DEF PutBegin, getVars
<1>4. ASSUME NEW u \in Writers, Transmit(u)
      PROVE  Goal'
  <2>1. Awaiting' = Awaiting \cup {u} /\ u \notin Awaiting
    BY <1>0, <1>4 DEF Transmit, Awaiting
  <2>2. Cardinality(Awaiting') = Cardinality(Awaiting) + 1
    BY <1>2, <2>1
  <2>3. tx = NoWriter /\ tx' = u /\ u # NoWriter /\ txStored' = txStored /\ astray' = astray
    BY <1>0, <1>4 DEF Transmit
  <2>4. astray' \/ Cardinality(Awaiting') = txStored' + (IF tx' = NoWriter THEN 0 ELSE 1)
    BY <1>0, <1>2, <2>2, <2>3
  <2> QED
    BY <1>0, <1>1, <1>4, <2>4 DEF Transmit, getVars
<1>5. ASSUME NEW u \in Writers, TransmitGivesUp(u)
      PROVE  Goal'
  BY <1>0, <1>1, <1>5 DEF TransmitGivesUp, getVars
<1>6. ASSUME NEW u \in Writers, TxWait(u)
      PROVE  Goal'
  <2>1. CASE txStored > 0
    <3>1. Awaiting' = Awaiting \ {u} /\ u \in Awaiting
      BY <1>0, <1>6, <2>1 DEF TxWait, Awaiting
    <3>2. Cardinality(Awaiting') = Cardinality(Awaiting) - 1
      BY <1>2, <3>1
    <3>3. txStored' = txStored - 1 /\ tx' = tx /\ astray' = astray
      BY <1>6, <2>1 DEF TxWait
    <3>4. astray' \/ Cardinality(Awaiting') = txStored' + (IF tx' = NoWriter THEN 0 ELSE 1)
      BY <1>0, <1>2, <3>2, <3>3
    <3>5. txStored' = 0 /\ txStored' \in 0 .. 1
      BY <1>0, <2>1, <3>3
    <3> QED
      BY <1>0, <1>1, <1>6, <2>1, <3>4, <3>5 DEF TxWait, getVars
  <2>2. CASE ~ (txStored > 0)
    <3>1. Awaiting' = Awaiting
      BY <1>0, <1>6, <2>2 DEF TxWait, Awaiting
    <3>2. txWaiters' = Append(txWaiters, u) /\ u \notin Range(txWaiters)
      BY <1>0, <1>6, <2>2 DEF TxWait
    <3>3. /\ txWaiters' \in Seq(Writers) /\ Distinct(txWaiters')
          /\ Range(txWaiters') = Range(txWaiters) \cup {u}
      BY <1>0, <3>2, AppendRange, AppendProperties
    <3>4. txStored' = 0
      BY <1>0, <1>6, <2>2 DEF TxWait
    <3> QED
      BY <1>0, <1>1, <1>6, <2>2, <3>1, <3>3, <3>4 DEF TxWait, getVars
  <2> QED
    BY <2>1, <2>2
<1>7. ASSUME NEW u \in Writers, TxTimesOut(u)
      PROVE  Goal'
  <2>1. PICK i \in 1 .. Len(txWaiters) : txWaiters[i] = u /\ txWaiters' = RemoveAt(txWaiters, i)
    BY <1>7 DEF TxTimesOut
  <2>2. /\ txWaiters' \in Seq(Writers) /\ Distinct(txWaiters')
        /\ Range(txWaiters') = Range(txWaiters) \ {u}
    BY <1>0, <2>1, RemoveAtRange
  <2>3. txWaiters = <<>> => txWaiters' = <<>>
    BY <2>1, EmptySeq
  <2> QED
    BY <1>0, <1>1, <1>7, <2>2, <2>3 DEF TxTimesOut, getVars
<1>8. ASSUME NEW received \in BOOLEAN, Sent(received)
      PROVE  Goal'
  <2>1. tx # NoWriter /\ tx' = NoWriter
    BY <1>8 DEF Sent
  <2>2. pushed' \in BOOLEAN /\ (pushed => pushed')
    BY <1>8 DEF Sent
  <2>3. CASE StoreTxEvent /\ (received \/ txWaiters = <<>>)
    <3>1. /\ Awaiting' = Awaiting /\ txStored' = 1
          /\ UNCHANGED <<putc, txWaiters>>
      BY <2>3 DEF StoreTxEvent, Awaiting
    <3>2. astray' = (astray \/ txStored = 1)
      BY <2>3 DEF StoreTxEvent
    <3>3. astray' \in BOOLEAN /\ (~ astray' => ~ astray /\ txStored # 1)
      BY <3>2
    <3>4. astray' \/ Cardinality(Awaiting') = txStored' + (IF tx' = NoWriter THEN 0 ELSE 1)
      BY <1>0, <1>2, <2>1, <3>1, <3>3
    <3>5. pushed' \/ txWaiters' = <<>> \/ txStored' = 0
      BY <1>8, <2>3, <3>1 DEF Sent
    <3> QED
      BY <1>0, <1>1, <2>1, <2>2, <3>1, <3>3, <3>4, <3>5
  <2>4. CASE ~ received /\ WakeWriter /\ txWaiters # <<>>
    <3>1. /\ putc' = [putc EXCEPT ![Head(txWaiters)] = "idle"]
          /\ txWaiters' = Tail(txWaiters)
          /\ UNCHANGED <<txStored, astray>>
      BY <2>4 DEF WakeWriter
    <3>2. /\ txWaiters' \in Seq(Writers) /\ Head(txWaiters) \in Writers
          /\ Head(txWaiters) \in Range(txWaiters)
          /\ Range(txWaiters') = Range(txWaiters) \ {Head(txWaiters)}
          /\ Distinct(txWaiters')
      BY <1>0, <2>4, <3>1, TailRange
    <3>3. Awaiting' = Awaiting \ {Head(txWaiters)} /\ Head(txWaiters) \in Awaiting
      BY <1>0, <3>1, <3>2 DEF Awaiting
    <3>4. Cardinality(Awaiting') = Cardinality(Awaiting) - 1
      BY <1>2, <3>2, <3>3
    <3>5. astray' \/ Cardinality(Awaiting') = txStored' + (IF tx' = NoWriter THEN 0 ELSE 1)
      BY <1>0, <1>2, <2>1, <3>1, <3>4
    <3>6. \A u \in Writers : putc'[u] = "waiting" <=> u \in Range(txWaiters')
      BY <1>0, <3>1, <3>2
    <3>7. pushed' \/ txWaiters' = <<>> \/ txStored' = 0
      BY <1>0, <2>2, <2>4, <3>1
    <3>8. Types'
      BY <1>0, <2>1, <2>2, <3>1, <3>2
    <3> QED
      BY <1>1, <3>2, <3>5, <3>6, <3>7, <3>8
  <2> QED
    BY <1>8, <2>3, <2>4 DEF Sent, WakeWriter
<1> QED
  BY <1>3, <1>4, <1>5, <1>6, <1>7, <1>8

\* The reader and the bytes that have come.
GetInv ==
    /\ reader \in {"idle", "wait", "waiting", "get"}
    /\ rfifo \in 0 .. MAXBUFSIZE
    /\ CgetcReturnsAByte

LEMMA GetKept ==
    ASSUME UartAssumption, GetInv, SelectLook \/ SelectWait \/ GetC \/ Received
    PROVE  GetInv'
BY DEF UartAssumption, GetInv, CgetcReturnsAByte, SelectLook, SelectWait, GetC, Received

\* The serial port, for any number of writers and any size of the buffer: the
\* events stored, awaited and to come agree, and cgetc() returns with a byte.
THEOREM UartInvariant == UartSpec => []UartInv
<1> USE UartAssumption
<1> DEFINE PutInv == /\ putc \in [Writers -> {"idle", "transmit", "wait", "waiting"}]
                     /\ tx \in Writers \cup {NoWriter}
                     /\ txStored \in 0 .. 1
                     /\ txWaiters \in Seq(Writers)
                     /\ astray \in BOOLEAN /\ pushed \in BOOLEAN
                     /\ TxEventsMatch /\ WaitsForAnEvent /\ WaitersLinkedOnce
<1>1. UartIInv <=> PutInv /\ GetInv
  BY DEF UartIInv, UartInv, UartTypeOK, GetInv
<1>2. ASSUME UartIInv, UartNext
      PROVE  UartIInv'
  <2>1. CASE \E u \in Writers : \/ PutBegin(u) \/ Transmit(u) \/ TransmitGivesUp(u)
                                \/ TxWait(u) \/ TxTimesOut(u)
    <3>1. UNCHANGED getVars
      BY <2>1 DEF PutBegin, Transmit, TransmitGivesUp, TxWait, TxTimesOut
    <3>2. GetInv'
      BY <1>1, <1>2, <3>1 DEF getVars, GetInv, CgetcReturnsAByte
    <3>3. PutInv'
      BY <1>2, <2>1, PutKept DEF UartIInv, UartInv
    <3> QED
      BY <3>2, <3>3 DEF UartIInv, UartInv, UartTypeOK, GetInv
  <2>2. CASE SelectLook \/ SelectWait \/ GetC \/ ReceivedInterrupt
    <3>1. UNCHANGED putVars
      BY <2>2 DEF SelectLook, SelectWait, GetC, ReceivedInterrupt
    <3>2. PutInv'
      BY <1>1, <1>2, <3>1
         DEF putVars, TxEventsMatch, WaitsForAnEvent, WaitersLinkedOnce
    <3>3. GetInv'
      BY <1>1, <1>2, <2>2, GetKept DEF ReceivedInterrupt
    <3> QED
      BY <3>2, <3>3 DEF UartIInv, UartInv, UartTypeOK, GetInv
  <2>3. CASE SentInterrupt \/ BothInterrupt
    <3>1. \E received \in BOOLEAN : Sent(received)
      BY <2>3 DEF SentInterrupt, BothInterrupt
    <3>2. PutInv'
      BY <1>2, <3>1, PutKept DEF UartIInv, UartInv
    <3>3. UNCHANGED getVars \/ Received
      BY <2>3 DEF SentInterrupt, BothInterrupt
    <3>4. GetInv'
      BY <1>1, <1>2, <3>3, GetKept DEF getVars, GetInv, CgetcReturnsAByte
    <3> QED
      BY <3>2, <3>4 DEF UartIInv, UartInv, UartTypeOK, GetInv
  <2> QED
    BY <1>2, <2>1, <2>2, <2>3 DEF UartNext
<1>3. UartIInv /\ UNCHANGED uartVars => UartIInv'
  BY DEF uartVars, UartIInv, UartInv, UartTypeOK, TxEventsMatch, WaitsForAnEvent,
         CgetcReturnsAByte, WaitersLinkedOnce
<1>4. UartIInv => UartInv
  BY DEF UartIInv
<1> QED
  BY <1>2, <1>3, <1>4, UartBegins, PTL DEF UartSpec

-----------------------------------------------------------------------------
(* The mail boxes. *)

\* Of two messages of one task the earlier comes first.
InOrder(b, s) ==
    \A i, j \in DOMAIN s : i < j /\ b[s[i]] = b[s[j]] => s[i] < s[j]

\* What is on its way, and what its poster relies on between the look and the
\* post of sys_mbox_trypost(): it posts nothing else meanwhile, so that what
\* fills the mailbox up again is of another task.
PostingInv ==
    \A t \in TryPosters : posting[t] # 0 =>
        /\ posting[t] \in 1 .. posts
        /\ by[posting[t]] = t
        /\ fate[posting[t]] = "posting"
        /\ \A m \in 1 .. posts : by[m] = t => m <= posting[t]
        /\ Len(stored) < MBOX_QUEUE_COUNT \/ by[stored[Len(stored)]] # t

\* The fate of a message says where it is.
FateInv ==
    /\ \A i \in 1 .. Len(stored) : stored[i] \in 1 .. posts /\ fate[stored[i]] = "stored"
    /\ \A i \in 1 .. Len(fetched) : fetched[i] \in 1 .. posts /\ fate[fetched[i]] = "fetched"
    /\ \A m \in Messages : m > posts => fate[m] = "none"

MboxTypes ==
    /\ posts \in 0 .. MaxPosts
    /\ fate \in [Messages -> Fates]
    /\ posting \in [TryPosters -> 0 .. MaxPosts]
    /\ stored \in Seq(Messages) /\ Len(stored) <= MBOX_QUEUE_COUNT
    /\ waiters \in Seq(Fetchers \cup TryFetchers)
    /\ peeking \subseteq TryFetchers
    /\ fetched \in Seq(Messages)
    /\ by \in Seq(Posters \cup TryPosters) /\ Len(by) = posts

MboxIInv ==
    /\ MboxTypes /\ FateInv /\ PostingInv
    /\ WaitsOnlyWhileEmpty
    /\ Distinct(stored)
    /\ InOrder(by, fetched \o stored)

\* A message that reaches a task or the FIFO comes last of all.
LEMMA AppendInOrder ==
    ASSUME NEW b, NEW s \in Seq(Messages), NEW m \in Messages, InOrder(b, s),
           \A i \in 1 .. Len(s) : b[s[i]] = b[m] => s[i] < m
    PROVE  InOrder(b, Append(s, m))
<1>1. /\ DOMAIN Append(s, m) = 1 .. Len(s) + 1
      /\ \A i \in 1 .. Len(s) : Append(s, m)[i] = s[i]
      /\ Append(s, m)[Len(s) + 1] = m
  BY AppendProperties, LenProperties
<1>2. Len(s) \in Nat /\ DOMAIN s = 1 .. Len(s)
  BY LenProperties
<1> QED
  BY <1>1, <1>2 DEF InOrder

\* The three ways in which what has arrived or is stored changes.
LEMMA ArrivalsAppend ==
    ASSUME NEW S, NEW f \in Seq(S), NEW s \in Seq(S), NEW m \in S
    PROVE  /\ f \o Append(s, m) = Append(f \o s, m)
           /\ s = <<>> => Append(f, m) \o s = Append(f \o s, m)
           /\ s # <<>> => Append(f, Head(s)) \o Tail(s) = f \o s
<1>1. <<m>> \in Seq(S) /\ f \o s \in Seq(S)
  BY ConcatProperties
<1>2. f \o Append(s, m) = Append(f \o s, m)
  <2>1. Append(s, m) = s \o <<m>> /\ Append(f \o s, m) = (f \o s) \o <<m>>
    BY <1>1, AppendIsConcat
  <2> QED
    BY <2>1, <1>1, ConcatAssociative
<1>3. ASSUME s = <<>>
      PROVE  Append(f, m) \o s = Append(f \o s, m)
  <2>1. Append(f, m) \in Seq(S)
    BY AppendProperties
  <2> QED
    BY <1>3, <2>1, ConcatEmptySeq
<1>4. ASSUME s # <<>>
      PROVE  Append(f, Head(s)) \o Tail(s) = f \o s
  <2>1. Head(s) \in S /\ Tail(s) \in Seq(S) /\ s = <<Head(s)>> \o Tail(s)
    BY <1>4, HeadTailProperties, HeadThenTail
  <2>2. Append(f, Head(s)) = f \o <<Head(s)>> /\ <<Head(s)>> \in Seq(S)
    BY <2>1, AppendIsConcat
  <2> QED
    BY <2>1, <2>2, ConcatAssociative
<1> QED
  BY <1>2, <1>3, <1>4

\* What has arrived or is stored has been posted.
LEMMA ArrivedWerePosted ==
    ASSUME MboxTypes, FateInv
    PROVE  LET all == fetched \o stored
           IN /\ all \in Seq(Messages) /\ Len(all) \in Nat /\ DOMAIN all = 1 .. Len(all)
              /\ \A i \in 1 .. Len(all) :
                    all[i] \in 1 .. posts /\ fate[all[i]] \in {"stored", "fetched"}
<1> DEFINE all == fetched \o stored
<1>1. /\ posts \in Nat /\ stored \in Seq(Messages) /\ fetched \in Seq(Messages)
      /\ Len(stored) \in Nat /\ Len(fetched) \in Nat
  BY LenProperties DEF MboxTypes
<1>2. /\ all \in Seq(Messages) /\ Len(all) \in Nat /\ DOMAIN all = 1 .. Len(all)
      /\ \A i \in 1 .. Len(all) : all[i] \in 1 .. posts /\ fate[all[i]] \in {"stored", "fetched"}
  <2>1. /\ all \in Seq(Messages) /\ Len(all) = Len(fetched) + Len(stored)
        /\ \A i \in 1 .. Len(fetched) + Len(stored) :
              all[i] = IF i <= Len(fetched) THEN fetched[i] ELSE stored[i - Len(fetched)]
    BY <1>1, ConcatProperties
  <2>2. DOMAIN all = 1 .. Len(all) /\ Len(all) \in Nat
    BY <2>1, LenProperties
  <2>3. ASSUME NEW i \in 1 .. Len(all)
        PROVE  all[i] \in 1 .. posts /\ fate[all[i]] \in {"stored", "fetched"}
    <3> HIDE DEF all
    <3>1. CASE i <= Len(fetched)
      BY <1>1, <2>1, <3>1 DEF FateInv
    <3>2. CASE i > Len(fetched)
      <4>1. i - Len(fetched) \in 1 .. Len(stored) /\ all[i] = stored[i - Len(fetched)]
        BY <1>1, <2>1, <3>2
      <4> QED
        BY <4>1 DEF FateInv
    <3> QED
      BY <1>1, <2>1, <3>1, <3>2
  <2> QED
    BY <2>1, <2>2, <2>3
<1> QED
  BY <1>2

\* A message that is posted: it came after all others of its task.
LEMMA WakeupKeeps ==
    ASSUME MboxAssumption, MboxTypes, FateInv, WaitsOnlyWhileEmpty, Distinct(stored),
           InOrder(by, fetched \o stored), NEW m \in Messages, Wakeup(m),
           by' \in Seq(Posters \cup TryPosters), posts' \in Nat, posts <= posts',
           \A n \in 1 .. posts : by'[n] = by[n],
           m \in 1 .. posts', posts' # posts => m = posts + 1 /\ posts' = posts + 1,
           fate[m] \in {"none", "posting"},
           \A n \in 1 .. posts : by[n] = by'[m] => n <= m
    PROVE  /\ fate' \in [Messages -> Fates]
           /\ stored' \in Seq(Messages) /\ Len(stored') <= MBOX_QUEUE_COUNT
           /\ waiters' \in Seq(Fetchers \cup TryFetchers)
           /\ fetched' \in Seq(Messages)
           /\ FateInv' /\ WaitsOnlyWhileEmpty' /\ Distinct(stored)'
           /\ InOrder(by', fetched' \o stored')
<1> DEFINE all == fetched \o stored
<1>1. /\ posts \in Nat /\ fate \in [Messages -> Fates]
      /\ stored \in Seq(Messages) /\ fetched \in Seq(Messages)
      /\ Len(stored) \in Nat /\ Len(fetched) \in Nat
      /\ DOMAIN stored = 1 .. Len(stored) /\ DOMAIN fetched = 1 .. Len(fetched)
  BY LenProperties DEF MboxTypes
<1>2. /\ all \in Seq(Messages) /\ Len(all) \in Nat /\ DOMAIN all = 1 .. Len(all)
      /\ \A i \in 1 .. Len(all) : all[i] \in 1 .. posts /\ fate[all[i]] \in {"stored", "fetched"}
  BY <1>1, ArrivedWerePosted
<1> HIDE DEF all
<1>3. InOrder(by', all)
  BY <1>1, <1>2 DEF InOrder, all
<1>4. InOrder(by', Append(all, m))
  <2>1. ASSUME NEW i \in 1 .. Len(all), by'[all[i]] = by'[m]
        PROVE  all[i] < m
    <3>1. all[i] \in 1 .. posts /\ all[i] # m
      BY <1>2
    <3>2. by[all[i]] = by'[m]
      BY <2>1, <3>1
    <3> QED
      BY <3>1, <3>2
  <2> QED
    BY <1>2, <1>3, <2>1, AppendInOrder
<1>5. \A i \in 1 .. Len(stored) : stored[i] # m /\ stored[i] \in 1 .. posts
                                 /\ fate[stored[i]] = "stored"
  BY DEF FateInv
<1>6. \A i \in 1 .. Len(fetched) : fetched[i] # m /\ fetched[i] \in 1 .. posts
                                  /\ fate[fetched[i]] = "fetched"
  BY DEF FateInv
<1>7. \A n \in Messages : n > posts' => n > posts /\ n # m /\ fate[n] = "none"
  BY <1>1 DEF FateInv
<1>a. CASE waiters # <<>>
  <2>1. /\ waiters' = Tail(waiters) /\ fetched' = Append(fetched, m)
        /\ fate' = [fate EXCEPT ![m] = "fetched"] /\ stored' = stored /\ stored = <<>>
    BY <1>a DEF Wakeup, WaitsOnlyWhileEmpty
  <2>2. waiters' \in Seq(Fetchers \cup TryFetchers)
    BY <1>a, <2>1, HeadTailProperties DEF MboxTypes
  <2>3. /\ fetched' \in Seq(Messages) /\ Len(fetched') = Len(fetched) + 1
        /\ \A i \in 1 .. Len(fetched) : fetched'[i] = fetched[i]
        /\ fetched'[Len(fetched) + 1] = m
    BY <1>1, <2>1, AppendProperties
  <2>4. fetched' \o stored' = Append(all, m)
    BY <1>1, <2>1, ArrivalsAppend DEF all
  <2>5. fate' \in [Messages -> Fates] /\ fate'[m] = "fetched"
        /\ \A n \in Messages \ {m} : fate'[n] = fate[n]
    BY <1>1, <2>1 DEF Fates
  <2>6. FateInv'
    <3>1. \A i \in 1 .. Len(fetched') : fetched'[i] \in 1 .. posts' /\ fate'[fetched'[i]] = "fetched"
      <4> DEFINE A == {n \in 1 .. posts' : fate'[n] = "fetched"}
      <4>1. m \in A /\ \A i \in 1 .. Len(fetched) : fetched[i] \in A
        BY <1>1, <1>6, <2>5 DEF MboxTypes, Messages
      <4> HIDE DEF A
      <4>2. \A i \in 1 .. Len(fetched') : fetched'[i] \in A
        BY <1>1, <2>1, <4>1, AppendEntries
      <4> QED
        BY <4>2 DEF A
    <3>2. \A n \in Messages : n > posts' => fate'[n] = "none"
      BY <1>7, <2>5
    <3>3. Len(stored') = 0
      BY <1>1, <2>1, EmptySeq
    <3> QED
      BY <3>1, <3>2, <3>3 DEF FateInv
  <2>7. WaitsOnlyWhileEmpty' /\ Distinct(stored)'
    BY <2>1 DEF WaitsOnlyWhileEmpty, Distinct
  <2> QED
    BY <1>1, <1>4, <2>1, <2>2, <2>3, <2>4, <2>5, <2>6, <2>7 DEF MboxTypes
<1>b. CASE waiters = <<>> /\ Len(stored) < MBOX_QUEUE_COUNT
  <2>1. /\ stored' = Append(stored, m) /\ fate' = [fate EXCEPT ![m] = "stored"]
        /\ waiters' = waiters /\ fetched' = fetched
    BY <1>b DEF Wakeup
  <2>2. /\ stored' \in Seq(Messages) /\ Len(stored') = Len(stored) + 1
        /\ \A i \in 1 .. Len(stored) : stored'[i] = stored[i]
        /\ stored'[Len(stored) + 1] = m
    BY <1>1, <2>1, AppendProperties
  <2>3. fetched' \o stored' = Append(all, m)
    BY <1>1, <2>1, ArrivalsAppend DEF all
  <2>4. fate' \in [Messages -> Fates] /\ fate'[m] = "stored"
        /\ \A n \in Messages \ {m} : fate'[n] = fate[n]
    BY <1>1, <2>1 DEF Fates
  <2>5. Distinct(stored')
    <3>1. m \notin Range(stored)
      BY <1>1, <1>5 DEF Range
    <3> QED
      BY <1>1, <2>1, <3>1, AppendRange
  <2>6. FateInv'
    <3>1. \A i \in 1 .. Len(stored') : stored'[i] \in 1 .. posts' /\ fate'[stored'[i]] = "stored"
      <4> DEFINE A == {n \in 1 .. posts' : fate'[n] = "stored"}
      <4>1. m \in A /\ \A i \in 1 .. Len(stored) : stored[i] \in A
        BY <1>1, <1>5, <2>4 DEF MboxTypes, Messages
      <4> HIDE DEF A
      <4>2. \A i \in 1 .. Len(stored') : stored'[i] \in A
        BY <1>1, <2>1, <4>1, AppendEntries
      <4> QED
        BY <4>2 DEF A
    <3>2. \A i \in 1 .. Len(fetched') : fetched'[i] \in 1 .. posts' /\ fate'[fetched'[i]] = "fetched"
      BY <1>1, <1>6, <2>1, <2>4 DEF MboxTypes, Messages
    <3>3. \A n \in Messages : n > posts' => fate'[n] = "none"
      BY <1>7, <2>4
    <3> QED
      BY <3>1, <3>2, <3>3 DEF FateInv
  <2>7. WaitsOnlyWhileEmpty'
    BY <1>b, <2>1 DEF WaitsOnlyWhileEmpty
  <2> QED
    BY <1>1, <1>4, <1>b, <2>1, <2>2, <2>3, <2>4, <2>5, <2>6, <2>7
       DEF MboxTypes, Distinct, MboxAssumption
<1>c. CASE waiters = <<>> /\ ~ (Len(stored) < MBOX_QUEUE_COUNT)
  <2>1. /\ fate' = [fate EXCEPT ![m] = "lost"]
        /\ stored' = stored /\ waiters' = waiters /\ fetched' = fetched
    BY <1>c DEF Wakeup
  <2>2. fate' \in [Messages -> Fates]
        /\ \A n \in Messages \ {m} : fate'[n] = fate[n]
    BY <1>1, <2>1 DEF Fates
  <2>3. FateInv'
    <3>1. \A i \in 1 .. Len(stored') : stored'[i] \in 1 .. posts' /\ fate'[stored'[i]] = "stored"
      BY <1>1, <1>5, <2>1, <2>2 DEF MboxTypes, Messages
    <3>2. \A i \in 1 .. Len(fetched') : fetched'[i] \in 1 .. posts' /\ fate'[fetched'[i]] = "fetched"
      BY <1>1, <1>6, <2>1, <2>2 DEF MboxTypes, Messages
    <3>3. \A n \in Messages : n > posts' => fate'[n] = "none"
      BY <1>7, <2>2
    <3> QED
      BY <3>1, <3>2, <3>3 DEF FateInv
  <2> QED
    BY <1>1, <1>3, <2>1, <2>2, <2>3 DEF MboxTypes, WaitsOnlyWhileEmpty, Distinct, all
<1> QED
  BY <1>a, <1>b, <1>c

\* A message that a task takes from the FIFO, and a task that waits.
LEMMA FetchKeeps ==
    ASSUME MboxAssumption, MboxTypes, FateInv, WaitsOnlyWhileEmpty, Distinct(stored),
           InOrder(by, fetched \o stored), NEW t \in Fetchers \cup TryFetchers,
           FetchWait(t), UNCHANGED <<posts, by>>
    PROVE  /\ fate' \in [Messages -> Fates]
           /\ stored' \in Seq(Messages) /\ Len(stored') <= MBOX_QUEUE_COUNT
           /\ waiters' \in Seq(Fetchers \cup TryFetchers)
           /\ fetched' \in Seq(Messages)
           /\ FateInv' /\ WaitsOnlyWhileEmpty' /\ Distinct(stored')
           /\ InOrder(by', fetched' \o stored')
           /\ stored' # stored => Len(stored') < Len(stored)
           /\ \A n \in 1 .. posts : fate[n] = "posting" => fate'[n] = "posting"
<1>1. /\ posts \in Nat /\ fate \in [Messages -> Fates]
      /\ stored \in Seq(Messages) /\ fetched \in Seq(Messages)
      /\ Len(stored) \in Nat /\ Len(fetched) \in Nat
      /\ DOMAIN stored = 1 .. Len(stored) /\ DOMAIN fetched = 1 .. Len(fetched)
      /\ Len(stored) <= MBOX_QUEUE_COUNT /\ posts <= MaxPosts
  BY LenProperties DEF MboxTypes
<1>2. CASE stored # <<>>
  <2> DEFINE m == Head(stored)
  <2>1. /\ fetched' = Append(fetched, m) /\ fate' = [fate EXCEPT ![m] = "fetched"]
        /\ stored' = Tail(stored) /\ waiters' = waiters
    BY <1>2 DEF FetchWait
  <2>2. m \in Messages /\ m = stored[1] /\ Len(stored) >= 1
    BY <1>1, <1>2, HeadTailProperties, EmptySeq
  <2>3. /\ stored' \in Seq(Messages) /\ Len(stored') = Len(stored) - 1
        /\ \A i \in 1 .. Len(stored') : stored'[i] = stored[i + 1]
    BY <1>1, <1>2, <2>1, HeadTailProperties
  <2>4. Distinct(stored')
    BY <1>1, <1>2, <2>1, TailRange
  <2>5. \A i \in 1 .. Len(stored') :
           i + 1 \in 1 .. Len(stored) /\ stored'[i] = stored[i + 1] /\ stored'[i] # m
    BY <1>1, <1>2, <2>1, TailEntries
  <2>6. /\ fetched' \in Seq(Messages) /\ Len(fetched') = Len(fetched) + 1
        /\ \A i \in 1 .. Len(fetched) : fetched'[i] = fetched[i]
        /\ fetched'[Len(fetched) + 1] = m
    BY <1>1, <2>1, <2>2, AppendProperties
  <2>7. fetched' \o stored' = fetched \o stored
    BY <1>1, <1>2, <2>1, <2>2, ArrivalsAppend
  <2>8. fate[m] = "stored" /\ m \in 1 .. posts
    BY <1>1, <2>2 DEF FateInv
  <2> HIDE DEF m
  <2>9. fate' \in [Messages -> Fates] /\ fate'[m] = "fetched"
        /\ \A n \in Messages \ {m} : fate'[n] = fate[n]
    BY <1>1, <2>1, <2>2 DEF Fates
  <2>10. FateInv'
    <3>1. \A i \in 1 .. Len(stored') : stored'[i] \in 1 .. posts' /\ fate'[stored'[i]] = "stored"
      BY <1>1, <2>5, <2>9 DEF FateInv, Messages
    <3>2. \A i \in 1 .. Len(fetched') : fetched'[i] \in 1 .. posts' /\ fate'[fetched'[i]] = "fetched"
      <4> DEFINE A == {n \in 1 .. posts' : fate'[n] = "fetched"}
      <4>1. m \in A /\ \A i \in 1 .. Len(fetched) : fetched[i] \in A
        BY <1>1, <2>8, <2>9 DEF FateInv, Messages
      <4> HIDE DEF A
      <4>2. \A i \in 1 .. Len(fetched') : fetched'[i] \in A
        BY <1>1, <2>1, <2>2, <4>1, AppendEntries
      <4> QED
        BY <4>2 DEF A
    <3>3. \A n \in Messages : n > posts' => fate'[n] = "none"
      BY <1>1, <2>8, <2>9 DEF FateInv
    <3> QED
      BY <3>1, <3>2, <3>3 DEF FateInv
  <2>11. WaitsOnlyWhileEmpty'
    BY <1>2, <2>1 DEF WaitsOnlyWhileEmpty
  <2>12. \A n \in 1 .. posts : fate[n] = "posting" => fate'[n] = "posting"
    BY <1>1, <2>8, <2>9 DEF Messages
  <2>13. Len(stored') <= MBOX_QUEUE_COUNT /\ Len(stored') < Len(stored)
    BY <1>1, <2>3 DEF MboxAssumption
  <2> QED
    BY <1>1, <2>1, <2>3, <2>4, <2>6, <2>7, <2>9, <2>10, <2>11, <2>12, <2>13 DEF MboxTypes
<1>3. CASE stored = <<>>
  <2>1. waiters' = Append(waiters, t) /\ UNCHANGED <<stored, fetched, fate>>
    BY <1>3 DEF FetchWait
  <2>2. waiters' \in Seq(Fetchers \cup TryFetchers)
    BY <2>1, AppendProperties DEF MboxTypes
  <2> QED
    BY <1>1, <1>3, <2>1, <2>2 DEF MboxTypes, FateInv, WaitsOnlyWhileEmpty, Distinct
<1> QED
  BY <1>2, <1>3

LEMMA MboxBegins == MboxInit => MboxIInv
<1> SUFFICES ASSUME MboxInit PROVE MboxIInv
  OBVIOUS
<1>1. /\ stored = <<>> /\ fetched = <<>> /\ waiters = <<>> /\ by = <<>>
      /\ posts = 0 /\ posting = [t \in TryPosters |-> 0] /\ peeking = {}
      /\ fate = [m \in Messages |-> "none"]
  BY DEF MboxInit
<1>2. /\ stored \in Seq(Messages) /\ Len(stored) = 0 /\ DOMAIN stored = {}
      /\ fetched \in Seq(Messages) /\ Len(fetched) = 0
      /\ waiters \in Seq(Fetchers \cup TryFetchers)
      /\ by \in Seq(Posters \cup TryPosters) /\ Len(by) = 0
  BY <1>1, EmptySeq, LenProperties
<1>3. fetched \o stored = <<>>
  BY <1>1, <1>2, ConcatEmptySeq
<1>4. MboxTypes
  BY <1>1, <1>2, MboxAssumption DEF MboxTypes, Fates
<1> QED
  BY <1>1, <1>2, <1>3, <1>4
     DEF MboxIInv, FateInv, PostingInv, WaitsOnlyWhileEmpty, Distinct, InOrder

\* What a task in sys_mbox_trypost() relies on outlives the posts of others.
LEMMA WakeupLeavesPosting ==
    ASSUME MboxAssumption, MboxTypes, FateInv, PostingInv, NEW m \in Messages, Wakeup(m),
           posts' \in Nat, posts <= posts',
           \A n \in 1 .. posts : by'[n] = by[n],
           posts' # posts => m = posts + 1 /\ posts' = posts + 1,
           NEW u \in TryPosters, posting[u] # 0, by'[m] # u
    PROVE  /\ posting[u] \in 1 .. posts'
           /\ by'[posting[u]] = u
           /\ fate'[posting[u]] = "posting"
           /\ \A n \in 1 .. posts' : by'[n] = u => n <= posting[u]
           /\ Len(stored') < MBOX_QUEUE_COUNT \/ by'[stored'[Len(stored')]] # u
<1>1. /\ posting[u] \in 1 .. posts /\ by[posting[u]] = u
      /\ fate[posting[u]] = "posting"
      /\ \A n \in 1 .. posts : by[n] = u => n <= posting[u]
      /\ Len(stored) < MBOX_QUEUE_COUNT \/ by[stored[Len(stored)]] # u
  BY DEF PostingInv
<1>2. /\ posts \in Nat /\ posts <= MaxPosts /\ fate \in [Messages -> Fates]
      /\ stored \in Seq(Messages) /\ Len(stored) \in Nat
      /\ MBOX_QUEUE_COUNT \in Nat \ {0}
  BY LenProperties DEF MboxTypes, MboxAssumption
<1>3. posting[u] # m /\ posting[u] \in Messages /\ posting[u] \in 1 .. posts'
  BY <1>1, <1>2 DEF MboxAssumption, Messages
<1>4. fate'[posting[u]] = "posting"
  <2>1. \E f \in Fates : fate' = [fate EXCEPT ![m] = f]
    BY DEF Wakeup, Fates
  <2> QED
    BY <1>1, <1>2, <1>3, <2>1
<1>5. \A n \in 1 .. posts' : by'[n] = u => n <= posting[u]
  BY <1>1, <1>2
<1>6. Len(stored') < MBOX_QUEUE_COUNT \/ by'[stored'[Len(stored')]] # u
  <2>1. stored' = stored \/ stored' = Append(stored, m)
    BY DEF Wakeup
  <2>2. CASE stored' = stored
    <3>1. Len(stored) >= 1 => stored[Len(stored)] \in 1 .. posts
      BY <1>2 DEF FateInv
    <3> QED
      BY <1>1, <1>2, <2>2, <3>1
  <2>3. CASE stored' = Append(stored, m)
    <3>1. stored'[Len(stored')] = m
      BY <1>2, <2>3, AppendProperties
    <3> QED
      BY <3>1
  <2> QED
    BY <2>1, <2>2, <2>3
<1> QED
  BY <1>1, <1>3, <1>4, <1>5, <1>6

LEMMA MboxKept ==
    ASSUME MboxAssumption, MboxIInv, MboxNext
    PROVE  MboxIInv'
<1>0. /\ MboxTypes /\ FateInv /\ PostingInv /\ WaitsOnlyWhileEmpty
      /\ Distinct(stored) /\ InOrder(by, fetched \o stored)
  BY DEF MboxIInv
<1>1. /\ posts \in Nat /\ posts <= MaxPosts /\ MaxPosts \in Nat
      /\ by \in Seq(Posters \cup TryPosters) /\ Len(by) = posts
      /\ posting \in [TryPosters -> 0 .. MaxPosts]
      /\ stored \in Seq(Messages) /\ Len(stored) \in Nat
      /\ peeking \subseteq TryFetchers
      /\ MBOX_QUEUE_COUNT \in Nat \ {0}
  BY <1>0, LenProperties DEF MboxTypes, MboxAssumption
<1>2. ASSUME NEW t \in Posters \cup TryPosters, by' = Append(by, t)
      PROVE  /\ by' \in Seq(Posters \cup TryPosters) /\ Len(by') = posts + 1
             /\ \A n \in 1 .. posts : by'[n] = by[n]
             /\ by'[posts + 1] = t
  BY <1>1, <1>2, AppendProperties
<1>3. ASSUME NEW t \in Posters, Post(t)
      PROVE  MboxIInv'
  <2>1. /\ posts < MaxPosts /\ posts' = posts + 1 /\ by' = Append(by, t)
        /\ Wakeup(posts + 1) /\ UNCHANGED <<posting, peeking>>
    BY <1>3 DEF Post
  <2>2. /\ by' \in Seq(Posters \cup TryPosters) /\ Len(by') = posts'
        /\ \A n \in 1 .. posts : by'[n] = by[n]
        /\ by'[posts + 1] = t
    BY <1>2, <2>1
  <2>3. posts + 1 \in Messages /\ posts + 1 \in 1 .. posts' /\ fate[posts + 1] = "none"
    BY <1>0, <1>1, <2>1 DEF FateInv, Messages
  <2>4. /\ fate' \in [Messages -> Fates]
        /\ stored' \in Seq(Messages) /\ Len(stored') <= MBOX_QUEUE_COUNT
        /\ waiters' \in Seq(Fetchers \cup TryFetchers)
        /\ fetched' \in Seq(Messages)
        /\ FateInv' /\ WaitsOnlyWhileEmpty' /\ Distinct(stored)'
        /\ InOrder(by', fetched' \o stored')
    BY <1>0, <1>1, <2>1, <2>2, <2>3, WakeupKeeps
  <2>5. PostingInv'
    <3> SUFFICES ASSUME NEW u \in TryPosters, posting'[u] # 0
                 PROVE  /\ posting'[u] \in 1 .. posts'
                        /\ by'[posting'[u]] = u
                        /\ fate'[posting'[u]] = "posting"
                        /\ \A n \in 1 .. posts' : by'[n] = u => n <= posting'[u]
                        /\ Len(stored') < MBOX_QUEUE_COUNT \/ by'[stored'[Len(stored')]] # u
      BY DEF PostingInv
    <3>1. posting'[u] = posting[u] /\ posting[u] # 0 /\ by'[posts + 1] # u
      BY <2>1, <2>2 DEF MboxAssumption
    <3>2. posts' \in Nat /\ posts <= posts'
      BY <1>1, <2>1
    <3>3. /\ posting[u] \in 1 .. posts'
          /\ by'[posting[u]] = u
          /\ fate'[posting[u]] = "posting"
          /\ \A n \in 1 .. posts' : by'[n] = u => n <= posting[u]
          /\ Len(stored') < MBOX_QUEUE_COUNT \/ by'[stored'[Len(stored')]] # u
      BY <1>0, <2>1, <2>2, <2>3, <3>1, <3>2, WakeupLeavesPosting
    <3> QED
      BY <3>1, <3>3
  <2> QED
    BY <1>1, <2>1, <2>2, <2>4, <2>5 DEF MboxIInv, MboxTypes, Distinct
<1>4. ASSUME NEW t \in TryPosters, TryPostLook(t)
      PROVE  MboxIInv'
  <2>1. /\ posts < MaxPosts /\ posts' = posts + 1 /\ by' = Append(by, t)
        /\ posting' = [posting EXCEPT ![t] = IF RoomFor THEN posts + 1 ELSE 0]
        /\ fate' = [fate EXCEPT ![posts + 1] = IF RoomFor THEN "posting" ELSE "refused"]
        /\ UNCHANGED <<stored, waiters, peeking, fetched>>
    BY <1>4 DEF TryPostLook
  <2>2. /\ by' \in Seq(Posters \cup TryPosters) /\ Len(by') = posts'
        /\ \A n \in 1 .. posts : by'[n] = by[n]
        /\ by'[posts + 1] = t
    BY <1>2, <2>1
  <2>3. /\ fate' \in [Messages -> Fates] /\ posts + 1 \in Messages
        /\ fate'[posts + 1] = IF RoomFor THEN "posting" ELSE "refused"
        /\ \A n \in Messages \ {posts + 1} : fate'[n] = fate[n]
    BY <1>0, <1>1, <2>1 DEF MboxTypes, Fates, Messages
  <2>4. posting' \in [TryPosters -> 0 .. MaxPosts]
    BY <1>1, <2>1
  <2>5. MboxTypes' /\ WaitsOnlyWhileEmpty' /\ Distinct(stored')
    BY <1>0, <1>1, <2>1, <2>2, <2>3, <2>4 DEF MboxTypes, WaitsOnlyWhileEmpty, Distinct
  <2>6. FateInv'
    BY <1>0, <1>1, <2>1, <2>3 DEF FateInv, Messages
  <2>7. InOrder(by', fetched' \o stored')
    <3> DEFINE all == fetched \o stored
    <3>1. \A i \in DOMAIN all : all[i] \in 1 .. posts
      BY <1>0, ArrivedWerePosted
    <3>2. InOrder(by, all) /\ all' = all
      BY <1>0, <2>1
    <3> HIDE DEF all
    <3>3. InOrder(by', all)
      BY <2>2, <3>1, <3>2 DEF InOrder
    <3> QED
      BY <2>1, <3>3 DEF all
  <2>8. PostingInv'
    <3> SUFFICES ASSUME NEW u \in TryPosters, posting'[u] # 0
                 PROVE  /\ posting'[u] \in 1 .. posts'
                        /\ by'[posting'[u]] = u
                        /\ fate'[posting'[u]] = "posting"
                        /\ \A n \in 1 .. posts' : by'[n] = u => n <= posting'[u]
                        /\ Len(stored') < MBOX_QUEUE_COUNT \/ by'[stored'[Len(stored')]] # u
      BY DEF PostingInv
    <3>1. CASE u = t
      <4>1. RoomFor /\ posting'[u] = posts + 1
        BY <1>1, <2>1, <3>1
      <4> QED
        BY <1>1, <2>1, <2>2, <2>3, <3>1, <4>1 DEF RoomFor
    <3>2. CASE u # t
      <4>1. posting'[u] = posting[u] /\ posting[u] # 0
        BY <1>1, <2>1, <3>2
      <4>2. /\ posting[u] \in 1 .. posts /\ by[posting[u]] = u
            /\ fate[posting[u]] = "posting"
            /\ \A n \in 1 .. posts : by[n] = u => n <= posting[u]
            /\ Len(stored) < MBOX_QUEUE_COUNT \/ by[stored[Len(stored)]] # u
        BY <1>0, <4>1 DEF PostingInv
      <4>3. fate'[posting[u]] = "posting"
        BY <1>1, <2>3, <4>2 DEF Messages
      <4>4. Len(stored) >= 1 => stored[Len(stored)] \in 1 .. posts
        BY <1>0, <1>1 DEF FateInv
      <4>5. Len(stored') < MBOX_QUEUE_COUNT \/ by'[stored'[Len(stored')]] # u
        BY <1>1, <2>1, <2>2, <4>2, <4>4
      <4>6. \A n \in 1 .. posts' : by'[n] = u => n <= posting[u]
        BY <1>1, <2>1, <2>2, <3>2, <4>2
      <4>7. posting[u] \in 1 .. posts' /\ by'[posting[u]] = u
        BY <1>1, <2>1, <2>2, <4>2
      <4> QED
        BY <4>1, <4>3, <4>5, <4>6, <4>7
    <3> QED
      BY <3>1, <3>2
  <2> QED
    BY <2>5, <2>6, <2>7, <2>8 DEF MboxIInv
<1>5. ASSUME NEW t \in TryPosters, TryPost(t)
      PROVE  MboxIInv'
  <2> DEFINE m == posting[t]
  <2>1. /\ m # 0 /\ Wakeup(m) /\ posting' = [posting EXCEPT ![t] = 0]
        /\ UNCHANGED <<posts, by, peeking>>
    BY <1>5 DEF TryPost
  <2>2. m \in Messages /\ m \in 1 .. posts /\ fate[m] = "posting" /\ by[m] = t
        /\ \A n \in 1 .. posts : by[n] = t => n <= m
    BY <1>0, <1>1, <2>1 DEF PostingInv, Messages
  <2>3. /\ by' \in Seq(Posters \cup TryPosters) /\ posts' \in Nat /\ posts <= posts'
        /\ \A n \in 1 .. posts : by'[n] = by[n]
        /\ m \in 1 .. posts'
        /\ \A n \in 1 .. posts : by[n] = by'[m] => n <= m
    BY <1>1, <2>1, <2>2
  <2> HIDE DEF m
  <2>4. /\ fate' \in [Messages -> Fates]
        /\ stored' \in Seq(Messages) /\ Len(stored') <= MBOX_QUEUE_COUNT
        /\ waiters' \in Seq(Fetchers \cup TryFetchers)
        /\ fetched' \in Seq(Messages)
        /\ FateInv' /\ WaitsOnlyWhileEmpty' /\ Distinct(stored)'
        /\ InOrder(by', fetched' \o stored')
    BY <1>0, <1>1, <2>1, <2>2, <2>3, WakeupKeeps
  <2>5. PostingInv'
    <3> SUFFICES ASSUME NEW u \in TryPosters, posting'[u] # 0
                 PROVE  /\ posting'[u] \in 1 .. posts'
                        /\ by'[posting'[u]] = u
                        /\ fate'[posting'[u]] = "posting"
                        /\ \A n \in 1 .. posts' : by'[n] = u => n <= posting'[u]
                        /\ Len(stored') < MBOX_QUEUE_COUNT \/ by'[stored'[Len(stored')]] # u
      BY DEF PostingInv
    <3>1. u # t /\ posting'[u] = posting[u] /\ by'[m] # u
      BY <1>1, <2>1, <2>2
    <3> QED
      BY <1>0, <1>1, <2>1, <2>2, <2>3, <3>1, WakeupLeavesPosting
  <2> QED
    BY <1>1, <2>1, <2>4, <2>5 DEF MboxIInv, MboxTypes, Distinct
<1>6. ASSUME NEW t \in Fetchers \cup TryFetchers, FetchWait(t),
             UNCHANGED <<posts, by, posting>>, peeking' \subseteq TryFetchers
      PROVE  MboxIInv'
  <2>1. /\ fate' \in [Messages -> Fates]
        /\ stored' \in Seq(Messages) /\ Len(stored') <= MBOX_QUEUE_COUNT
        /\ waiters' \in Seq(Fetchers \cup TryFetchers)
        /\ fetched' \in Seq(Messages)
        /\ FateInv' /\ WaitsOnlyWhileEmpty' /\ Distinct(stored')
        /\ InOrder(by', fetched' \o stored')
        /\ stored' # stored => Len(stored') < Len(stored)
        /\ \A n \in 1 .. posts : fate[n] = "posting" => fate'[n] = "posting"
    BY <1>0, <1>6, FetchKeeps
  <2>2. Len(stored') \in Nat
    BY <2>1, LenProperties
  <2>3. PostingInv'
    <3> SUFFICES ASSUME NEW u \in TryPosters, posting'[u] # 0
                 PROVE  /\ posting'[u] \in 1 .. posts'
                        /\ by'[posting'[u]] = u
                        /\ fate'[posting'[u]] = "posting"
                        /\ \A m \in 1 .. posts' : by'[m] = u => m <= posting'[u]
                        /\ Len(stored') < MBOX_QUEUE_COUNT \/ by'[stored'[Len(stored')]] # u
      BY DEF PostingInv
    <3>1. /\ posting[u] \in 1 .. posts /\ by[posting[u]] = u
          /\ fate[posting[u]] = "posting"
          /\ \A m \in 1 .. posts : by[m] = u => m <= posting[u]
          /\ Len(stored) < MBOX_QUEUE_COUNT \/ by[stored[Len(stored)]] # u
      BY <1>0, <1>6 DEF PostingInv
    <3>2. Len(stored') < MBOX_QUEUE_COUNT \/ by'[stored'[Len(stored')]] # u
      BY <1>0, <1>1, <1>6, <2>1, <2>2, <3>1 DEF MboxTypes
    <3> QED
      BY <1>6, <2>1, <3>1, <3>2
  <2> QED
    BY <1>0, <1>6, <2>1, <2>3 DEF MboxIInv, MboxTypes
<1>7. ASSUME NEW t \in Fetchers, Fetch(t)
      PROVE  MboxIInv'
  BY <1>1, <1>6, <1>7 DEF Fetch
<1>8. ASSUME NEW t \in TryFetchers, TryFetch(t)
      PROVE  MboxIInv'
  BY <1>1, <1>6, <1>8 DEF TryFetch
<1>9. ASSUME NEW t \in Fetchers, FetchTimesOut(t)
      PROVE  MboxIInv'
  <2>1. PICK i \in 1 .. Len(waiters) : waiters' = RemoveAt(waiters, i)
    BY <1>9 DEF FetchTimesOut
  <2>2. waiters \in Seq(Fetchers \cup TryFetchers) /\ waiters # <<>>
    BY <1>0, <2>1, EmptySeq DEF MboxTypes
  <2>3. waiters' \in Seq(Fetchers \cup TryFetchers)
    BY <2>1, <2>2, RemoveAtEntries
  <2>4. stored = <<>> /\ UNCHANGED <<posts, by, fate, posting, stored, peeking, fetched>>
    BY <1>0, <1>9, <2>2 DEF FetchTimesOut, WaitsOnlyWhileEmpty
  <2> QED
    BY <1>0, <2>3, <2>4
       DEF MboxIInv, MboxTypes, FateInv, PostingInv, WaitsOnlyWhileEmpty, Distinct
<1>10. ASSUME NEW t \in TryFetchers, TryFetchLook(t)
       PROVE  MboxIInv'
  BY <1>0, <1>10
     DEF TryFetchLook, MboxIInv, MboxTypes, FateInv, PostingInv, WaitsOnlyWhileEmpty, Distinct
<1> QED
  BY <1>3, <1>4, <1>5, <1>7, <1>8, <1>9, <1>10 DEF MboxNext

LEMMA MboxStutters == ASSUME MboxIInv, UNCHANGED mboxVars PROVE MboxIInv'
BY DEF mboxVars, MboxIInv, MboxTypes, FateInv, PostingInv, WaitsOnlyWhileEmpty, Distinct,
       InOrder

LEMMA MboxInvariance == MboxSpec => []MboxIInv
<1> USE MboxAssumption
<1>1. MboxIInv /\ [MboxNext]_mboxVars => MboxIInv'
  BY MboxKept, MboxStutters
<1> QED
  BY <1>1, MboxBegins, PTL DEF MboxSpec

\* A mailbox of sys_arch.c, for any number of tasks, messages and places: the
\* messages of a task arrive in the order of its posts, none twice, and none
\* is stored behind the back of a task that waits.
THEOREM MboxInvariant == MboxSpec => []MboxInv
<1>1. ASSUME MboxIInv
      PROVE  MboxInv
  <2>1. stored \in BoundedSeq(Messages, MBOX_QUEUE_COUNT)
    BY <1>1, MboxAssumption, BoundedSequences DEF MboxIInv, MboxTypes
  <2>2. by \in [1 .. posts -> Posters \cup TryPosters]
    BY <1>1, LenProperties DEF MboxIInv, MboxTypes
  <2>3. ArriveInOrder
    BY <1>1 DEF MboxIInv, ArriveInOrder, InOrder
  <2> QED
    BY <1>1, <2>1, <2>2, <2>3 DEF MboxIInv, MboxInv, MboxTypes, MboxTypeOK
<1> QED
  BY <1>1, MboxInvariance, PTL

\* sys_mbox_trypost() asks for room in one call and posts in another; a
\* message it then loses is lost to one of another task.
THEOREM MboxLostToAnother == MboxSpec => LostToAnother
<1> USE MboxAssumption
<1> DEFINE Lost == \A t \in TryPosters :
                      posting[t] # 0 /\ fate'[posting[t]] = "lost" =>
                          \E m \in Messages : fate[m] = "stored" /\ by[m] # t
<1>1. ASSUME MboxIInv, [MboxNext]_mboxVars
      PROVE  Lost
  <2> SUFFICES ASSUME NEW t \in TryPosters, posting[t] # 0, fate'[posting[t]] = "lost"
               PROVE  \E m \in Messages : fate[m] = "stored" /\ by[m] # t
    OBVIOUS
  <2>1. /\ posting[t] \in 1 .. posts /\ by[posting[t]] = t /\ fate[posting[t]] = "posting"
        /\ Len(stored) < MBOX_QUEUE_COUNT \/ by[stored[Len(stored)]] # t
        /\ Len(stored) \in Nat /\ posts \in Nat /\ posts <= MaxPosts
        /\ MBOX_QUEUE_COUNT \in Nat \ {0} /\ MaxPosts \in Nat
        /\ fate \in [Messages -> Fates]
    BY <1>1, LenProperties DEF MboxIInv, PostingInv, MboxTypes, MboxAssumption
  <2>2. posting[t] \in Messages /\ posting[t] # posts + 1
    BY <2>1 DEF Messages
  <2>3. ASSUME NEW m \in Messages, Wakeup(m), m # posting[t]
        PROVE  FALSE
    BY <2>1, <2>2, <2>3 DEF Wakeup
  <2>4. ASSUME NEW u \in Fetchers \cup TryFetchers, FetchWait(u)
        PROVE  FALSE
    BY <2>1, <2>2, <2>4 DEF FetchWait
  <2>5. TryPost(t)
    <3>1. ASSUME NEW u \in Posters, Post(u) PROVE FALSE
      <4>1. posts + 1 \in Messages
        BY <2>1, <3>1 DEF Post, Messages
      <4> QED
        BY <2>2, <2>3, <3>1, <4>1 DEF Post
    <3>2. ASSUME NEW u \in TryPosters, TryPostLook(u) PROVE FALSE
      BY <2>1, <2>2, <3>2 DEF TryPostLook
    <3>3. ASSUME NEW u \in TryPosters, TryPost(u), u # t PROVE FALSE
      <4>1. posting[u] # 0 /\ Wakeup(posting[u])
        BY <3>3 DEF TryPost
      <4>2. posting[u] \in 1 .. posts /\ by[posting[u]] = u
        BY <1>1, <4>1 DEF MboxIInv, PostingInv
      <4>3. posting[u] \in Messages /\ posting[u] # posting[t]
        BY <2>1, <3>3, <4>2 DEF Messages
      <4> QED
        BY <2>3, <4>1, <4>3
    <3>4. ASSUME NEW u \in Fetchers, Fetch(u) \/ FetchTimesOut(u) PROVE FALSE
      BY <2>1, <2>4, <3>4 DEF Fetch, FetchTimesOut
    <3>5. ASSUME NEW u \in TryFetchers, TryFetchLook(u) \/ TryFetch(u) PROVE FALSE
      BY <2>1, <2>4, <3>5 DEF TryFetchLook, TryFetch
    <3>6. CASE UNCHANGED mboxVars
      BY <2>1, <3>6 DEF mboxVars
    <3> QED
      BY <1>1, <3>1, <3>2, <3>3, <3>4, <3>5, <3>6 DEF MboxNext
  <2>6. ~ (Len(stored) < MBOX_QUEUE_COUNT)
    BY <2>1, <2>2, <2>5 DEF TryPost, Wakeup
  <2>7. stored[Len(stored)] \in Messages /\ fate[stored[Len(stored)]] = "stored"
    BY <1>1, <2>1, <2>6 DEF MboxIInv, FateInv, Messages
  <2> QED
    BY <2>1, <2>6, <2>7
<1>2. MboxIInv /\ [MboxNext]_mboxVars => [Lost]_mboxVars
  BY <1>1
<1> QED
  BY <1>2, MboxInvariance, PTL DEF MboxSpec, LostToAnother

-----------------------------------------------------------------------------
(* The tables. *)

\* What a task relies on at each of its steps: the mutex while it looks for
\* an entry and takes it, an entry of its own until it has freed it, and the
\* registration of its event.
OwnerRelies(o) ==
    /\ step[o] \in {"look", "take", "register"} <=> newlock = o
    /\ step[o] \in {"take", "register", "own", "valid", "use", "invalid"} => ptr[o] \in Slots
    /\ step[o] = "take" => ~ use[ptr[o]]
    /\ step[o] \in {"register", "own", "valid", "use"} => use[ptr[o]]
    /\ step[o] \in {"register", "valid", "use"} => registered[ptr[o]] = 0
    /\ step[o] = "own" => registered[ptr[o]] = 1

SlotTypes ==
    /\ use \in [Slots -> BOOLEAN] /\ valid \in [Slots -> BOOLEAN]
    /\ registered \in [Slots -> Nat]
    /\ ptr \in [Owners -> Slots \cup {NoSlot}]
    /\ step \in [Owners -> {"idle", "look", "take", "register", "own", "valid", "use", "invalid"}]
    /\ newlock \in Owners \cup {Nobody}

SlotInv ==
    /\ SlotTypes
    /\ \A o \in Owners : OwnerRelies(o)
    /\ OneOwner
    /\ \A s \in Slots : ~ use[s] => registered[s] = 0

\* The threads that have been created are those that are counted and the one
\* that is being created, which alone may not have read its function yet: the
\* place it reads is the one that was filled for it.
ThreadInv ==
    /\ lwip_thread_num \in 0 .. MaxThreads
    /\ lwip_thread_func \in [0 .. MaxThreads - 1 -> Functions \cup {NoFunction}]
    /\ creating \in BOOLEAN
    /\ DOMAIN runs = 0 .. IF creating THEN lwip_thread_num ELSE lwip_thread_num - 1
    /\ runs \in [DOMAIN runs -> [for : Functions, runs : Functions \cup {NoFunction}]]
    /\ ThreadsRunTheirFunction
    /\ \A t \in DOMAIN runs : Starting(t) => creating /\ t = lwip_thread_num
    /\ creating => /\ lwip_thread_num < MaxThreads
                   /\ lwip_thread_func[lwip_thread_num] = runs[lwip_thread_num].for

NetTableIInv == SlotInv /\ ThreadInv

LEMMA NetTableBegins == NetTableInit => NetTableIInv
<1> SUFFICES ASSUME NetTableInit PROVE NetTableIInv
  OBVIOUS
<1> USE NetTableAssumption DEF NetTableInit
<1>1. SlotInv
  BY DEF SlotInv, SlotTypes, OwnerRelies, OneOwner, Holding
<1>2. DOMAIN runs = {} /\ runs \in [{} -> [for : Functions, runs : Functions \cup {NoFunction}]]
  OBVIOUS
<1>3. ThreadInv
  <2>1. DOMAIN runs = 0 .. IF creating THEN lwip_thread_num ELSE lwip_thread_num - 1
    BY <1>2
  <2>2. lwip_thread_num \in 0 .. MaxThreads
    OBVIOUS
  <2>3. creating \in BOOLEAN /\ ~ creating
    OBVIOUS
  <2>4. lwip_thread_func \in [0 .. MaxThreads - 1 -> Functions \cup {NoFunction}]
    OBVIOUS
  <2> QED
    BY <1>2, <2>1, <2>2, <2>3, <2>4 DEF ThreadInv, ThreadsRunTheirFunction
<1> QED
  BY <1>1, <1>3 DEF NetTableIInv

\* A step of a task at its own entry leaves the others what they rely on.
LEMMA SlotsKept ==
    ASSUME NetTableAssumption, SlotInv, NEW o \in Owners, SlotStep(o)
    PROVE  SlotInv'
<1>0. /\ SlotTypes /\ OneOwner
      /\ \A p \in Owners : OwnerRelies(p)
      /\ \A s \in Slots : ~ use[s] => registered[s] = 0
  BY DEF SlotInv
<1>1. CASE NewLock(o)
  BY <1>0, <1>1 DEF NewLock, Goes, SlotInv, SlotTypes, OwnerRelies, OneOwner, Holding,
                    NetTableAssumption
<1>2. CASE NewLook(o)
  <2>1. Min({s \in Slots : ~ use[s]}) \in {s \in Slots : ~ use[s]}
    <3>1. {s \in Slots : ~ use[s]} \subseteq Nat /\ {s \in Slots : ~ use[s]} # {}
      BY <1>2 DEF NewLook, NetTableAssumption
    <3> HIDE DEF NewLook
    <3> QED
      BY <3>1, MinOfNaturals
  <2>2. PICK s \in Slots : ~ use[s] /\ ptr' = [ptr EXCEPT ![o] = s]
    BY <1>2, <2>1 DEF NewLook
  <2>3. /\ step[o] = "look" /\ step' = [step EXCEPT ![o] = "take"]
        /\ UNCHANGED <<use, valid, registered, newlock>>
        /\ s # NoSlot
    BY <1>2 DEF NewLook, Goes, NetTableAssumption
  <2>4. SlotTypes'
    BY <1>0, <2>2, <2>3 DEF SlotTypes
  <2>5. \A p \in Owners : OwnerRelies(p)'
    BY <1>0, <2>2, <2>3 DEF SlotTypes, OwnerRelies
  <2>6. ASSUME NEW p \in Owners \ {o}, Holding(p)
        PROVE  ptr[p] # s
    BY <1>0, <2>2, <2>3, <2>6 DEF SlotTypes, OwnerRelies, Holding
  <2>7. OneOwner'
    BY <1>0, <2>2, <2>3, <2>6 DEF SlotTypes, OneOwner, Holding
  <2> QED
    BY <1>0, <2>3, <2>4, <2>5, <2>7 DEF SlotInv
<1>3. CASE NewFails(o)
  BY <1>0, <1>3 DEF NewFails, Goes, SlotInv, SlotTypes, OwnerRelies, OneOwner, Holding,
                    NetTableAssumption
<1>4. CASE NewTake(o)
  BY <1>0, <1>4 DEF NewTake, Goes, SlotInv, SlotTypes, OwnerRelies, OneOwner, Holding
<1>5. CASE NewRegister(o)
  BY <1>0, <1>5 DEF NewRegister, Goes, SlotInv, SlotTypes, OwnerRelies, OneOwner, Holding,
                    NetTableAssumption
<1>6. CASE FreeUnregister(o)
  BY <1>0, <1>6 DEF FreeUnregister, Goes, SlotInv, SlotTypes, OwnerRelies, OneOwner, Holding
<1>7. CASE FreeValid(o)
  BY <1>0, <1>7 DEF FreeValid, Goes, SlotInv, SlotTypes, OwnerRelies, OneOwner, Holding
<1>8. CASE FreeUse(o)
  BY <1>0, <1>8 DEF FreeUse, Goes, SlotInv, SlotTypes, OwnerRelies, OneOwner, Holding
<1>9. CASE SetInvalid(o)
  BY <1>0, <1>9 DEF SetInvalid, Goes, SlotInv, SlotTypes, OwnerRelies, OneOwner, Holding
<1> QED
  BY <1>1, <1>2, <1>3, <1>4, <1>5, <1>6, <1>7, <1>8, <1>9 DEF SlotStep

LEMMA ThreadsKept ==
    ASSUME NetTableAssumption, ThreadInv, ThreadStep
    PROVE  ThreadInv'
<1> USE NetTableAssumption
<1>1. ASSUME NEW f \in Functions, ThreadNew(f)
      PROVE  ThreadInv'
  BY <1>1 DEF ThreadNew, ThreadInv, ThreadsRunTheirFunction, Starting, NetTableAssumption
<1>2. ASSUME NEW t \in DOMAIN runs, ThreadStarts(t)
      PROVE  ThreadInv'
  BY <1>2 DEF ThreadStarts, ThreadInv, ThreadsRunTheirFunction, Starting, NetTableAssumption
<1>3. CASE ThreadNewEnds
  <2>1. /\ lwip_thread_num \in Nat /\ lwip_thread_num < MaxThreads
        /\ DOMAIN runs = 0 .. lwip_thread_num
        /\ lwip_thread_num' = lwip_thread_num + 1 /\ creating' = FALSE
        /\ UNCHANGED <<lwip_thread_func, runs>>
    BY <1>3 DEF ThreadNewEnds, ThreadInv, NetTableAssumption
  <2>2. DOMAIN runs' = 0 .. lwip_thread_num' - 1
    BY <2>1
  <2>3. \A t \in DOMAIN runs : ~ Starting(t)
    BY <1>3 DEF ThreadNewEnds
  <2>4. lwip_thread_num' \in 0 .. MaxThreads
    BY <2>1 DEF NetTableAssumption
  <2> QED
    BY <2>1, <2>2, <2>3, <2>4 DEF ThreadInv, ThreadsRunTheirFunction, Starting
<1> QED
  BY <1>1, <1>2, <1>3 DEF ThreadStep

\* The semaphores, mailboxes and threads of sys_arch.c, for any number of
\* tasks and entries.
THEOREM NetTableInvariant == NetTableSpec => []NetTableInv
<1> USE NetTableAssumption
<1>1. SlotInv /\ UNCHANGED slotVars => SlotInv'
  BY DEF slotVars, SlotInv, SlotTypes, OwnerRelies, OneOwner, Holding
<1>2. ThreadInv /\ UNCHANGED threadVars => ThreadInv'
  BY DEF threadVars, ThreadInv, ThreadsRunTheirFunction, Starting
<1>3. NetTableIInv /\ [NetTableNext]_netTableVars => NetTableIInv'
  BY <1>1, <1>2, SlotsKept, ThreadsKept
     DEF NetTableIInv, NetTableNext, netTableVars, slotVars, threadVars
<1>4. NetTableIInv => NetTableInv
  BY DEF NetTableIInv, NetTableInv, NetTableTypeOK, SlotInv, SlotTypes, ThreadInv,
         RegisteredWhileOwned, OwnerRelies
<1> QED
  BY <1>3, <1>4, NetTableBegins, PTL DEF NetTableSpec

-----------------------------------------------------------------------------
(* The frames that are received. *)

LwipThreads == {"devif", "tcpip", "app"}

\* The core lock by itself: who waits does not hold it, stands in the line
\* once, and nobody waits for a lock that is free.
CoreLine ==
    /\ core \in LwipThreads \cup {NoThread}
    /\ coreWaiters \in Seq(LwipThreads)
    /\ Distinct(coreWaiters)
    /\ core \notin Range(coreWaiters)
    /\ core = NoThread => coreWaiters = <<>>

\* Who waits for the lock has asked for it, and is stopped there.
WaitsWhereItAsked ==
    /\ Waits("devif") => devif = "read"
    /\ Waits("tcpip") => tcpip = "handle"
    /\ Waits("app") => app = "locking"

\* A pbuf has a frame in the hands of devif_thread() only while that frame is
\* given to lwIP, and in those of tcpip_thread() until it has been handled.
FramesInHand ==
    /\ inFrame <=> devif = "input"
    /\ outFrame => tcpip \in {"lock", "handle"}

FrameTypes ==
    /\ ring \in 0 .. ETH_RXBUFNB /\ events \in 0 .. ETH_RXBUFNB
    /\ irq \in BOOLEAN /\ starved \in BOOLEAN
    /\ inFrame \in BOOLEAN /\ outFrame \in BOOLEAN
    /\ devif \in {"select", "waiting", "lock", "read", "input", "unlock"}
    /\ tcpip \in {"fetch", "waiting", "lock", "handle"}
    /\ app \in {"idle", "locking"}
    /\ tcpip_mbox \in 0 .. 1 /\ pool \in Nat /\ kept \in Nat

FramesInv == FrameTypes /\ FramesInHand /\ PbufsAccountedFor
LineInv == CoreLine /\ WaitsWhereItAsked /\ CoreIsHeld

NetInputIInv == FramesInv /\ LineInv

\* At most two wait, as one of the three has the lock.
LEMMA LineIsShort ==
    ASSUME NEW c \in LwipThreads \cup {NoThread}, NEW q \in Seq(LwipThreads),
           Distinct(q), c \notin Range(q), c = NoThread => q = <<>>
    PROVE  q \in BoundedSeq({"devif", "tcpip", "app"}, 2)
<1>1. Len(q) \in Nat /\ DOMAIN q = 1 .. Len(q)
  BY LenProperties
<1>2. ASSUME Len(q) > 2
      PROVE  FALSE
  <2>1. 1 \in DOMAIN q /\ 2 \in DOMAIN q /\ 3 \in DOMAIN q
    BY <1>1, <1>2
  <2>2. c \in LwipThreads
    BY <2>1, EmptySeq
  <2>3. \A i \in {1, 2, 3} : q[i] \in LwipThreads /\ q[i] # c
    BY <1>1, <2>1, ElementOfSeq DEF Range
  <2>4. q[1] # q[2] /\ q[1] # q[3] /\ q[2] # q[3]
    BY <2>1 DEF Distinct
  <2> QED
    BY <2>2, <2>3, <2>4 DEF LwipThreads
<1>3. q \in Seq({"devif", "tcpip", "app"}) /\ Len(q) <= 2
  BY <1>1, <1>2 DEF LwipThreads
<1> QED
  BY <1>3, BoundedSequences

LEMMA WaitsRange ==
    ASSUME CoreLine, NEW t
    PROVE  Waits(t) <=> t \in Range(coreWaiters)
BY ContainsRange DEF CoreLine, Waits

LEMMA LockKeepsLine ==
    ASSUME NetInputAssumption, CoreLine, NEW t \in LwipThreads, ~ Waits(t), LockCore(t)
    PROVE  /\ CoreLine'
           /\ core' = t \/ Waits(t)'
           /\ \A u \in LwipThreads \ {t} : Waits(u)' <=> Waits(u)
           /\ core \in LwipThreads => core' = core
<1>1. CASE core \in {NoThread, t}
  <2>1. core' = t /\ coreWaiters' = coreWaiters
    BY <1>1 DEF LockCore
  <2>2. t \notin Range(coreWaiters)
    BY WaitsRange
  <2> QED
    BY <1>1, <2>1, <2>2 DEF CoreLine, Waits, NetInputAssumption, LwipThreads
<1>2. CASE core \notin {NoThread, t}
  <2>1. core' = core /\ coreWaiters' = Append(coreWaiters, t)
    BY <1>2 DEF LockCore
  <2>2. t \notin Range(coreWaiters) /\ coreWaiters \in Seq(LwipThreads) /\ Distinct(coreWaiters)
    BY WaitsRange DEF CoreLine
  <2>3. /\ coreWaiters' \in Seq(LwipThreads)
        /\ Range(coreWaiters') = Range(coreWaiters) \cup {t}
        /\ Distinct(coreWaiters')
    BY <2>1, <2>2, AppendRange, AppendProperties
  <2>4. CoreLine'
    BY <1>2, <2>1, <2>3 DEF CoreLine
  <2>5. \A u : Waits(u)' <=> u \in Range(coreWaiters')
    BY <2>3, ContainsRange DEF Waits
  <2> QED
    BY <2>1, <2>3, <2>4, <2>5, WaitsRange
<1> QED
  BY <1>1, <1>2

LEMMA UnlockKeepsLine ==
    ASSUME NetInputAssumption, CoreLine, NEW t \in LwipThreads, core = t, UnlockCore(t)
    PROVE  /\ CoreLine'
           /\ ~ Waits(t)'
           /\ \A u \in LwipThreads : Waits(u)' => Waits(u)
           /\ \A u \in LwipThreads : Waits(u) /\ ~ Waits(u)' => core' = u
<1>1. CASE coreWaiters = <<>>
  <2>1. core' = NoThread /\ coreWaiters' = coreWaiters
    BY <1>1 DEF UnlockCore
  <2>2. ~ Waits(t)
    BY WaitsRange DEF CoreLine
  <2>3. NoThread \notin Range(coreWaiters)
    BY <1>1, EmptySeq DEF Range
  <2> QED
    BY <1>1, <2>1, <2>2, <2>3 DEF CoreLine, Waits
<1>2. CASE coreWaiters # <<>>
  <2>1. core' = Head(coreWaiters) /\ coreWaiters' = Tail(coreWaiters)
    BY <1>2 DEF UnlockCore
  <2>2. /\ coreWaiters' \in Seq(LwipThreads)
        /\ core' \in LwipThreads
        /\ Range(coreWaiters') = Range(coreWaiters) \ {core'}
        /\ Distinct(coreWaiters')
    BY <1>2, <2>1, TailRange DEF CoreLine
  <2>3. CoreLine'
    BY <2>2 DEF CoreLine, NetInputAssumption, LwipThreads
  <2>4. \A u : Waits(u)' <=> u \in Range(coreWaiters')
    BY <2>2, ContainsRange DEF Waits
  <2>5. \A u : Waits(u) <=> u \in Range(coreWaiters)
    BY WaitsRange
  <2> QED
    BY <2>2, <2>3, <2>4, <2>5 DEF CoreLine
<1> QED
  BY <1>1, <1>2

LEMMA OneOrNone == \A present : One(present) \in 0 .. 1
BY DEF One

\* What the invariant says is what the run checks.
LEMMA NetInputIInvEnough ==
    ASSUME NetInputAssumption, NetInputIInv
    PROVE  NetInputInv
<1>1. coreWaiters \in BoundedSeq({"devif", "tcpip", "app"}, 2)
  BY LineIsShort DEF NetInputIInv, LineInv, CoreLine
<1>2. pool \in 0 .. PBUF_POOL_SIZE /\ kept \in 0 .. PBUF_POOL_SIZE
  <2>1. tcpip_mbox \in 0 .. 1 /\ pool \in Nat /\ kept \in Nat
        /\ pool + One(inFrame) + tcpip_mbox + One(outFrame) + kept = PBUF_POOL_SIZE
        /\ PBUF_POOL_SIZE \in Nat
    BY DEF NetInputIInv, FramesInv, FrameTypes, PbufsAccountedFor, NetInputAssumption
  <2>2. One(inFrame) \in 0 .. 1 /\ One(outFrame) \in 0 .. 1
    BY OneOrNone
  <2> QED
    BY <2>1, <2>2
<1>3. core \in {NoThread, "devif", "tcpip", "app"}
  BY DEF NetInputIInv, LineInv, CoreLine, LwipThreads
<1> QED
  BY <1>1, <1>2, <1>3 DEF NetInputIInv, FramesInv, FrameTypes, LineInv, NetInputTypeOK,
                          NetInputInv

LEMMA NetInputBegins == NetInputInit => NetInputIInv
<1> SUFFICES ASSUME NetInputInit PROVE NetInputIInv
  OBVIOUS
<1>1. coreWaiters = <<>> /\ coreWaiters \in Seq(LwipThreads) /\ Range(coreWaiters) = {}
      /\ Distinct(coreWaiters)
  BY EmptySeq DEF NetInputInit, Range, Distinct
<1>2. CoreLine
  BY <1>1 DEF NetInputInit, CoreLine
<1>3. \A t : ~ Waits(t)
  BY <1>1, <1>2, WaitsRange
<1>4. LineInv
  BY <1>2, <1>3 DEF NetInputInit, LineInv, CoreIsHeld, Inside, WaitsWhereItAsked
<1>5. FramesInv
  <2>1. irq \in BOOLEAN /\ starved \in BOOLEAN /\ inFrame \in BOOLEAN /\ outFrame \in BOOLEAN
    BY DEF NetInputInit
  <2>2. FramesInHand /\ PbufsAccountedFor
    BY NetInputAssumption DEF NetInputInit, FramesInHand, PbufsAccountedFor, One
  <2>3. 0 \in 0 .. ETH_RXBUFNB /\ PBUF_POOL_SIZE \in Nat
    BY NetInputAssumption
  <2> QED
    BY <2>1, <2>2, <2>3 DEF NetInputInit, FramesInv, FrameTypes
<1> QED
  BY <1>4, <1>5 DEF NetInputIInv

\* No step loses a pbuf or frees one twice.
LEMMA FramesKept ==
    ASSUME NetInputAssumption, FramesInv, NetInputNext
    PROVE  FramesInv'
<1> USE DEF NetInputNext, DevifStep, TcpipStep, FrameArrives, Interrupt, Select,
            SelectTimesOut, DevifLock, Read, ReadEnds, Input, InputRefused,
            InputEnds, TcpipFetch, TcpipTimesOut, TcpipLock, TcpipHandle, AppCalls,
            AppReturns, AppFrees, lwipVars, driverVars, tcpipVars
<1>0. FrameTypes /\ FramesInHand /\ PbufsAccountedFor
  BY DEF FramesInv
<1>1. ring' \in 0 .. ETH_RXBUFNB /\ events' \in 0 .. ETH_RXBUFNB
  BY <1>0 DEF FrameTypes, NetInputAssumption
<1>2. irq' \in BOOLEAN /\ starved' \in BOOLEAN
  <2>1. irq' \in BOOLEAN
    BY <1>0 DEF FrameTypes
  <2>2. CASE Read \/ ReadEnds
    <3>1. CASE starved' = (starved /\ ring' > 0)
      BY <2>1, <3>1
    <3>2. CASE starved' = (ring > 0)
      BY <2>1, <3>2
    <3> QED
      BY <2>2, <3>1, <3>2
  <2>3. CASE ~ (Read \/ ReadEnds)
    <3>1. starved' = starved
      BY <2>3
    <3> QED
      BY <1>0, <2>1, <3>1 DEF FrameTypes
  <2> QED
    BY <2>1, <2>2, <2>3
<1>3. inFrame' \in BOOLEAN /\ outFrame' \in BOOLEAN
  BY <1>0 DEF FrameTypes
<1>4. /\ devif' \in {"select", "waiting", "lock", "read", "input", "unlock"}
      /\ tcpip' \in {"fetch", "waiting", "lock", "handle"}
      /\ app' \in {"idle", "locking"}
  BY <1>0 DEF FrameTypes
<1>5. tcpip_mbox' \in 0 .. 1 /\ pool' \in Nat /\ kept' \in Nat
  BY <1>0 DEF FrameTypes
<1>6. FramesInHand'
  BY <1>0 DEF FrameTypes, FramesInHand
<1>7. PbufsAccountedFor'
  BY <1>0 DEF FrameTypes, FramesInHand, PbufsAccountedFor, One, NetInputAssumption
<1> QED
  BY <1>1, <1>2, <1>3, <1>4, <1>5, <1>6, <1>7 DEF FramesInv, FrameTypes

\* A step that leaves the lock alone leaves the line as it is.
LEMMA LineUnchanged ==
    ASSUME CoreLine, UNCHANGED lockVars
    PROVE  CoreLine' /\ core' = core /\ \A t : Waits(t)' <=> Waits(t)
BY DEF lockVars, CoreLine, Waits

\* Whoever enters lwIP holds the core lock, in every step.
LEMMA LineKept ==
    ASSUME NetInputAssumption, LineInv, NetInputNext
    PROVE  LineInv'
<1>1. CoreLine /\ WaitsWhereItAsked /\ CoreIsHeld
  BY DEF LineInv
<1>2. CASE FrameArrives \/ Interrupt \/ Select \/ SelectTimesOut \/ Read \/ ReadEnds
           \/ Input \/ InputRefused \/ TcpipFetch \/ TcpipTimesOut \/ AppFrees
  <2>1. UNCHANGED lockVars
    BY <1>2 DEF FrameArrives, Interrupt, Select, SelectTimesOut, Read, ReadEnds, Input,
                InputRefused, TcpipFetch, TcpipTimesOut, AppFrees
  <2>2. CoreLine' /\ core' = core /\ \A t : Waits(t)' <=> Waits(t)
    BY <1>1, <2>1, LineUnchanged
  <2>3. WaitsWhereItAsked' /\ CoreIsHeld'
    BY <1>1, <1>2, <2>2
       DEF FrameArrives, Interrupt, Select, SelectTimesOut, Read, ReadEnds, Input,
           InputRefused, TcpipFetch, TcpipTimesOut, AppFrees, lwipVars, driverVars,
           tcpipVars, WaitsWhereItAsked, CoreIsHeld, Inside
  <2> QED
    BY <2>2, <2>3 DEF LineInv
<1>3. CASE DevifLock \/ TcpipLock \/ AppCalls
  <2>1. PICK t \in LwipThreads :
           /\ ~ Waits(t) /\ LockCore(t) /\ ~ Inside(t)
           /\ t = "devif" => devif' = "read" /\ UNCHANGED <<tcpip, app>>
           /\ t = "tcpip" => tcpip' = "handle" /\ UNCHANGED <<devif, app>>
           /\ t = "app" => app' = "locking" /\ UNCHANGED <<devif, tcpip>>
    BY <1>1, <1>3 DEF DevifLock, TcpipLock, AppCalls, lwipVars, driverVars, tcpipVars,
                      WaitsWhereItAsked, Inside, LwipThreads
  <2>3. /\ CoreLine'
        /\ core' = t \/ Waits(t)'
        /\ \A u \in LwipThreads \ {t} : Waits(u)' <=> Waits(u)
        /\ core \in LwipThreads => core' = core
    BY <1>1, <2>1, LockKeepsLine
  <2>4. WaitsWhereItAsked'
    BY <1>1, <2>1, <2>3 DEF WaitsWhereItAsked, LwipThreads
  <2>5. CoreIsHeld'
    BY <1>1, <2>1, <2>3 DEF CoreIsHeld, Inside, LwipThreads
  <2> QED
    BY <2>3, <2>4, <2>5 DEF LineInv
<1>4. CASE InputEnds \/ TcpipHandle \/ AppReturns
  <2>1. PICK t \in LwipThreads :
           /\ Inside(t) /\ UnlockCore(t)
           /\ t = "devif" => devif' = "lock" /\ UNCHANGED <<tcpip, app>>
           /\ t = "tcpip" => tcpip' = "fetch" /\ UNCHANGED <<devif, app>>
           /\ t = "app" => app' = "idle" /\ UNCHANGED <<devif, tcpip>>
    BY <1>1, <1>4 DEF InputEnds, TcpipHandle, AppReturns, lwipVars, driverVars, tcpipVars,
                      WaitsWhereItAsked, Inside, LwipThreads
  <2>3. core = t
    BY <1>1, <2>1 DEF CoreIsHeld, LwipThreads
  <2>4. /\ CoreLine'
        /\ ~ Waits(t)'
        /\ \A u \in LwipThreads : Waits(u)' => Waits(u)
        /\ \A u \in LwipThreads : Waits(u) /\ ~ Waits(u)' => core' = u
    BY <1>1, <2>1, <2>3, UnlockKeepsLine
  <2>5. WaitsWhereItAsked'
    BY <1>1, <2>1, <2>4 DEF WaitsWhereItAsked, LwipThreads
  <2>6. CoreIsHeld'
    BY <1>1, <2>1, <2>3, <2>4 DEF CoreIsHeld, Inside, LwipThreads
  <2> QED
    BY <2>4, <2>5, <2>6 DEF LineInv
<1> QED
  BY <1>2, <1>3, <1>4 DEF NetInputNext, DevifStep, TcpipStep

LEMMA NetInputStutters == ASSUME NetInputIInv, UNCHANGED netInputVars PROVE NetInputIInv'
BY DEF netInputVars, NetInputIInv, FramesInv, FrameTypes, FramesInHand,
       PbufsAccountedFor, One, LineInv, CoreLine, WaitsWhereItAsked, CoreIsHeld,
       Inside, Waits

\* A frame has one pbuf from low_level_input() to its last pbuf_free(), and
\* devif_thread(), tcpip_thread() and the application take turns inside lwIP.
THEOREM NetInputInvariant == NetInputSpec => []NetInputInv
<1> USE NetInputAssumption
<1>1. NetInputIInv /\ [NetInputNext]_netInputVars => NetInputIInv'
  BY FramesKept, LineKept, NetInputStutters DEF NetInputIInv
<1>2. NetInputIInv => NetInputInv
  BY NetInputIInvEnough
<1> QED
  BY <1>1, <1>2, NetInputBegins, PTL DEF NetInputSpec

-----------------------------------------------------------------------------
(* All of it. *)

\* What the port of lwIP keeps (sys_arch.c and ethernetif.c): the order of the
\* messages of a mail box, entries of the tables that two tasks never share, and
\* frames that are in one place.
THEOREM NetPortInvariant == NetPortSpec => []NetPortInv
BY MboxInvariant, NetTableInvariant, NetInputInvariant, PTL DEF NetPortSpec, NetPortInv

=============================================================================
