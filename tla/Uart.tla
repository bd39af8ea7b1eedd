-------------------------------- MODULE Uart --------------------------------
(***************************************************************************)
(* The serial port of arch/Cortex-M7/drivers/uart.c and the console calls  *)
(* of kernel/console.c that use it: tasks that write byte by byte, one     *)
(* task that reads, and the interrupt handler.  Bytes are only counted.    *)
(*                                                                         *)
(* tx_evq stores one event.  rx_evq has no argument, so it stores none: it *)
(* only resumes a task that waits.  event_push_ISR() stores an event and   *)
(* resumes nobody.  A HAL call is one step: the transmitter is busy from   *)
(* HAL_UART_Transmit_IT() to the interrupt that ends the byte.             *)
(***************************************************************************)
EXTENDS Integers, Sequences, FiniteSets, SequencesExt

CONSTANTS
    Writers,    \* tasks that write to the console
    MAXBUFSIZE, \* the bytes that the receive buffer holds
    NoWriter

ASSUME UartAssumption ==
    /\ MAXBUFSIZE \in Nat \ {0}
    /\ IsFiniteSet(Writers) /\ NoWriter \notin Writers

VARIABLES
    putc,      \* where each writer is
    tx,        \* whose byte the transmitter sends
    txStored,  \* events stored in tx_evq
    txWaiters, \* tasks that wait for tx_evq
    reader,    \* where the reading task is
    rfifo,     \* bytes received and not read
    astray,    \* a byte was given up, or an event dropped or left behind
    pushed     \* an event was stored although a task waited for it

uartVars == <<putc, tx, txStored, txWaiters, reader, rfifo, astray, pushed>>
putVars == <<putc, tx, txStored, txWaiters, astray, pushed>>
getVars == <<reader, rfifo>>

UartInit ==
    /\ putc = [w \in Writers |-> "idle"]
    /\ tx = NoWriter
    /\ txStored = 0 /\ txWaiters = <<>>
    /\ reader = "idle"
    /\ rfifo = 0
    /\ astray = FALSE /\ pushed = FALSE

-----------------------------------------------------------------------------
(* uart_putc(), for cputs() and cputc().                                   *)

PutBegin(w) ==
    /\ putc[w] = "idle"
    /\ putc' = [putc EXCEPT ![w] = "transmit"]
    /\ UNCHANGED <<tx, txStored, txWaiters, astray, pushed, getVars>>

\* HAL_UART_Transmit_IT() is called until it does not return HAL_BUSY ...
Transmit(w) ==
    /\ putc[w] = "transmit" /\ tx = NoWriter
    /\ tx' = w
    /\ putc' = [putc EXCEPT ![w] = "wait"]
    /\ UNCHANGED <<txStored, txWaiters, astray, pushed, getVars>>

\* ... or UART_TC_TIMEOUT times.
TransmitGivesUp(w) ==
    /\ putc[w] = "transmit" /\ tx # NoWriter
    /\ putc' = [putc EXCEPT ![w] = "wait"]
    /\ astray' = TRUE
    /\ UNCHANGED <<tx, txStored, txWaiters, pushed, getVars>>

\* event_wait() of tx_evq.
TxWait(w) ==
    /\ putc[w] = "wait"
    /\ IF txStored > 0
         THEN /\ txStored' = txStored - 1
              /\ putc' = [putc EXCEPT ![w] = "idle"]
              /\ UNCHANGED txWaiters
         ELSE /\ txWaiters' = Append(txWaiters, w)
              /\ putc' = [putc EXCEPT ![w] = "waiting"]
              /\ UNCHANGED txStored
    /\ UNCHANGED <<tx, astray, pushed, getVars>>

\* UART_TE_TIMEOUT is over.
TxTimesOut(w) ==
    /\ putc[w] = "waiting"
    /\ putc' = [putc EXCEPT ![w] = "idle"]
    /\ \E i \in 1 .. Len(txWaiters) :
          txWaiters[i] = w /\ txWaiters' = RemoveAt(txWaiters, i)
    /\ astray' = TRUE
    /\ UNCHANGED <<tx, txStored, pushed, getVars>>

-----------------------------------------------------------------------------
(* cgetc() and cwait(): uart_select() without a timeout, then uart_getc(). *)

SelectLook ==
    /\ reader = "idle"
    /\ reader' = IF rfifo > 0 THEN "get" ELSE "wait"
    /\ UNCHANGED <<rfifo, putVars>>

\* event_wait() of rx_evq.
SelectWait ==
    /\ reader = "wait"
    /\ reader' = "waiting"
    /\ UNCHANGED <<rfifo, putVars>>

GetC ==
    /\ reader = "get"
    /\ reader' = "idle"
    /\ rfifo' = IF rfifo > 0 THEN rfifo - 1 ELSE 0
    /\ UNCHANGED putVars

-----------------------------------------------------------------------------
(* inthdr_uart(), when HAL_UART_IRQHandler() has ended the byte that was   *)
(* sent, received one, or both.                                            *)

StoreTxEvent ==
    /\ txStored' = 1
    /\ astray' = (astray \/ txStored = 1)
    /\ UNCHANGED <<putc, txWaiters>>

\* Mistake: the event is only stored.
WakeWriter_OnlyStores == StoreTxEvent

WakeWriter ==
    IF txWaiters # <<>>
      THEN /\ putc' = [putc EXCEPT ![Head(txWaiters)] = "idle"]
           /\ txWaiters' = Tail(txWaiters)
           /\ UNCHANGED <<txStored, astray>>
      ELSE StoreTxEvent

\* flg_txc: the event is only pushed when a byte was received as well.
Sent(received) ==
    /\ tx # NoWriter /\ tx' = NoWriter
    /\ IF received THEN StoreTxEvent ELSE WakeWriter
    /\ pushed' = (pushed \/ (received /\ txWaiters # <<>>))

\* Mistake: the reader is only told of a byte that comes to an empty buffer.
Received_TellsWhenEmpty ==
    /\ rfifo' = IF rfifo < MAXBUFSIZE THEN rfifo + 1 ELSE rfifo
    /\ reader' = IF reader = "waiting" /\ rfifo = 0 THEN "get" ELSE reader

\* flg_rxc: the byte is dropped when the buffer is full.
Received ==
    /\ rfifo' = IF rfifo < MAXBUFSIZE THEN rfifo + 1 ELSE rfifo
    /\ reader' = IF reader = "waiting" THEN "get" ELSE reader

SentInterrupt == Sent(FALSE) /\ UNCHANGED getVars
ReceivedInterrupt == Received /\ UNCHANGED putVars
BothInterrupt == Sent(TRUE) /\ Received

UartNext ==
    \/ \E w \in Writers : \/ PutBegin(w) \/ Transmit(w) \/ TransmitGivesUp(w)
                          \/ TxWait(w) \/ TxTimesOut(w)
    \/ SelectLook \/ SelectWait \/ GetC
    \/ SentInterrupt \/ ReceivedInterrupt \/ BothInterrupt

UartSpec == UartInit /\ [][UartNext]_uartVars

\* The reader goes on up to where it waits.
UartReader == SelectLook \/ SelectWait \/ GetC

UartFairSpec == UartSpec /\ WF_uartVars(UartReader)

-----------------------------------------------------------------------------
(* Properties.                                                             *)

UartTypeOK ==
    /\ putc \in [Writers -> {"idle", "transmit", "wait", "waiting"}]
    /\ tx \in Writers \cup {NoWriter}
    /\ txStored \in 0 .. 1
    /\ txWaiters \in Seq(Writers)
    /\ reader \in {"idle", "wait", "waiting", "get"}
    /\ rfifo \in 0 .. MAXBUFSIZE
    /\ astray \in BOOLEAN /\ pushed \in BOOLEAN

\* There is one end of a byte, past or to come, for every task that will wait
\* for one (uart_putc(), inthdr_uart()): nobody waits for UART_TE_TIMEOUT, as
\* long as no byte was given up and no event dropped.
TxEventsMatch ==
    astray \/ Cardinality({w \in Writers : putc[w] \in {"wait", "waiting"}}) =
                  txStored + (IF tx = NoWriter THEN 0 ELSE 1)

\* A task waits with its event stored only after inthdr_uart() has pushed it.
WaitsForAnEvent == pushed \/ txWaiters = <<>> \/ txStored = 0

\* cgetc(), which waits without a timeout, does not return without a byte.
CgetcReturnsAByte == reader = "get" => rfifo > 0

\* As long as bytes come the reader gets them, though uart_select() may look
\* before a byte is stored and wait after its event.
BytesAreRead ==
    []<><<Received>>_uartVars => (reader = "waiting" ~> reader = "get")

\* What the comments of cgetc() and cwait() say: a byte that was received ends
\* the wait.
StoredBytesAreRead == rfifo > 0 ~> reader = "get"

\* uart_putc(), uart_select() and inthdr_uart() agree on the events that are
\* stored, awaited and to come, and cgetc() on the bytes.
UartInv == UartTypeOK /\ TxEventsMatch /\ WaitsForAnEvent /\ CgetcReturnsAByte

=============================================================================
