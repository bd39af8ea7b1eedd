-------------------------------- MODULE Fifo --------------------------------
(***************************************************************************)
(* The ring buffer of libs/fifo.c with one writer and one reader that are  *)
(* not synchronised: an interrupt handler and a task (the UART drivers),   *)
(* or two tasks (pipefs, the sound and radio players).  A step is one      *)
(* access to what the two share: wp, rp and the buffer.                    *)
(*                                                                         *)
(* The pointers are indexes into the buffer.  A fifo of no bytes at all,   *)
(* as that of an event without arguments, is never given a byte.           *)
(***************************************************************************)
EXTENDS Integers, Sequences

CONSTANTS
    Size,       \* st_fifo.size
    Bytes,      \* the values of a byte
    NoByte,     \* a byte nobody has written
    MaxLength   \* bound: the longest write or read

ASSUME FifoAssumption ==
    /\ Size \in Nat \ {0}
    /\ MaxLength \in Nat
    /\ NoByte \notin Bytes

VARIABLES
    buf,    \* the buffer
    wp,     \* st_fifo.wp, stored by the writer only
    rp,     \* st_fifo.rp, stored by the reader only
    w,      \* where the writer is in write_fifo()
    todo,   \* the bytes it has still to write
    r,      \* where the reader is in read_fifo() or drop_fifo()
    want,   \* how many bytes it has still to read
    byte,   \* the byte it has copied
    got     \* the last byte it has returned

wvars == <<w, todo>>
rvars == <<r, want, byte, got>>
vars == <<buf, wp, rp, w, todo, r, want, byte, got>>

Indexes == 0 .. Size - 1

\* Mistake: the pointer wraps one place too late.
Following_WrapsLate(p) == IF p + 1 > Size THEN 0 ELSE p + 1

\* np: the pointer after p.
Following(p) == IF p + 1 >= Size THEN 0 ELSE p + 1

fifo_size == IF wp >= rp THEN wp - rp ELSE Size - (rp - wp)

\* Mistake: the byte that stays free is not counted.
fifo_free_size_AllOfIt == IF wp >= rp THEN Size - (wp - rp) ELSE rp - wp

fifo_free_size == IF wp >= rp THEN Size - (wp - rp) - 1 ELSE (rp - wp) - 1

\* init_fifo(); what the buffer holds does not matter.
Init ==
    /\ buf = [i \in Indexes |-> NoByte]
    /\ wp = 0 /\ rp = 0
    /\ w = "idle" /\ todo = <<>>
    /\ r = "idle" /\ want = 0
    /\ byte = NoByte /\ got = NoByte

-----------------------------------------------------------------------------
(* write_fifo()                                                            *)

\* The length is compared with the free size once (every build is compiled
\* with -O2, which loads wp and rp once); if it does not fit, nothing is
\* written.
WriteFifo(s) ==
    /\ w = "idle"
    /\ Len(s) <= fifo_free_size
    /\ w' = "loop"
    /\ todo' = s
    /\ UNCHANGED <<buf, wp, rp, rvars>>

\* np is compared with rp before every byte: the write would stop here, its
\* rest unwritten, if the fifo had become full.
WriteLoop ==
    /\ w = "loop"
    /\ w' = IF Following(wp) # rp THEN "store" ELSE "idle"
    /\ todo' = IF Following(wp) # rp THEN todo ELSE <<>>
    /\ UNCHANGED <<buf, wp, rp, rvars>>

Store ==
    /\ w = "store"
    /\ buf' = [buf EXCEPT ![wp] = Head(todo)]
    /\ w' = "publish"
    /\ UNCHANGED <<wp, rp, todo, rvars>>

Publish ==
    /\ w = "publish"
    /\ wp' = Following(wp)
    /\ todo' = Tail(todo)
    /\ w' = IF Tail(todo) = <<>> THEN "idle" ELSE "loop"
    /\ UNCHANGED <<buf, rp, rvars>>

-----------------------------------------------------------------------------
(* read_fifo() and drop_fifo()                                             *)

ReadFifo(n) ==
    /\ r = "idle"
    /\ r' = "read"
    /\ want' = n
    /\ UNCHANGED <<buf, wp, rp, wvars, byte, got>>

DropFifo(n) ==
    /\ r = "idle"
    /\ r' = "drop"
    /\ want' = n
    /\ UNCHANGED <<buf, wp, rp, wvars, byte, got>>

\* The fifo is empty: fewer bytes than wanted are returned.
FoundEmpty ==
    /\ r \in {"read", "drop"}
    /\ rp = wp
    /\ r' = "idle"
    /\ want' = 0
    /\ UNCHANGED <<buf, wp, rp, wvars, byte, got>>

\* Mistake: a byte is returned whether there is one or not.
FoundByte_Unchecked ==
    /\ r \in {"read", "drop"}
    /\ r' = IF r = "read" THEN "copy" ELSE "skip"
    /\ UNCHANGED <<buf, wp, rp, wvars, want, byte, got>>

FoundByte ==
    /\ r \in {"read", "drop"}
    /\ rp # wp
    /\ r' = IF r = "read" THEN "copy" ELSE "skip"
    /\ UNCHANGED <<buf, wp, rp, wvars, want, byte, got>>

Copy ==
    /\ r = "copy"
    /\ byte' = buf[rp]
    /\ r' = "advance"
    /\ UNCHANGED <<buf, wp, rp, wvars, want, got>>

Advance ==
    /\ r = "advance"
    /\ rp' = Following(rp)
    /\ got' = byte
    /\ want' = want - 1
    /\ r' = IF want = 1 THEN "idle" ELSE "read"
    /\ UNCHANGED <<buf, wp, wvars, byte>>

Skip ==
    /\ r = "skip"
    /\ rp' = Following(rp)
    /\ want' = want - 1
    /\ r' = IF want = 1 THEN "idle" ELSE "drop"
    /\ UNCHANGED <<buf, wp, wvars, byte, got>>

-----------------------------------------------------------------------------

Writer ==
    \/ \E n \in 1 .. MaxLength : \E s \in [1 .. n -> Bytes] : WriteFifo(s)
    \/ WriteLoop \/ Store \/ Publish

Reader ==
    \/ \E n \in 1 .. MaxLength : ReadFifo(n) \/ DropFifo(n)
    \/ FoundEmpty \/ FoundByte \/ Copy \/ Advance \/ Skip

Next == Writer \/ Reader

Spec == Init /\ [][Next]_vars

-----------------------------------------------------------------------------

TypeOK ==
    /\ buf \in [Indexes -> Bytes \cup {NoByte}]
    /\ wp \in Indexes
    /\ rp \in Indexes
    /\ w \in {"idle", "loop", "store", "publish"}
    /\ todo \in Seq(Bytes)
    /\ r \in {"idle", "read", "drop", "copy", "skip", "advance"}
    /\ want \in Nat
    /\ byte \in Bytes \cup {NoByte}
    /\ got \in Bytes \cup {NoByte}

\* A write that fits when it starts fits until it ends, whatever the reader
\* does meanwhile: the comparison before each byte never stops the loop, and
\* write_fifo() returns all of the length or 0.
WholeOrNothing == w = "loop" => Following(wp) # rp

\* The place of the i-th byte held.
Place(i) == IF rp + i - 1 < Size THEN rp + i - 1 ELSE rp + i - 1 - Size

Content == [i \in 1 .. fifo_size |-> buf[Place(i)]]

Queue == INSTANCE ByteQueue WITH Capacity <- Size - 1, content <- Content

\* The two sides share a bounded queue of bytes: the reader is given every
\* byte it does not drop, once, in the order of the writes, and no byte is
\* overwritten before it is read.
IsAByteQueue == Queue!Spec
=============================================================================
