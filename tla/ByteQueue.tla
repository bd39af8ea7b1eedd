----------------------------- MODULE ByteQueue -----------------------------
(***************************************************************************)
(* What fifo.c promises one writer and one reader: a bounded queue of      *)
(* bytes, each operation on one byte a single step.                        *)
(***************************************************************************)
EXTENDS Naturals, Sequences

CONSTANTS Bytes, Capacity, NoByte

VARIABLES
    content,    \* the bytes written and not read yet
    got         \* the last byte the reader was given

Init == content = <<>> /\ got = NoByte

Put(x) ==
    /\ Len(content) < Capacity
    /\ content' = Append(content, x)
    /\ UNCHANGED got

Get ==
    /\ content # <<>>
    /\ got' = Head(content)
    /\ content' = Tail(content)

Drop ==
    /\ content # <<>>
    /\ content' = Tail(content)
    /\ UNCHANGED got

Next == (\E x \in Bytes : Put(x)) \/ Get \/ Drop

Spec == Init /\ [][Next]_<<content, got>>
=============================================================================
