-------------------------------- MODULE Heap --------------------------------
(***************************************************************************)
(* The heap of kernel/memory.c: blocks with a header in front of each, the *)
(* free ones in a circular list in the order of their addresses.  Memory   *)
(* is counted in units of a header, from MEM_START = 0.                    *)
(*                                                                         *)
(* A step is one round of the loops that walk the list.  Nothing locks the *)
(* heap: the model has one caller, who ends a call before the next.        *)
(***************************************************************************)
EXTENDS Integers, FiniteSets, Functions

CONSTANTS
    UnitSize,   \* sizeof(memhdr)
    HeapUnits,  \* units from MEM_START to MEM_END
    Modulus,    \* 2 ^ 32: sizes are unsigned int
    Requests    \* bound: the sizes in bytes that are asked for

\* The rounding up of a request must not wrap.
ASSUME HeapAssumption ==
    /\ UnitSize \in Nat \ {0}
    /\ HeapUnits \in Nat \ {0}
    /\ Modulus \in Nat
    /\ Requests \subseteq {n \in Nat : n + UnitSize <= Modulus}

VARIABLES
    size,   \* of every block, its header included
    next,   \* of every free block
    freep,  \* where the next search begins
    asked,  \* of every block in use: the bytes its owner asked for
    scan    \* the call in progress

heapVars == <<size, next, freep, asked, scan>>

Free == DOMAIN next
InUse == DOMAIN asked

\* init_memory() rounds down twice: the empty block that anchors the list and
\* the header of the first block lie in front of MEM_START.
Base == -2
First == -1

NoScan == [op |-> "none"]

\* nunits: the block that a request needs.
Units(bytes) == ((bytes + UnitSize - 1) % Modulus) \div UnitSize + 1

HeapInit ==
    /\ size = [b \in {Base, First} |-> IF b = Base THEN 0 ELSE HeapUnits - First]
    /\ next = [b \in {Base, First} |-> IF b = Base THEN First ELSE Base]
    /\ freep = First
    /\ asked = <<>>
    /\ scan = NoScan

-----------------------------------------------------------------------------
(* alloc_memory(): the first block that is large enough, after freep.      *)

Alloc(bytes) ==
    /\ scan = NoScan
    /\ scan' = [op |-> "alloc", bytes |-> bytes, units |-> Units(bytes),
                prev |-> freep, at |-> next[freep]]
    /\ UNCHANGED <<size, next, freep, asked>>

\* Mistake: the search does not end where it began.
AllocNext_GoesRound ==
    /\ scan.op = "alloc"
    /\ size[scan.at] < scan.units
    /\ scan' = [scan EXCEPT !.prev = scan.at, !.at = next[scan.at]]
    /\ UNCHANGED <<size, next, freep, asked>>

AllocNext ==
    /\ scan.op = "alloc"
    /\ size[scan.at] < scan.units /\ scan.at # freep
    /\ scan' = [scan EXCEPT !.prev = scan.at, !.at = next[scan.at]]
    /\ UNCHANGED <<size, next, freep, asked>>

\* Mistake: the search ends before it has looked at freep.
AllocFails_EndsEarly ==
    /\ scan.op = "alloc"
    /\ size[scan.at] < scan.units /\ next[scan.at] = freep
    /\ scan' = NoScan
    /\ UNCHANGED <<size, next, freep, asked>>

AllocFails ==
    /\ scan.op = "alloc"
    /\ size[scan.at] < scan.units /\ scan.at = freep
    /\ scan' = NoScan
    /\ UNCHANGED <<size, next, freep, asked>>

\* A block that fits is taken from the list.
AllocWhole ==
    /\ scan.op = "alloc"
    /\ size[scan.at] = scan.units
    /\ next' = [b \in Free \ {scan.at} |-> IF b = scan.prev THEN next[scan.at] ELSE next[b]]
    /\ asked' = [b \in InUse \cup {scan.at} |-> IF b = scan.at THEN scan.bytes ELSE asked[b]]
    /\ freep' = scan.prev
    /\ scan' = NoScan
    /\ UNCHANGED size

\* Of a larger one the tail is cut off.
AllocTail ==
    /\ scan.op = "alloc"
    /\ size[scan.at] > scan.units
    /\ LET rest == size[scan.at] - scan.units
           tail == scan.at + rest
       IN /\ size' = [b \in DOMAIN size \cup {tail} |->
                        CASE b = tail -> scan.units [] b = scan.at -> rest [] OTHER -> size[b]]
          /\ asked' = [b \in InUse \cup {tail} |-> IF b = tail THEN scan.bytes ELSE asked[b]]
    /\ freep' = scan.prev
    /\ scan' = NoScan
    /\ UNCHANGED next

-----------------------------------------------------------------------------
(* free_memory(): the block is linked where its address belongs and joined *)
(* with its neighbours.                                                    *)

FreeBlock(b) ==
    /\ scan = NoScan
    /\ b \in InUse
    /\ scan' = [op |-> "free", block |-> b, at |-> freep]
    /\ UNCHANGED <<size, next, freep, asked>>

\* The block b belongs between p and the block after p.
Belongs(b, p) ==
    \/ p < b /\ b < next[p]
    \/ next[p] <= p /\ (p < b \/ b < next[p])

FreeNext ==
    /\ scan.op = "free"
    /\ ~ Belongs(scan.block, scan.at)
    /\ scan' = [scan EXCEPT !.at = next[scan.at]]
    /\ UNCHANGED <<size, next, freep, asked>>

\* Mistake: the block is not joined with the one below it.
FreeLink_NotBelow ==
    /\ scan.op = "free"
    /\ Belongs(scan.block, scan.at)
    /\ LET p == scan.at
           b == scan.block
           above == b + size[b] = next[p]
           gone == IF above THEN {next[p]} ELSE {}
       IN /\ next' = [f \in (Free \cup {b}) \ gone |->
                        CASE f = b -> IF above THEN next[next[p]] ELSE next[p]
                          [] f = p -> b
                          [] OTHER -> next[f]]
          /\ size' = [f \in DOMAIN size \ gone |->
                        IF f = b /\ above THEN size[b] + size[next[p]] ELSE size[f]]
          /\ freep' = p
    /\ asked' = [b \in InUse \ {scan.block} |-> asked[b]]
    /\ scan' = NoScan

FreeLink ==
    /\ scan.op = "free"
    /\ Belongs(scan.block, scan.at)
    /\ LET p == scan.at
           b == scan.block
           above == b + size[b] = next[p]
           below == p + size[p] = b
           after == IF above THEN next[next[p]] ELSE next[p]
           joined == size[b] + IF above THEN size[next[p]] ELSE 0
           gone == (IF above THEN {next[p]} ELSE {}) \cup (IF below THEN {b} ELSE {})
       IN /\ next' = [f \in (Free \cup {b}) \ gone |->
                        CASE f = b -> after
                          [] f = p -> IF below THEN after ELSE b
                          [] OTHER -> next[f]]
          /\ size' = [f \in DOMAIN size \ gone |->
                        CASE f = b -> joined
                          [] f = p /\ below -> size[p] + joined
                          [] OTHER -> size[f]]
          /\ freep' = p
    /\ asked' = [b \in InUse \ {scan.block} |-> asked[b]]
    /\ scan' = NoScan

-----------------------------------------------------------------------------

HeapStep == AllocNext \/ AllocFails \/ AllocWhole \/ AllocTail \/ FreeNext \/ FreeLink

HeapNext ==
    \/ \E bytes \in Requests : Alloc(bytes)
    \/ \E b \in InUse : FreeBlock(b)
    \/ HeapStep

HeapSpec == HeapInit /\ [][HeapNext]_heapVars

\* A call that has begun goes on.
HeapFairSpec == HeapSpec /\ WF_heapVars(HeapStep)

\* heap_free_size(), in units.
heap_free_size == FoldFunctionOnSet(+, 0, size, Free)

-----------------------------------------------------------------------------
(* Properties.                                                             *)

Blocks == DOMAIN size

HeapTypeOK ==
    /\ Blocks \subseteq Base .. HeapUnits
    /\ size \in [Blocks -> 0 .. HeapUnits - First]
    /\ next \in [Free -> Free]
    /\ freep \in Free
    /\ asked \in [InUse -> Requests]
    /\ \/ scan = NoScan
       \/ /\ scan \in [op : {"alloc"}, bytes : Requests, units : Nat, prev : Free, at : Free]
          /\ scan.units = Units(scan.bytes) /\ scan.at = next[scan.prev]
       \/ scan \in [op : {"free"}, block : InUse, at : Free]

\* Every block is free or in use and ends where the next one begins: no call
\* of alloc_memory() or free_memory() loses memory or hands out the same twice.
BlocksTile ==
    /\ Blocks = Free \cup InUse /\ Free \cap InUse = {}
    /\ Base \in Free /\ size[Base] = 0 /\ First \in Blocks
    /\ \A b \in Blocks \ {Base} :
           /\ First <= b /\ size[b] > 0
           /\ b + size[b] = HeapUnits \/ b + size[b] \in Blocks
           /\ \A c \in Blocks : b < c => b + size[b] <= c

\* The free list is one circle in the order of the addresses, which is what
\* free_memory() relies on when it looks for the place of a block.
FreeListInOrder ==
    \A p \in Free :
        IF p < next[p] THEN \A q \in Free : q <= p \/ next[p] <= q
        ELSE next[p] = Base /\ \A q \in Free : q <= p

\* Free memory is never split in two blocks that touch (free_memory()).
NeighboursJoined ==
    \A p \in Free \ {Base} : p + size[p] \notin Free

\* What alloc_memory() returns has room for what was asked.
LargeEnough ==
    \A b \in InUse : asked[b] <= (size[b] - 1) * UnitSize

\* The free blocks a search has passed are too small.
Passed(q) ==
    IF freep <= scan.prev THEN freep < q /\ q <= scan.prev
    ELSE freep < q \/ q <= scan.prev

PassedTooSmall ==
    scan.op = "alloc" => \A q \in Free : Passed(q) => size[q] < scan.units

\* What alloc_memory() and free_memory() keep between their calls and during
\* them: memory is neither lost nor handed out twice, and the list is in order.
HeapInv ==
    /\ HeapTypeOK
    /\ BlocksTile
    /\ FreeListInOrder
    /\ NeighboursJoined
    /\ LargeEnough
    /\ PassedTooSmall

\* alloc_memory() fails only if no free block is large enough, wherever in the
\* circle its search began.
FailsOnlyWhenFull ==
    [][AllocFails => \A q \in Free : size[q] < scan.units]_heapVars

\* Every call of alloc_memory() and free_memory() returns.
HeapCallsEnd == scan # NoScan ~> scan = NoScan

\* What the comments of heap_free_size() and heap_total_size() say: the memory
\* not in use is part of all the memory.
FreeIsPartOfTotal == heap_free_size <= HeapUnits

=============================================================================
