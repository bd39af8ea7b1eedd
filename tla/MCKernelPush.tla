---------------------------- MODULE MCKernelPush ----------------------------
(***************************************************************************)
(* Instances of the kernel with pushed events for TLC.                     *)
(***************************************************************************)
EXTENDS KernelPush, TLC

CONSTANTS a, b, c, e1, x, idle

\* Priorities: a and b share level 0, c has level 1.
MCThreeTasks == (a :> 0) @@ (b :> 0) @@ (c :> 1) @@ (idle :> 2)
MCTwoTasks == (a :> 0) @@ (b :> 1) @@ (idle :> 2)

\* One event whose FIFO holds one argument; its size and count.
MCOneEach == [e \in Events |-> 1]
MCTwoEach == [e \in Events |-> 2]
=============================================================================
