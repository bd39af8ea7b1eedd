------------------------------ MODULE NetPort ------------------------------
(***************************************************************************)
(* The port of lwIP: its mail boxes (Mbox), the tables it finds its        *)
(* semaphores, mutexes and mail boxes in (NetTable), and the frames that   *)
(* it receives (NetInput).  The parts share no state here.                 *)
(***************************************************************************)
EXTENDS Mbox, NetTable, NetInput

NetPortSpec == MboxSpec /\ NetTableSpec /\ NetInputSpec

\* The network port: its mail boxes, its tables, and the frames it receives.
NetPortInv == MboxInv /\ NetTableInv /\ NetInputInv

=============================================================================
