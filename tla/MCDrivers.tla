------------------------------ MODULE MCDrivers ------------------------------
(***************************************************************************)
(* The heap, system events and time, and what drivers and the network port *)
(* are built on: parts that share no state here.  For TLC, each behaviour  *)
(* is one of one part.                                                     *)
(***************************************************************************)
EXTENDS Heap, SysEvent, Fifo, Uart, NetPort, Datetime

VARIABLE part  \* the part that runs; the others stay as they begin

driversVars == <<part, heapVars, sysEventVars, vars, uartVars, mboxVars,
                 netTableVars, netInputVars, datetimeVars>>

DriversInit ==
    /\ part \in {"heap", "sysevent", "fifo", "uart", "mbox", "table", "input",
                "datetime"}
    /\ HeapInit /\ SysEventInit /\ Init /\ UartInit
    /\ MboxInit /\ NetTableInit /\ NetInputInit /\ DatetimeInit
    /\ part # "datetime" => rtc = SecondTicks

DriversNext ==
    \/ /\ part = "heap" /\ HeapNext
       /\ UNCHANGED <<part, sysEventVars, vars, uartVars, mboxVars, netTableVars, netInputVars,
                      datetimeVars>>
    \/ /\ part = "sysevent" /\ SysEventNext
       /\ UNCHANGED <<part, heapVars, vars, uartVars, mboxVars, netTableVars, netInputVars,
                      datetimeVars>>
    \/ /\ part = "fifo" /\ Next
       /\ UNCHANGED <<part, heapVars, sysEventVars, uartVars, mboxVars, netTableVars, netInputVars,
                      datetimeVars>>
    \/ /\ part = "uart" /\ UartNext
       /\ UNCHANGED <<part, heapVars, sysEventVars, vars, mboxVars, netTableVars, netInputVars,
                      datetimeVars>>
    \/ /\ part = "mbox" /\ MboxNext
       /\ UNCHANGED <<part, heapVars, sysEventVars, vars, uartVars, netTableVars, netInputVars,
                      datetimeVars>>
    \/ /\ part = "table" /\ NetTableNext
       /\ UNCHANGED <<part, heapVars, sysEventVars, vars, uartVars, mboxVars, netInputVars,
                      datetimeVars>>
    \/ /\ part = "input" /\ NetInputNext
       /\ UNCHANGED <<part, heapVars, sysEventVars, vars, uartVars, mboxVars, netTableVars,
                      datetimeVars>>
    \/ /\ part = "datetime" /\ DatetimeNext
       /\ UNCHANGED <<part, heapVars, sysEventVars, vars, uartVars, mboxVars, netTableVars, netInputVars>>

\* The fairness of the parts' own specifications.
DriversFairSpec ==
    /\ DriversInit /\ [][DriversNext]_driversVars
    /\ WF_heapVars(part = "heap" /\ HeapStep)
    /\ WF_sysEventVars(part = "sysevent" /\ (GetEvent \/ WaitEvent \/ NoEvent))
    /\ WF_uartVars(part = "uart" /\ UartReader)
    /\ WF_mboxVars(part = "mbox" /\ MboxFairStep)
    /\ WF_netInputVars(part = "input" /\ Interrupt)
    /\ WF_netInputVars(part = "input" /\ DevifStep)
    /\ WF_netInputVars(part = "input" /\ TcpipStep)
    /\ WF_netInputVars(part = "input" /\ AppReturns)
    /\ WF_netInputVars(part = "input" /\ AppFrees)
=============================================================================
