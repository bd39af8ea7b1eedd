------------------------------ MODULE MCShell ------------------------------
(***************************************************************************)
(* What is done from the shell: ending tasks, editing lines, looking at    *)
(* the log, and files on a disk that is mounted and unmounted.  The parts  *)
(* share no state here.  For TLC, each behaviour is one of one part.       *)
(***************************************************************************)
EXTENDS MCKernelAdmin, LineEdit, LogBuf, FileTable

CONSTANTS u1, u2, u3

VARIABLE part  \* the part that runs; the others stay as they begin

shellVars == <<part, adminVars, lineEditVars, logBufVars, fileTableVars>>

ShellInit ==
    /\ part \in {"kill", "lineedit", "log", "files"}
    /\ AdminInit /\ LineEditInit /\ LogBufInit /\ FileTableInit

ShellNext ==
    \/ /\ part = "kill" /\ (Base \/ \E t \in Tasks : TaskKill(t))
       /\ UNCHANGED <<part, lineEditVars, logBufVars, fileTableVars>>
    \/ /\ part = "lineedit" /\ LineEditNext
       /\ UNCHANGED <<part, adminVars, logBufVars, fileTableVars>>
    \/ /\ part = "log" /\ LogBufNext
       /\ UNCHANGED <<part, adminVars, lineEditVars, fileTableVars>>
    \/ /\ part = "files" /\ FileTableNext
       /\ UNCHANGED <<part, adminVars, lineEditVars, logBufVars>>

ShellSpec == ShellInit /\ [][ShellNext]_shellVars

\* The tasks that use files are all alike.
UserSymmetry == Permutations(Users)
=============================================================================
