------------------------------ MODULE MCFiles ------------------------------
(***************************************************************************)
(* The file systems, the music player and drawing: parts that share no     *)
(* state here.  For TLC, each behaviour is one of one part.                *)
(***************************************************************************)
EXTENDS PipeProps, Gsffs, SoundPlay, Graphics

VARIABLE part  \* the part that runs; the others stay as they begin

filesVars == <<part, vars, gsffsVars, soundPlayVars, graphicsVars>>

FilesInit ==
    /\ part \in {"pipe", "gsffs", "sound", "graphics"}
    /\ Init /\ GsffsInit /\ SoundPlayInit /\ GraphicsInit

FilesNext ==
    \/ /\ part = "pipe" /\ Next
       /\ UNCHANGED <<part, gsffsVars, soundPlayVars, graphicsVars>>
    \/ /\ part = "gsffs" /\ GsffsNext
       /\ UNCHANGED <<part, vars, soundPlayVars, graphicsVars>>
    \/ /\ part = "sound" /\ SoundPlayInTime
       /\ UNCHANGED <<part, vars, gsffsVars, graphicsVars>>
    \/ /\ part = "graphics" /\ GraphicsNext
       /\ UNCHANGED <<part, vars, gsffsVars, soundPlayVars>>

\* The fairness of the pipe.
FilesFairSpec ==
    /\ FilesInit /\ [][FilesNext]_filesVars
    /\ \A s \in Sides : WF_vars(part = "pipe" /\ Work(s))
=============================================================================
