------------------------------ MODULE SoundPlay ------------------------------
(***************************************************************************)
(* The music player: the task of apps/musicplay, which handles buttons and *)
(* sound events (sdmusic.c) and calls apps/soundplay, and the task of      *)
(* soundplay.c, which decodes MP3 (mp3play.c) and M4A files (m4aplay.c).   *)
(* They share a status that both write, a FIFO of commands, the function   *)
(* that the sound task is to run, and the file.                            *)
(*                                                                         *)
(* A step ends where a task may lose the processor to the other: at a      *)
(* sleep, at a read of the file, at an event it posts, and at a log line,  *)
(* which goes out through the console.  Radio streams are left out.        *)
(***************************************************************************)
EXTENDS Integers, Sequences, SequencesExt

CONSTANTS
    MaxCommands,    \* what soundplay_event holds
    MaxSoundEvents  \* bound: sound events that are not handled

ASSUME SoundPlayAssumption == MaxCommands \in Nat \ {0} /\ MaxSoundEvents \in Nat \ {0}

VARIABLES
    status,     \* soundplay_status
    proc,       \* soundplay_proc: a file format, or "none"
    soundtask,  \* where the sound task is
    commands,   \* soundplay_event
    flg_abort,
    opened,     \* audio_fd >= 0
    format,     \* music_info.format
    frames,     \* audio_frame_count, 3 for more
    audioset,   \* flg_audioset, or buf_count of an M4A file
    seek,       \* next_audio_frame_count, 3 for more
    dma,        \* the audio device plays
    soundevents,
    ui,         \* where the player's task is
    after,      \* what it does after soundplay_stop()
    sdstatus,   \* sdmusicplay_status
    late        \* a wait of the player timed out, or the tasks crossed: a song ended with
                \* a command it had not taken, lost its function, or plays on after its end

soundPlayVars == <<status, proc, soundtask, commands, flg_abort, opened, format, frames,
                   audioset, seek, dma, soundevents, ui, after, sdstatus, late>>
fileVars == <<opened, format>>
soundVars == <<flg_abort, frames, audioset, seek>>
playerVars == <<ui, after, sdstatus>>

SoundPlayInit ==
    /\ status = "notready" /\ proc = "none" /\ soundtask = "none"
    /\ commands = <<>> /\ flg_abort = FALSE
    /\ opened = FALSE /\ format = "mp3"
    /\ frames = 0 /\ audioset = 0 /\ seek = -1 /\ dma = FALSE
    /\ soundevents = <<>>
    /\ ui = "open" /\ after = "none" /\ sdstatus = "notready"
    /\ late = FALSE

\* create_event(), dropped when the queue is full.  The events of a start and of
\* a pause only change the view and are left out.
Posts(what) ==
    soundevents' = IF Len(soundevents) < MaxSoundEvents
                     THEN Append(soundevents, what) ELSE soundevents

NextCommand == IF commands = <<>> THEN "noevent" ELSE Head(commands)
TakesCommand == commands' = IF commands = <<>> THEN <<>> ELSE Tail(commands)

-----------------------------------------------------------------------------
(* soundplay.c, in the player's task.                                      *)

\* set_sound_event()
Commands(c) ==
    commands' = IF Len(commands) < MaxCommands THEN Append(commands, c) ELSE commands

\* The command is given and its effect awaited, or there is nothing to do.
Command(op, allowed, otherwise) ==
    IF status \in allowed
      THEN ui' = op /\ Commands(op)
      ELSE ui' = otherwise /\ UNCHANGED commands

soundplay_play == Command("play", {"ready", "end"}, "idle")
soundplay_pause == Command("pause", {"syncing", "playing"}, "idle")
\* Mistake: the end of the song is not awaited.
soundplay_stop_NoWait == Commands("stop") /\ ui' = "close"

soundplay_stop == Command("stop", {"ready", "playing", "syncing"}, "close")

Awaited == [play |-> "playing", pause |-> "ready", stop |-> "end"]

\* The status has changed, or SOUNDPLAY_STAT_TIMEOUT is over.
WaitEnds ==
    /\ ui \in DOMAIN Awaited
    /\ late' = (late \/ status # Awaited[ui])
    /\ ui' = IF ui = "stop" THEN "close" ELSE "idle"
    /\ UNCHANGED <<status, proc, soundtask, commands, soundVars, fileVars, dma,
                   soundevents, after, sdstatus>>

\* soundplay_close(), and what follows a stop.
soundplay_close ==
    /\ ui = "close"
    /\ opened' = FALSE
    /\ \/ ui' = "open" /\ UNCHANGED sdstatus
       \/ after = "ff" /\ ui' = "open" /\ sdstatus' = "stop"  \* ff_sdmusic_play(): the last one
    /\ UNCHANGED <<status, proc, soundtask, commands, soundVars, format, dma,
                   soundevents, after, late>>

\* soundplay_open(): soundfile_open(), and the start values.
soundplay_open ==
    /\ ui = "open" /\ ~ opened
    /\ opened' = TRUE /\ format' \in {"mp3", "m4a"}
    /\ flg_abort' = FALSE /\ frames' = 0 /\ audioset' = 0 /\ seek' = -1
    /\ ui' = "prepare"
    /\ late' = (late \/ soundtask # "none" \/ Contains(soundevents, "end"))
    /\ UNCHANGED <<status, proc, soundtask, commands, dma, soundevents, after, sdstatus>>

\* A file is open already, or this one cannot be opened.
soundplay_open_Fails ==
    /\ ui = "open"
    /\ ui' = "idle" /\ after' = "none"
    /\ UNCHANGED <<status, proc, soundtask, commands, soundVars, fileVars, dma,
                   soundevents, sdstatus, late>>

\* The tag of the file is read ...
Prepare ==
    /\ ui = "prepare"
    /\ status' = "ready"
    /\ Posts("prepared")
    /\ ui' = "start"
    /\ UNCHANGED <<proc, soundtask, commands, soundVars, fileVars, dma, after, sdstatus, late>>

\* ... or is no good, and the file stays open.
PrepareFails ==
    /\ ui = "prepare"
    /\ ui' = "idle" /\ after' = "none"
    /\ UNCHANGED <<status, proc, soundtask, commands, soundVars, fileVars, dma,
                   soundevents, sdstatus, late>>

\* soundplay_start_proc(), and the play that follows a selection.
StartProc ==
    /\ ui = "start"
    /\ proc' = format
    /\ status' = "ready"
    /\ late' = (late \/ soundtask = "ending")
    /\ IF after = "select" /\ sdstatus = "play"
         THEN ui' = "play" /\ Commands("play")
         ELSE ui' = "idle" /\ UNCHANGED commands
    /\ after' = "none"
    /\ UNCHANGED <<soundtask, soundVars, fileVars, dma, soundevents, sdstatus>>

-----------------------------------------------------------------------------
(* The player: buttons, list and sound events.                             *)

\* do_play_pause()
PlayPause ==
    /\ ui = "idle"
    /\ \/ sdstatus \in {"opened", "stop"} /\ sdstatus' = "play" /\ soundplay_play
       \/ sdstatus = "play" /\ sdstatus' = "stop" /\ soundplay_pause
    /\ UNCHANGED <<status, proc, soundtask, soundVars, fileVars, dma, soundevents, after, late>>

\* do_fr_sdmusic() and do_ff_sdmusic(), and a song chosen from the list.
Change ==
    /\ ui = "idle"
    /\ soundplay_stop
    /\ after' \in {"none", "ff", "select"}
    /\ UNCHANGED <<status, proc, soundtask, soundVars, fileVars, dma, soundevents, sdstatus, late>>

\* soundplay_seek(): the decoder finds the place while the song plays; the file is
\* moved at once otherwise.
soundplay_seek ==
    /\ ui = "idle" /\ status = "playing"
    /\ seek' \in {0, 3}
    /\ UNCHANGED <<status, proc, soundtask, commands, flg_abort, frames, audioset, fileVars,
                   dma, soundevents, playerVars, late>>

\* sdmusic_sound_proc()
HandleEvent ==
    /\ ui = "idle" /\ soundevents # <<>>
    /\ soundevents' = Tail(soundevents)
    /\ LET what == Head(soundevents)
       IN CASE what \in {"prepared", "stop"} /\ sdstatus = "play" ->
                 soundplay_play /\ UNCHANGED <<sdstatus, opened, after>>
            [] what = "prepared" /\ sdstatus # "play" ->
                 sdstatus' = "opened" /\ UNCHANGED <<ui, commands, opened, after>>
            [] what = "end" ->
                 /\ opened' = FALSE
                 /\ \/ sdstatus # "play" /\ UNCHANGED <<ui, after, sdstatus>>
                    \/ sdstatus = "play" /\ ui' = "open" /\ after' = "none"
                       /\ sdstatus' \in {"play", "stop"}
                 /\ UNCHANGED commands
            [] OTHER -> UNCHANGED <<ui, commands, sdstatus, opened, after>>
    /\ UNCHANGED <<status, proc, soundtask, soundVars, format, dma, late>>

-----------------------------------------------------------------------------
(* soundplay_task() and mp3_play_proc().                                   *)

\* The song ends, whatever was commanded.
Crosses == late' = (late \/ commands # <<>>)

RunProc ==
    /\ soundtask = "none" /\ proc # "none"
    /\ soundtask' = IF proc = "mp3" THEN "ready" ELSE "m4a"
    /\ UNCHANGED <<status, proc, commands, soundVars, fileVars, dma, soundevents, playerVars, late>>

\* Before the decoder runs.
Ready ==
    /\ soundtask = "ready" /\ status = "ready"
    /\ TakesCommand
    /\ CASE NextCommand = "play" -> status' = "syncing" /\ UNCHANGED soundtask
         [] NextCommand = "stop" -> status' = "end" /\ soundtask' = "ending"
         [] OTHER -> UNCHANGED <<status, soundtask>>
    /\ UNCHANGED <<proc, soundVars, fileVars, dma, soundevents, playerVars, late>>

ReadyEnds ==
    /\ soundtask = "ready" /\ status # "ready"
    /\ soundtask' = "input"
    /\ UNCHANGED <<status, proc, commands, soundVars, fileVars, dma, soundevents, playerVars, late>>

\* mp3_input() goes where the player has sought to.  While the file is moved the
\* player can but give commands, which are read afterwards, so this ends no step.
Seeks == seek' = -1 /\ frames' = IF seek >= 0 THEN seek ELSE frames

\* While the song plays it takes the command first, then it reads
\* the next frame, or finds that there is none where it should be.
InputPlaying ==
    /\ soundtask = "input" /\ status = "playing"
    /\ Seeks /\ TakesCommand
    /\ CASE NextCommand = "stop" ->
              status' = "end" /\ flg_abort' = TRUE /\ soundtask' = "done" /\ UNCHANGED dma
         [] NextCommand = "pause" ->
              status' = "ready" /\ dma' = FALSE /\ UNCHANGED <<soundtask, flg_abort>>
         [] OTHER ->
              /\ \/ soundtask' = "read" /\ UNCHANGED status
                 \/ status' = "syncing" /\ UNCHANGED soundtask
              /\ UNCHANGED <<flg_abort, dma>>
    /\ UNCHANGED <<proc, audioset, fileVars, soundevents, playerVars, late>>

\* The frame has been read and event 103 posted: it is decoded, or the file ends
\* there, or cannot be read.
FrameRead ==
    /\ soundtask = "read"
    /\ \/ opened /\ soundtask' = "frame" /\ UNCHANGED <<status, late>>
       \/ status' = "end" /\ soundtask' \in {"done", "input"} /\ Crosses
    /\ UNCHANGED <<proc, commands, soundVars, fileVars, dma, soundevents, playerVars>>

\* While it is paused.  The first play of a song searches a frame ...
InputReady ==
    /\ soundtask = "input" /\ status = "ready"
    /\ Seeks /\ TakesCommand
    /\ CASE NextCommand = "play" /\ frames' = 0 ->
              status' = "playing" /\ soundtask' = "sync" /\ UNCHANGED <<flg_abort, dma>>
         [] NextCommand = "play" /\ frames' > 0 ->
              status' = "playing" /\ dma' = TRUE /\ UNCHANGED <<soundtask, flg_abort>>
         [] NextCommand = "stop" ->
              status' = "end" /\ flg_abort' = TRUE /\ soundtask' = "done" /\ UNCHANGED dma
         [] OTHER -> UNCHANGED <<status, soundtask, flg_abort, dma>>
    /\ UNCHANGED <<proc, audioset, fileVars, soundevents, playerVars, late>>

\* ... and so does a song that has lost its frames.
InputSyncing ==
    /\ soundtask = "input" /\ status = "syncing"
    /\ Seeks /\ soundtask' = "sync"
    /\ UNCHANGED <<status, proc, commands, flg_abort, audioset, fileVars, dma, soundevents,
                   playerVars, late>>

\* proc_mp3_syncing(), which takes no command: a frame is found, ...
Synced ==
    /\ soundtask = "sync" /\ opened
    /\ status' = "playing" /\ soundtask' = "frame"
    /\ late' = (late \/ status = "end")
    /\ UNCHANGED <<proc, commands, soundVars, fileVars, dma, soundevents, playerVars>>

\* ... or the search is given up: the first header cannot be read, or the file ends, or
\* the frame cannot be read.
SyncEnds ==
    /\ soundtask = "sync" /\ soundtask' = "done"
    /\ \/ status' = "end" /\ Crosses
       \/ UNCHANGED <<status, late>>
    /\ UNCHANGED <<proc, commands, soundVars, fileVars, dma, soundevents, playerVars>>

\* A read that fails in the search for a header ends the song, and is repeated.
SyncGoesOn ==
    /\ soundtask = "sync"
    /\ status' = "end" /\ Crosses
    /\ UNCHANGED <<proc, soundtask, commands, soundVars, fileVars, dma, soundevents, playerVars>>

InputEnds ==
    /\ soundtask = "input" /\ status \in {"notready", "end"}
    /\ Seeks /\ soundtask' = "done"
    /\ UNCHANGED <<status, proc, commands, flg_abort, audioset, fileVars, dma, soundevents,
                   playerVars, late>>

\* mp3_output(): the sound starts with the third frame.
Output ==
    /\ soundtask = "frame"
    /\ IF status = "end"
         THEN /\ flg_abort' = TRUE /\ soundtask' = "done"
              /\ UNCHANGED <<frames, audioset, dma, soundevents>>
         ELSE /\ soundtask' = "input"
              /\ frames' = IF frames < 3 THEN frames + 1 ELSE frames
              /\ audioset' = CASE audioset = 0 /\ frames = 1 -> 1
                               [] audioset = 0 /\ frames > 1 -> 2
                               [] audioset = 1 /\ frames > 1 -> 2
                               [] OTHER -> audioset
              /\ dma' = (dma \/ (audioset # 2 /\ audioset' = 2))
              /\ UNCHANGED <<flg_abort, soundevents>>
    /\ UNCHANGED <<status, proc, commands, seek, fileVars, playerVars, late>>

\* mp3_error(): a frame that cannot be decoded is only counted.
FrameError ==
    /\ soundtask = "frame"
    /\ soundtask' = "input"
    /\ frames' = IF frames < 3 THEN frames + 1 ELSE frames
    /\ UNCHANGED <<status, proc, commands, flg_abort, audioset, seek, fileVars, dma, soundevents,
                   playerVars, late>>

\* The decoder has ended.
Done ==
    /\ soundtask = "done"
    /\ dma' = FALSE
    /\ Posts(IF flg_abort THEN "stop" ELSE "end")
    /\ soundtask' = "ending"
    /\ UNCHANGED <<status, proc, commands, soundVars, fileVars, playerVars, late>>

\* Mistake: the function is left set.
ProcEnds_RunsAgain ==
    /\ soundtask = "ending"
    /\ soundtask' = "none"
    /\ UNCHANGED <<status, proc, commands, soundVars, fileVars, dma, soundevents, playerVars, late>>

\* The function has returned: whatever soundplay_proc is set to now is lost.
ProcEnds ==
    /\ soundtask = "ending"
    /\ proc' = "none" /\ soundtask' = "none"
    /\ UNCHANGED <<status, commands, soundVars, fileVars, dma, soundevents, playerVars, late>>

-----------------------------------------------------------------------------
(* m4a_play_proc().                                                        *)

\* A stop ends the song without soundio_stop_sound().
M4aCommand ==
    /\ soundtask = "m4a" /\ commands # <<>>
    /\ TakesCommand
    /\ CASE NextCommand = "play" ->
              status' = "playing" /\ soundtask' = "m4aframe" /\ seek' = -1
              /\ UNCHANGED <<audioset, dma>>
         [] NextCommand = "stop" ->
              status' = "end" /\ soundtask' = "ending" /\ UNCHANGED <<audioset, seek, dma>>
         [] NextCommand = "pause" ->
              status' = "ready" /\ audioset' = 0 /\ dma' = FALSE
              /\ UNCHANGED <<soundtask, seek>>
    /\ UNCHANGED <<proc, flg_abort, frames, fileVars, soundevents, playerVars, late>>

\* Without a command a song that is not paused goes on.
M4aGoesOn ==
    /\ soundtask = "m4a" /\ commands = <<>> /\ status # "ready"
    /\ soundtask' = "m4aframe" /\ seek' = -1
    /\ UNCHANGED <<status, proc, commands, flg_abort, frames, audioset, fileVars, dma, soundevents,
                   playerVars, late>>

\* The sound starts with the second frame that is decoded since the start or
\* the last pause.
M4aFrame ==
    /\ soundtask = "m4aframe"
    /\ opened
    /\ soundtask' = "m4a"
    /\ audioset' \in {audioset, IF audioset < 2 THEN audioset + 1 ELSE audioset}
    /\ dma' = (dma \/ (audioset = 1 /\ audioset' = 2))
    /\ UNCHANGED <<status, proc, commands, flg_abort, frames, seek, fileVars, soundevents,
                   playerVars, late>>

\* That was the last frame, or it could not be read.
M4aEnds ==
    /\ soundtask = "m4aframe"
    /\ status' = "end"
    /\ dma' = FALSE
    /\ Posts("end")
    /\ soundtask' = "ending"
    /\ Crosses
    /\ UNCHANGED <<proc, commands, soundVars, fileVars, playerVars>>

Mp3Step == Ready \/ ReadyEnds \/ InputPlaying \/ FrameRead \/ InputReady \/ InputSyncing
           \/ Synced \/ SyncEnds \/ SyncGoesOn \/ InputEnds \/ Output \/ FrameError \/ Done
M4aStep == M4aCommand \/ M4aGoesOn \/ M4aFrame \/ M4aEnds
SoundTask == RunProc \/ Mp3Step \/ M4aStep \/ ProcEnds
Player == \/ soundplay_open \/ soundplay_open_Fails \/ Prepare \/ PrepareFails \/ StartProc
          \/ PlayPause \/ Change \/ soundplay_seek \/ HandleEvent \/ WaitEnds \/ soundplay_close

SoundPlayNext == SoundTask \/ Player

SoundPlaySpec == SoundPlayInit /\ [][SoundPlayNext]_soundPlayVars

\* The same up to where a wait of the player times out or the tasks cross, which
\* the code does not handle.
SoundPlayInTime ==
    \/ ~ late /\ SoundPlayNext
    \/ late /\ UNCHANGED soundPlayVars

-----------------------------------------------------------------------------
(* Properties.                                                             *)

SoundPlayTypeOK ==
    /\ status \in {"notready", "ready", "syncing", "playing", "end"}
    /\ proc \in {"none", "mp3", "m4a"} /\ format \in {"mp3", "m4a"}
    /\ soundtask \in {"none", "ready", "input", "read", "sync", "frame", "done",
                      "m4a", "m4aframe", "ending"}
    /\ commands \in BoundedSeq({"play", "pause", "stop"}, MaxCommands)
    /\ frames \in 0 .. 3 /\ audioset \in 0 .. 2 /\ seek \in {-1, 0, 3}
    /\ {flg_abort, opened, dma, late} \subseteq BOOLEAN
    /\ soundevents \in BoundedSeq({"prepared", "stop", "end"}, MaxSoundEvents)
    /\ ui \in {"idle", "play", "pause", "stop", "close", "open", "prepare", "start"}
    /\ after \in {"none", "ff", "select"}
    /\ sdstatus \in {"notready", "opened", "play", "stop"}

\* A command is taken by the song it was given to (soundplay_play(), _pause()
\* and _stop(), mp3_input(), m4a_play_proc()): none is left for the next song.
\* Excepted are a song that ends by itself with the command in the FIFO, and a wait
\* that times out.
NoStaleCommands == late \/ ui # "idle" \/ commands = <<>>

\* A song that the player takes for ready has its function set, so that it can
\* be played (soundplay_start_proc(), soundplay_task()).
ReadySongIsRun == late \/ ui # "idle" \/ status # "ready" \/ proc # "none"

\* The decoder reads no file that the player has closed, but for a search for a
\* header whose reads fail, which goes on after it has ended the song.
ReadsAnOpenFile ==
    \/ late \/ opened
    \/ soundtask \notin {"read", "sync", "frame", "m4aframe"}
    \/ soundtask = "sync" /\ status = "end"

\* What the manual of the shell command "stop" says: "Stop play sound data".
StopSilences == soundtask = "none" => ~ dma

\* The player and the decoder agree on the song, its file and its commands as
\* long as no wait of the player times out and the tasks do not cross.
SoundPlayInv == SoundPlayTypeOK /\ NoStaleCommands /\ ReadySongIsRun /\ ReadsAnOpenFile

=============================================================================
