------------------------------- MODULE Radio -------------------------------
(***************************************************************************)
(* The internet radio (apps/internetradio).  Three tasks work at it: the   *)
(* iradio task, which is told to open and close and keeps the sound going  *)
(* (internetradio.c), the stream task, which talks to the station and      *)
(* writes what it sends to a pipe (ir_stream.c, ir_socket.c, shoutcast.c), *)
(* and the sound task, which reads the pipe (soundplay/mp3play.c).  They   *)
(* share two FIFOs of events, one of commands, and the states of one       *)
(* another, which they read without a lock.                                *)
(*                                                                         *)
(* A step ends where a task may lose the processor: at a sleep, at a call  *)
(* of lwIP, at the pipe, and at a log line.  A wait may time out at any    *)
(* round.  What is in the pipe is only told by its level: 0 for less than  *)
(* PAUSE_BUFF_SIZE, 1 up to the 16K that start the sound, 2 up to          *)
(* PLAY_BUFF_SIZE, 3 above.  The events for the view are left out.         *)
(***************************************************************************)
EXTENDS Integers, Sequences, SequencesExt

CONSTANTS
    Stations,
    NoStation,
    MAX_IREVENT, MAX_IRS_EVENT, MAX_SOUNDEVENT  \* what the FIFOs hold

ASSUME RadioAssumption ==
    /\ {MAX_IREVENT, MAX_IRS_EVENT, MAX_SOUNDEVENT} \subseteq Nat \ {0}
    /\ NoStation \notin Stations

VARIABLES
    irplay_event, irplayer_stat,
    iradio,             \* where the iradio task is
    ir_url,             \* the station that it was told last
    flg_reconnect,
    irs_event_fifo, ir_stream_stat,
    stream,             \* where the stream task is
    stream_url,         \* the station that it was told last
    connecting_to,      \* the one that it is connecting to
    ir_socket,          \* whose socket it is, NoStation for -1
    stream_fd,          \* the pipe is open for writing
    buffered,           \* how much is in it
    soundplay_event, soundplay_status,
    mad,                \* where the sound task is
    audio_fd,           \* the pipe is open for reading
    dropped,            \* an event found its FIFO full
    crossed             \* a command was not taken in the time it was waited for, or
                        \* the sound was started on what another connection had left

iradioVars == <<irplayer_stat, iradio, flg_reconnect>>
streamVars == <<ir_stream_stat, stream, connecting_to, ir_socket, stream_fd>>
madVars == <<soundplay_status, mad>>
radioVars == <<irplay_event, irplayer_stat, iradio, ir_url, flg_reconnect, irs_event_fifo,
               ir_stream_stat, stream, stream_url, connecting_to, ir_socket, stream_fd, buffered,
               soundplay_event, soundplay_status, mad, audio_fd, dropped, crossed>>

Levels == 0 .. 3

RadioInit ==
    /\ irplay_event = <<>> /\ irplayer_stat = "stop" /\ iradio = "loop"
    /\ ir_url = NoStation /\ flg_reconnect = FALSE
    /\ irs_event_fifo = <<>> /\ ir_stream_stat = "disconnected" /\ stream = "idle"
    /\ stream_url = NoStation /\ connecting_to = NoStation /\ ir_socket = NoStation
    /\ stream_fd = FALSE /\ buffered = 0
    /\ soundplay_event = <<>> /\ soundplay_status = "notready"
    /\ mad = "none" /\ audio_fd = FALSE
    /\ dropped = FALSE /\ crossed = FALSE

\* What a FIFO of size n holds after event e: if there is no room, what it held.
Pushed(events, n, e) == IF Len(events) < n THEN Append(events, e) ELSE events
Popped(events) == IF events = <<>> THEN <<>> ELSE Tail(events)
NextEvent(events) == IF events = <<>> THEN "noevent" ELSE Head(events)

-----------------------------------------------------------------------------
(* The user.                                                               *)

\* set_ir_event()
SetIrEvent(e) ==
    /\ irplay_event' = Pushed(irplay_event, MAX_IREVENT, e)
    /\ dropped' = (dropped \/ Len(irplay_event) = MAX_IREVENT)

open_internetradio(url) ==
    /\ ir_url' = url
    /\ SetIrEvent("open")
    /\ UNCHANGED <<iradioVars, irs_event_fifo, streamVars, stream_url, buffered, soundplay_event, madVars,
                   audio_fd, crossed>>

close_internetradio ==
    /\ SetIrEvent("close")
    /\ UNCHANGED <<iradioVars, ir_url, irs_event_fifo, streamVars, stream_url, buffered, soundplay_event,
                   madVars, audio_fd, crossed>>

-----------------------------------------------------------------------------
(* internetradio_task()                                                    *)

\* set_irs_event()
Tells(e) ==
    /\ irs_event_fifo' = Pushed(irs_event_fifo, MAX_IRS_EVENT, e)
    /\ dropped' = (dropped \/ Len(irs_event_fifo) = MAX_IRS_EVENT)
TellsNothing == UNCHANGED <<irs_event_fifo, dropped>>

\* The connection that fills the pipe is about to be closed or opened.
InChange == \/ ir_stream_stat # "receiving" \/ irs_event_fifo # <<>>
            \/ stream \in {"close", "reclose", "connect"}

\* soundplay_play(), soundplay_pause() and soundplay_stop(): the command is given
\* and the status awaited, unless the status is such that there is nothing to do.
Commanded == [play |-> {"ready", "end"}, pause |-> {"syncing", "playing"},
              stop |-> {"ready", "playing", "syncing"}]
Reached == [play |-> "play", pause |-> "pause", stop |-> "stop", resync |-> "play"]
SoundCommand(c) ==
    /\ iradio' = c
    /\ soundplay_event' = IF soundplay_status \in Commanded[c]
                            THEN Pushed(soundplay_event, MAX_SOUNDEVENT, c) ELSE soundplay_event
    /\ crossed' = (crossed \/ (irplayer_stat = "starting" /\ InChange))
NoCommand == UNCHANGED <<soundplay_event, crossed>>

TakesIrEvent(e, stat) ==
    /\ iradio = "loop" /\ irplayer_stat \in stat /\ NextEvent(irplay_event) = e
    /\ irplay_event' = Popped(irplay_event)
    /\ UNCHANGED <<ir_url, streamVars, buffered, madVars>>

\* proc_ir_stop()
IrOpen ==
    /\ TakesIrEvent("open", {"stop"})
    /\ stream_url' = ir_url
    /\ Tells("connect")
    /\ irplayer_stat' = "starting"
    /\ NoCommand /\ UNCHANGED <<iradio, flg_reconnect, audio_fd>>

\* Opened already, or closed already.
IrIgnores ==
    /\ TakesIrEvent("open", {"starting", "play", "pause"}) \/ TakesIrEvent("close", {"stop"})
    /\ TellsNothing /\ NoCommand /\ UNCHANGED <<iradioVars, stream_url, audio_fd>>

\* proc_ir_starting(): there is nothing to stop.
IrCloseStarting ==
    /\ TakesIrEvent("close", {"starting"})
    /\ Tells("disconnect")
    /\ audio_fd' = FALSE
    /\ irplayer_stat' = "stop"
    /\ NoCommand /\ UNCHANGED <<iradio, flg_reconnect, stream_url>>

\* proc_ir_play() and proc_ir_pause()
IrClose ==
    /\ TakesIrEvent("close", {"play", "pause"})
    /\ Tells("disconnect")
    /\ SoundCommand("stop")
    /\ UNCHANGED <<irplayer_stat, flg_reconnect, stream_url, audio_fd>>

\* internet_radio_stream_size(), -1 for a pipe that is not open
StreamSize == IF stream_fd THEN buffered ELSE -1

\* It does not ask whose bytes they are.
IrStarts ==
    /\ TakesIrEvent("noevent", {"starting"})
    /\ StreamSize >= 2
    /\ SoundCommand("play")
    /\ TellsNothing /\ UNCHANGED <<irplayer_stat, flg_reconnect, stream_url, audio_fd>>

\* Mistake: the stream is left to itself.
IrStartTimesOut_Connected ==
    /\ TakesIrEvent("noevent", {"starting"})
    /\ StreamSize < 2
    /\ irplayer_stat' = "stop"
    /\ TellsNothing /\ NoCommand /\ UNCHANGED <<iradio, flg_reconnect, stream_url, audio_fd>>

\* The sound has not come in time.
IrStartTimesOut ==
    /\ TakesIrEvent("noevent", {"starting"})
    /\ StreamSize < 2
    /\ Tells("disconnect")
    /\ irplayer_stat' = "stop"
    /\ NoCommand /\ UNCHANGED <<iradio, flg_reconnect, stream_url, audio_fd>>

IrPauses ==
    /\ TakesIrEvent("noevent", {"play"})
    /\ ir_stream_stat = "receiving" /\ StreamSize < 1
    /\ SoundCommand("pause")
    /\ TellsNothing /\ UNCHANGED <<irplayer_stat, flg_reconnect, stream_url, audio_fd>>

\* Goes on with what was paused, or, after a reconnection, soundplay_resync().
IrContinues ==
    /\ TakesIrEvent("noevent", {"pause"})
    /\ ir_stream_stat = "receiving" /\ StreamSize = 3
    /\ IF flg_reconnect
         THEN /\ flg_reconnect' = FALSE
              /\ iradio' = "resync"
              /\ soundplay_event' = IF soundplay_status = "ready"
                                      THEN Pushed(soundplay_event, MAX_SOUNDEVENT, "sync")
                                      ELSE soundplay_event
              /\ UNCHANGED crossed
         ELSE SoundCommand("play") /\ UNCHANGED flg_reconnect
    /\ TellsNothing /\ UNCHANGED <<irplayer_stat, stream_url, audio_fd>>

\* RECONNECT_TIME is over.
IrReconnects ==
    /\ TakesIrEvent("noevent", {"pause"})
    /\ ir_stream_stat = "receiving" /\ StreamSize < 3
    /\ Tells("reconnect")
    /\ iradio' = "reconnecting"
    /\ NoCommand /\ UNCHANGED <<irplayer_stat, flg_reconnect, stream_url, audio_fd>>

\* The wait inside: it may find the stream task still receiving what it was.
IrReconnected ==
    /\ iradio = "reconnecting"
    /\ IF ir_stream_stat = "receiving"
         THEN /\ flg_reconnect' = TRUE /\ iradio' = "loop"
              /\ TellsNothing /\ NoCommand
         ELSE Tells("disconnect") /\ SoundCommand("stop") /\ UNCHANGED flg_reconnect
    /\ UNCHANGED <<irplay_event, irplayer_stat, ir_url, streamVars, stream_url, buffered, madVars, audio_fd>>

\* The status is there, or SOUNDPLAY_STAT_TIMEOUT is over; a stop is followed by
\* soundplay_close().
IrWaitEnds ==
    /\ iradio \notin {"loop", "reconnecting"}
    /\ iradio = "resync" => soundplay_status # "syncing"
    /\ irplayer_stat' = Reached[iradio]
    /\ audio_fd' = (audio_fd /\ iradio # "stop")
    /\ iradio' = "loop"
    /\ crossed' = (crossed \/ (iradio # "resync" /\ soundplay_event # <<>>))
    /\ UNCHANGED <<irplay_event, ir_url, flg_reconnect, irs_event_fifo, streamVars, stream_url,
                   buffered, soundplay_event, madVars, dropped>>

IradioStep ==
    \/ IrOpen \/ IrIgnores \/ IrCloseStarting \/ IrClose \/ IrStarts \/ IrStartTimesOut
    \/ IrPauses \/ IrContinues \/ IrReconnects \/ IrReconnected \/ IrWaitEnds

-----------------------------------------------------------------------------
(* stream_task()                                                           *)

OthersOfStream == <<irplay_event, iradioVars, ir_url, stream_url, soundplay_event, dropped>>

TakesIrsEvent(e, stat) ==
    /\ stream = "idle" /\ ir_stream_stat \in stat /\ NextEvent(irs_event_fifo) = e
    /\ irs_event_fifo' = Popped(irs_event_fifo)
    /\ UNCHANGED <<OthersOfStream, madVars, audio_fd, crossed>>

\* proc_disconnected(): dispose_stream_buf(), and connect_ir() begins.
StreamConnects ==
    /\ \E e \in {"connect", "reconnect"} : TakesIrsEvent(e, {"disconnected"})
    /\ buffered' = 0
    /\ connecting_to' = stream_url /\ stream' = "connect"
    /\ UNCHANGED <<ir_stream_stat, ir_socket, stream_fd>>

\* Connected or disconnected already.
StreamIgnores ==
    /\ \/ TakesIrsEvent("disconnect", {"disconnected"})
       \/ TakesIrsEvent("connect", {"connecting", "receiving"})
       \/ TakesIrsEvent("reconnect", {"connecting"})
    /\ UNCHANGED <<streamVars, buffered>>

\* A disconnection begins with close_internet_radio(); a reconnection closes too.
StreamCloses ==
    /\ \/ TakesIrsEvent("disconnect", {"connecting", "receiving"}) /\ stream' = "close"
       \/ TakesIrsEvent("reconnect", {"receiving"}) /\ stream' = "reclose"
    /\ ir_socket' = NoStation
    /\ UNCHANGED <<ir_stream_stat, connecting_to, stream_fd, buffered>>

\* receive_shoutcast() or decode_shoutcast_stream() begins.
StreamReads ==
    /\ TakesIrsEvent("noevent", {"connecting", "receiving"})
    /\ stream' = IF ir_stream_stat = "connecting" THEN "message" ELSE "frame"
    /\ UNCHANGED <<ir_stream_stat, connecting_to, ir_socket, stream_fd, buffered>>

OthersInStream == <<OthersOfStream, irs_event_fifo, soundplay_status, mad, audio_fd, crossed>>

\* ... dispose_stream_buf(), close_streamfd()
StreamClosed ==
    /\ stream \in {"close", "reclose"}
    /\ buffered' = 0 /\ stream_fd' = FALSE
    /\ IF stream = "close"
         THEN stream' = "idle" /\ ir_stream_stat' = "disconnected" /\ UNCHANGED connecting_to
         ELSE stream' = "connect" /\ connecting_to' = stream_url /\ UNCHANGED ir_stream_stat
    /\ UNCHANGED <<ir_socket, OthersInStream>>

\* connect_ir(): the writer opens the pipe, which is cleared.
StreamConnected ==
    /\ stream = "connect"
    /\ ir_socket' = connecting_to
    /\ stream_fd' = TRUE /\ buffered' = 0
    /\ ir_stream_stat' = "connecting" /\ stream' = "idle"
    /\ connecting_to' = NoStation /\ UNCHANGED OthersInStream

\* There is no address, there is no socket, or the socket that was taken cannot be
\* connected, and stays; or the pipe cannot be opened.
StreamConnectFails ==
    /\ stream = "connect"
    /\ ir_socket' \in {ir_socket, NoStation, connecting_to}
    /\ buffered' = 0
    /\ stream_fd' = FALSE
    /\ ir_stream_stat' = "disconnected" /\ stream' = "idle"
    /\ connecting_to' = NoStation /\ UNCHANGED OthersInStream

\* decode_shoutcast_message() returns 1 whatever was read.  mp3stream_open() does
\* nothing if the pipe is open for reading already.
StreamStarts ==
    /\ stream = "message"
    /\ audio_fd' = TRUE
    /\ IF audio_fd THEN UNCHANGED madVars
         ELSE /\ soundplay_status' = "ready"
              /\ mad' \in IF mad = "run" THEN {"run"} ELSE {"start", "run"}
    /\ ir_stream_stat' = "receiving" /\ stream' = "idle"
    /\ UNCHANGED <<connecting_to, ir_socket, stream_fd, buffered, OthersOfStream, irs_event_fifo, crossed>>

\* A part of the sound has come and is written to the pipe, or given up after the
\* pipe's time-out.
StreamWrites ==
    /\ stream = "frame"
    /\ \/ buffered' = buffered
       \/ buffered < 3 /\ buffered' = buffered + 1
    /\ stream' = "idle"
    /\ UNCHANGED <<ir_stream_stat, connecting_to, ir_socket, stream_fd, OthersInStream>>

\* lwip_read() fails.
StreamAborts ==
    /\ stream = "frame"
    /\ ir_socket' = NoStation
    /\ stream' = "close"
    /\ UNCHANGED <<ir_stream_stat, connecting_to, stream_fd, buffered, OthersInStream>>

StreamStep ==
    \/ StreamConnects \/ StreamIgnores \/ StreamCloses \/ StreamReads \/ StreamClosed
    \/ StreamConnected \/ StreamConnectFails \/ StreamStarts \/ StreamWrites \/ StreamAborts

-----------------------------------------------------------------------------
(* The sound task: mp3_play_proc() with flg_stream set.                    *)

OthersOfSound == <<irplay_event, iradioVars, ir_url, irs_event_fifo, streamVars, stream_url,
                   audio_fd, dropped, crossed>>

\* A command is taken while nothing is played.  A stop sets flg_abort and ends
\* the procedure; a start is only waited for before the decoder runs.
MadReady ==
    /\ mad # "none" /\ soundplay_status = "ready" /\ soundplay_event # <<>>
    /\ soundplay_event' = Popped(soundplay_event)
    /\ LET command == Head(soundplay_event)
       IN CASE command = "stop" -> soundplay_status' = "end" /\ mad' = "none"
            [] command = "play" /\ mad = "start" -> soundplay_status' = "syncing" /\ mad' = "run"
            [] command = "play" /\ mad = "run" -> soundplay_status' = "playing" /\ UNCHANGED mad
            [] command = "sync" /\ mad = "run" -> soundplay_status' = "syncing" /\ UNCHANGED mad
            [] OTHER -> UNCHANGED madVars
    /\ UNCHANGED <<OthersOfSound, buffered>>

\* A frame is read.
Reads ==
    /\ audio_fd
    /\ \/ buffered' = buffered
       \/ buffered > 0 /\ buffered' = buffered - 1

\* The pipe has been empty for its whole time-out, or is closed.
ReadFails == ~ audio_fd \/ buffered = 0
EndOfPipe == audio_fd /\ buffered = 0 /\ ~ stream_fd

\* proc_mp3_syncing() takes no command.
MadSyncs ==
    /\ mad = "run" /\ soundplay_status = "syncing"
    /\ \/ Reads /\ soundplay_status' = "playing"
       \/ EndOfPipe /\ soundplay_status' = "end" /\ UNCHANGED buffered
    /\ UNCHANGED <<OthersOfSound, soundplay_event, mad>>

\* proc_mp3_playing()
MadPlays ==
    /\ mad = "run" /\ soundplay_status = "playing"
    /\ soundplay_event' = Popped(soundplay_event)
    /\ CASE NextEvent(soundplay_event) = "stop" ->
              soundplay_status' = "end" /\ mad' = "none" /\ UNCHANGED buffered
         [] NextEvent(soundplay_event) = "pause" ->
              soundplay_status' = "ready" /\ UNCHANGED <<mad, buffered>>
         [] OTHER ->
              /\ \/ Reads /\ soundplay_status' \in {"playing", "syncing"}
                 \/ ReadFails /\ soundplay_status' = "syncing" /\ UNCHANGED buffered
                 \/ EndOfPipe /\ soundplay_status' = "end" /\ UNCHANGED buffered
              /\ UNCHANGED mad
    /\ UNCHANGED OthersOfSound

\* The decoder stops at the end of a stream that was not told to stop, and is
\* started again.
MadLoops ==
    /\ mad = "run" /\ soundplay_status = "end"
    /\ soundplay_status' = "syncing"
    /\ UNCHANGED <<OthersOfSound, soundplay_event, mad, buffered>>

SoundStep == MadReady \/ MadSyncs \/ MadPlays \/ MadLoops

RadioNext ==
    \/ \E url \in Stations : open_internetradio(url)
    \/ close_internetradio
    \/ IradioStep \/ StreamStep \/ SoundStep

RadioSpec == RadioInit /\ [][RadioNext]_radioVars

\* The same up to where an event is dropped, which the code does not handle.
RadioUndropped ==
    \/ ~ dropped /\ RadioNext
    \/ dropped /\ UNCHANGED radioVars

-----------------------------------------------------------------------------
(* Properties.                                                             *)

RadioTypeOK ==
    /\ irplay_event \in BoundedSeq({"open", "close"}, MAX_IREVENT)
    /\ irs_event_fifo \in BoundedSeq({"connect", "reconnect", "disconnect"}, MAX_IRS_EVENT)
    /\ soundplay_event \in BoundedSeq({"play", "pause", "stop", "sync"}, MAX_SOUNDEVENT)
    /\ irplayer_stat \in {"stop", "starting", "play", "pause"}
    /\ iradio \in {"loop", "reconnecting"} \cup DOMAIN Reached
    /\ ir_stream_stat \in {"disconnected", "connecting", "receiving"}
    /\ stream \in {"idle", "connect", "close", "reclose", "message", "frame"}
    /\ {ir_url, stream_url, connecting_to, ir_socket} \subseteq Stations \cup {NoStation}
    /\ buffered \in Levels
    /\ soundplay_status \in {"notready", "ready", "syncing", "playing", "end"}
    /\ mad \in {"none", "start", "run"}
    /\ {flg_reconnect, stream_fd, audio_fd, dropped, crossed} \subseteq BOOLEAN

\* Between two events the stream task has the pipe open exactly while it is not
\* disconnected, and never without a connection to fill it from
\* (proc_disconnected(), proc_connecing(), proc_receiving()).
StreamHasItsMeans ==
    stream = "idle" => /\ stream_fd <=> ir_stream_stat # "disconnected"
                       /\ stream_fd => ir_socket # NoStation

\* A player that has stopped leaves no stream behind: the stream is disconnected,
\* or will be with the last event it is told (disconnect_internet_radio()).
StoppedMeansDisconnected ==
    (irplayer_stat = "stop" /\ ~ dropped) =>
        IF irs_event_fifo # <<>> THEN Last(irs_event_fifo) = "disconnect"
        ELSE stream = "close" \/ (ir_stream_stat = "disconnected" /\ stream # "connect")

\* However fast stations are changed, the one that is received in the end is the
\* one that was opened last (connect_internet_radio(), internet_radio_proc()).
LastStationIsReceived ==
    (stream = "idle" /\ ir_stream_stat # "disconnected" /\ irs_event_fifo = <<>> /\ ~ dropped)
        => ir_socket = stream_url

\* The radio does not say that it plays while the sound is paused or was never
\* started (soundplay_play(), _pause() and _resync(), mp3_play_proc()).
PlayIsHeard ==
    (irplayer_stat = "play" /\ iradio = "loop" /\ ~ crossed /\ ~ dropped)
        => mad = "run" /\ (soundplay_status # "ready" \/ soundplay_event = <<"sync">>)

\* The three tasks agree on the stream and the sound, but for dropped events and
\* for the sound where the tasks crossed.
RadioInv ==
    /\ RadioTypeOK /\ StreamHasItsMeans /\ StoppedMeansDisconnected
    /\ LastStationIsReceived /\ PlayIsHeard

=============================================================================
