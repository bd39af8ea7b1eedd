------------------------------- MODULE PlayerProofs -------------------------------
(***************************************************************************)
(* The music player.  Radio: the three tasks of the internet radio agree   *)
(* on the stream and the sound, for every size of their FIFOs, but for     *)
(* dropped events and where the tasks crossed.  Audio: what is heard is in *)
(* order, for any number of frames.  MusicList: the lists hold what is on  *)
(* the card, their file is read as it was written, and the player and its  *)
(* list view stay inside them, for any files of the card, but for what a   *)
(* search leaves behind.                                                   *)
(***************************************************************************)
EXTENDS MCPlayer, SeqLemmas

-----------------------------------------------------------------------------
(* The internet radio. *)

\* RadioTypeOK, the FIFOs as sequences.
RadioTypes ==
    /\ irplay_event \in Seq({"open", "close"}) /\ Len(irplay_event) <= MAX_IREVENT
    /\ /\ irs_event_fifo \in Seq({"connect", "reconnect", "disconnect"})
       /\ Len(irs_event_fifo) <= MAX_IRS_EVENT
    /\ /\ soundplay_event \in Seq({"play", "pause", "stop", "sync"})
       /\ Len(soundplay_event) <= MAX_SOUNDEVENT
    /\ irplayer_stat \in {"stop", "starting", "play", "pause"}
    /\ iradio \in {"loop", "reconnecting", "play", "pause", "stop", "resync"}
    /\ ir_stream_stat \in {"disconnected", "connecting", "receiving"}
    /\ stream \in {"idle", "connect", "close", "reclose", "message", "frame"}
    /\ ir_url \in Stations \cup {NoStation} /\ stream_url \in Stations \cup {NoStation}
    /\ connecting_to \in Stations \cup {NoStation} /\ ir_socket \in Stations \cup {NoStation}
    /\ buffered \in Levels
    /\ soundplay_status \in {"notready", "ready", "syncing", "playing", "end"}
    /\ mad \in {"none", "start", "run"}
    /\ flg_reconnect \in BOOLEAN /\ stream_fd \in BOOLEAN /\ audio_fd \in BOOLEAN
    /\ dropped \in BOOLEAN /\ crossed \in BOOLEAN

\* In which state of the player each command is waited for.
CommandFits ==
    /\ iradio = "pause" => irplayer_stat = "play"
    /\ iradio = "stop" => irplayer_stat \in {"play", "pause"}
    /\ iradio = "play" => irplayer_stat \in {"starting", "pause"}
    /\ iradio \in {"resync", "reconnecting"} => irplayer_stat = "pause"

\* Whoever is about to open or to connect knows the station.
StationIsKnown ==
    /\ Contains(irplay_event, "open") => ir_url \in Stations
    /\ \/ irplayer_stat # "stop" \/ irs_event_fifo # <<>>
       \/ stream # "idle" \/ ir_stream_stat # "disconnected"
       => stream_url \in Stations
    /\ stream = "connect" => connecting_to \in Stations

\* StreamHasItsMeans, also while the stream task reads.
StreamFits ==
    /\ stream \in {"idle", "message", "frame"} =>
          /\ stream_fd <=> ir_stream_stat # "disconnected"
          /\ stream_fd => ir_socket \in Stations
    /\ stream = "message" => ir_stream_stat = "connecting"
    /\ stream \in {"frame", "reclose"} => ir_stream_stat = "receiving"

\* The stream is disconnected, or will be with the last event that it is told.
StreamEnds ==
    IF irs_event_fifo # <<>> THEN Last(irs_event_fifo) = "disconnect"
    ELSE stream = "close" \/ (ir_stream_stat = "disconnected" /\ stream # "connect")

\* StoppedMeansDisconnected, and so as soon as the sound is stopped.
StoppedEnds == irplayer_stat = "stop" \/ iradio = "stop" => StreamEnds

\* A connection to another station than the last one will be given up.
OldStationEnds ==
    /\ stream = "connect" /\ connecting_to # stream_url =>
          Contains(irs_event_fifo, "disconnect")
    /\ /\ stream \in {"idle", "message", "frame"}
       /\ ir_stream_stat # "disconnected" /\ ir_socket # stream_url
       => Contains(irs_event_fifo, "disconnect")

\* What the sound task does, and what it says.
SoundFits ==
    /\ mad = "none" => soundplay_status \in {"notready", "end"}
    /\ mad = "start" => soundplay_status = "ready"
    /\ mad = "run" => soundplay_status # "notready"

\* The pipe is open for reading while a connection fills it that is not told to
\* end, and while the sound is on; and then there is a procedure that reads it.
PipeIsRead ==
    /\ ir_stream_stat = "receiving" /\ stream # "close"
       /\ ~ Contains(irs_event_fifo, "disconnect") => audio_fd
    /\ irplayer_stat \in {"play", "pause"} \/ iradio # "loop" => iradio = "stop" \/ audio_fd
    /\ audio_fd => iradio = "stop" \/ mad # "none"
    /\ irplayer_stat \in {"play", "pause"} => iradio = "stop" \/ mad = "run"

\* The command that is not taken yet is the one that is waited for, or the last
\* one that was not waited for; and one that was taken has had its effect.
SoundIsTold ==
    /\ iradio \in {"loop", "reconnecting"} =>
          soundplay_event = <<>> \/ (irplayer_stat = "play" /\ soundplay_event = <<"sync">>)
    /\ iradio = "play" =>
          \/ soundplay_event = <<"play">>
          \/ soundplay_event = <<>> /\ mad = "run" /\ soundplay_status # "ready"
    /\ iradio = "pause" => soundplay_event \in {<<>>, <<"pause">>, <<"sync">>}
    /\ iradio = "stop" => soundplay_event \in {<<>>, <<"stop">>, <<"sync">>, <<"sync", "stop">>}
    /\ iradio = "resync" =>
          soundplay_event = <<"sync">> \/ (soundplay_event = <<>> /\ soundplay_status # "ready")
    /\ soundplay_event \in {<<"sync">>, <<"sync", "stop">>} => soundplay_status = "ready"
    /\ iradio = "loop" /\ irplayer_stat = "play" =>
          soundplay_status # "ready" \/ soundplay_event = <<"sync">>

\* The inductive invariant.
RadioInd ==
    /\ RadioTypes /\ CommandFits /\ StationIsKnown /\ StreamFits /\ SoundFits
    /\ dropped \/ (StoppedEnds /\ OldStationEnds)
    /\ dropped \/ crossed \/ (PipeIsRead /\ SoundIsTold)

\* What is told is told last, unless the FIFO is full.
LEMMA PushedEvents ==
    ASSUME NEW S, NEW s \in Seq(S), NEW n \in Nat \ {0}, Len(s) <= n, NEW e \in S
    PROVE  /\ Pushed(s, n, e) \in Seq(S) /\ Len(Pushed(s, n, e)) <= n
           /\ Pushed(s, n, e) # <<>>
           /\ Len(s) # n => Last(Pushed(s, n, e)) = e /\ Contains(Pushed(s, n, e), e)
           /\ \A x : Contains(s, x) => Contains(Pushed(s, n, e), x)
           /\ \A x : Contains(Pushed(s, n, e), x) => Contains(s, x) \/ x = e
<1> DEFINE p == Pushed(s, n, e)
<1>1. CASE Len(s) < n
  <2>1. p = Append(s, e)
    BY <1>1 DEF Pushed
  <2> HIDE DEF p
  <2>2. /\ p \in Seq(S) /\ Len(p) = Len(s) + 1
        /\ \A i \in 1 .. Len(p) : p[i] = IF i = Len(p) THEN e ELSE s[i]
    BY <2>1
  <2>3. /\ p # <<>> /\ Last(p) = e /\ Contains(p, e)
        /\ \A x : Contains(s, x) => Contains(p, x)
        /\ \A x : Contains(p, x) => Contains(s, x) \/ x = e
    BY <2>2 DEF Last, Contains
  <2> QED
    BY <1>1, <2>2, <2>3 DEF p
<1>2. CASE ~ (Len(s) < n)
  <2>1. Pushed(s, n, e) = s /\ Len(s) = n /\ s # <<>>
    BY <1>2 DEF Pushed
  <2> QED
    BY <2>1
<1> QED
  BY <1>1, <1>2

\* The event that is taken, and those that stay.
LEMMA PoppedEvents ==
    ASSUME NEW S, NEW s \in Seq(S), "noevent" \notin S
    PROVE  /\ Popped(s) \in Seq(S) /\ Len(Popped(s)) <= Len(s)
           /\ s = <<>> => NextEvent(s) = "noevent" /\ Popped(s) = <<>>
           /\ s # <<>> => /\ NextEvent(s) \in S /\ NextEvent(s) = Head(s)
                          /\ Popped(s) = Tail(s) /\ Contains(s, Head(s))
           /\ Popped(s) # <<>> => s # <<>> /\ Last(Popped(s)) = Last(s)
           /\ Popped(s) = <<>> /\ s # <<>> => Last(s) = NextEvent(s)
           /\ \A x : Contains(Popped(s), x) => Contains(s, x)
           /\ \A x : Contains(s, x) => Contains(Popped(s), x) \/ x = NextEvent(s)
<1> DEFINE p == Popped(s)
<1>1. CASE s = <<>>
  BY <1>1 DEF Popped, NextEvent, Contains
<1>2. CASE s # <<>>
  <2>1. p = Tail(s) /\ NextEvent(s) = Head(s)
    BY <1>2 DEF Popped, NextEvent
  <2> HIDE DEF p
  <2>2. /\ p \in Seq(S) /\ Len(p) = Len(s) - 1 /\ Len(s) >= 1
        /\ Head(s) = s[1] /\ s[1] \in S
        /\ \A i \in 1 .. Len(p) : p[i] = s[i + 1]
    BY <1>2, <2>1
  <2>3. /\ p # <<>> => Last(p) = Last(s)
        /\ p = <<>> => Last(s) = Head(s)
    BY <2>2 DEF Last
  <2>4. \A x : Contains(p, x) => Contains(s, x)
    BY <2>2 DEF Contains
  <2>5. ASSUME NEW x, Contains(s, x)
        PROVE  Contains(p, x) \/ x = Head(s)
    <3>1. PICK i \in 1 .. Len(s) : s[i] = x
      BY <2>5 DEF Contains
    <3>2. CASE i # 1
      <4>1. i - 1 \in 1 .. Len(p) /\ p[i - 1] = x
        BY <2>2, <3>1, <3>2
      <4> QED
        BY <4>1 DEF Contains
    <3> QED
      BY <2>2, <3>1, <3>2
  <2>6. Contains(s, Head(s))
    BY <2>2 DEF Contains
  <2> QED
    BY <1>2, <2>1, <2>2, <2>3, <2>4, <2>5, <2>6 DEF p
<1> QED
  BY <1>1, <1>2

\* The events that the FIFOs hold, before and after a step.
LEMMA Fifos ==
    ASSUME RadioTypes
    PROVE  /\ \A e \in {"open", "close"} :
                 /\ Pushed(irplay_event, MAX_IREVENT, e) \in Seq({"open", "close"})
                 /\ Len(Pushed(irplay_event, MAX_IREVENT, e)) <= MAX_IREVENT
           /\ Popped(irplay_event) \in Seq({"open", "close"})
           /\ Len(Popped(irplay_event)) <= MAX_IREVENT
           /\ \A e \in {"connect", "reconnect", "disconnect"} :
                 /\ Pushed(irs_event_fifo, MAX_IRS_EVENT, e)
                       \in Seq({"connect", "reconnect", "disconnect"})
                 /\ Len(Pushed(irs_event_fifo, MAX_IRS_EVENT, e)) <= MAX_IRS_EVENT
           /\ Popped(irs_event_fifo) \in Seq({"connect", "reconnect", "disconnect"})
           /\ Len(Popped(irs_event_fifo)) <= MAX_IRS_EVENT
           /\ \A e \in {"play", "pause", "stop", "sync"} :
                 /\ Pushed(soundplay_event, MAX_SOUNDEVENT, e)
                       \in Seq({"play", "pause", "stop", "sync"})
                 /\ Len(Pushed(soundplay_event, MAX_SOUNDEVENT, e)) <= MAX_SOUNDEVENT
           /\ Popped(soundplay_event) \in Seq({"play", "pause", "stop", "sync"})
           /\ Len(Popped(soundplay_event)) <= MAX_SOUNDEVENT
<1>1. {MAX_IREVENT, MAX_IRS_EVENT, MAX_SOUNDEVENT} \subseteq Nat \ {0}
  BY RadioAssumption
<1>2. /\ irplay_event \in Seq({"open", "close"}) /\ Len(irplay_event) <= MAX_IREVENT
      /\ irs_event_fifo \in Seq({"connect", "reconnect", "disconnect"})
      /\ Len(irs_event_fifo) <= MAX_IRS_EVENT
      /\ soundplay_event \in Seq({"play", "pause", "stop", "sync"})
      /\ Len(soundplay_event) <= MAX_SOUNDEVENT
  BY DEF RadioTypes
<1>3. /\ Len(Popped(irplay_event)) \in Nat /\ Len(irplay_event) \in Nat
      /\ Len(Popped(irs_event_fifo)) \in Nat /\ Len(irs_event_fifo) \in Nat
      /\ Len(Popped(soundplay_event)) \in Nat /\ Len(soundplay_event) \in Nat
  BY <1>2, PoppedEvents, LenProperties
<1>4. ASSUME NEW e \in {"open", "close"}
      PROVE  /\ Pushed(irplay_event, MAX_IREVENT, e)
                   \in Seq({"open", "close"})
             /\ Len(Pushed(irplay_event, MAX_IREVENT, e)) <= MAX_IREVENT
  BY <1>1, <1>2, PushedEvents
<1>5. ASSUME NEW e \in {"connect", "reconnect", "disconnect"}
      PROVE  /\ Pushed(irs_event_fifo, MAX_IRS_EVENT, e)
                   \in Seq({"connect", "reconnect", "disconnect"})
             /\ Len(Pushed(irs_event_fifo, MAX_IRS_EVENT, e)) <= MAX_IRS_EVENT
  <2> DEFINE S == {"connect", "reconnect", "disconnect"}
  <2>1. /\ irs_event_fifo \in Seq(S) /\ Len(irs_event_fifo) <= MAX_IRS_EVENT
        /\ MAX_IRS_EVENT \in Nat \ {0} /\ e \in S
    BY <1>1, <1>2
  <2> HIDE DEF S
  <2>2. /\ Pushed(irs_event_fifo, MAX_IRS_EVENT, e) \in Seq(S)
        /\ Len(Pushed(irs_event_fifo, MAX_IRS_EVENT, e)) <= MAX_IRS_EVENT
    BY <2>1, PushedEvents
  <2> QED
    BY <2>2 DEF S
<1>6. ASSUME NEW e \in {"play", "pause", "stop", "sync"}
      PROVE  /\ Pushed(soundplay_event, MAX_SOUNDEVENT, e)
                   \in Seq({"play", "pause", "stop", "sync"})
             /\ Len(Pushed(soundplay_event, MAX_SOUNDEVENT, e)) <= MAX_SOUNDEVENT
  <2> DEFINE S == {"play", "pause", "stop", "sync"}
  <2>1. /\ soundplay_event \in Seq(S) /\ Len(soundplay_event) <= MAX_SOUNDEVENT
        /\ MAX_SOUNDEVENT \in Nat \ {0} /\ e \in S
    BY <1>1, <1>2
  <2> HIDE DEF S
  <2>2. /\ Pushed(soundplay_event, MAX_SOUNDEVENT, e) \in Seq(S)
        /\ Len(Pushed(soundplay_event, MAX_SOUNDEVENT, e)) <= MAX_SOUNDEVENT
    BY <2>1, PushedEvents
  <2> QED
    BY <2>2 DEF S
<1>7. /\ Popped(irplay_event) \in Seq({"open", "close"})
      /\ Len(Popped(irplay_event)) <= Len(irplay_event)
      /\ Popped(irs_event_fifo) \in Seq({"connect", "reconnect", "disconnect"})
      /\ Len(Popped(irs_event_fifo)) <= Len(irs_event_fifo)
      /\ Popped(soundplay_event) \in Seq({"play", "pause", "stop", "sync"})
      /\ Len(Popped(soundplay_event)) <= Len(soundplay_event)
  BY <1>2, PoppedEvents
<1>8. /\ Len(Popped(irplay_event)) <= MAX_IREVENT
      /\ Len(Popped(irs_event_fifo)) <= MAX_IRS_EVENT
      /\ Len(Popped(soundplay_event)) <= MAX_SOUNDEVENT
  BY <1>1, <1>2, <1>3, <1>7
<1> QED
  BY <1>4, <1>5, <1>6, <1>7, <1>8

\* The user, the iradio task, the stream task and the sound task, each with what
\* it leaves alone.
UserStep == (\E url \in Stations : open_internetradio(url)) \/ close_internetradio

LEMMA OthersKeepStream == RadioNext => StreamStep \/ UNCHANGED streamVars
BY DEF RadioNext, open_internetradio, close_internetradio,
       IradioStep, IrOpen, IrIgnores, IrCloseStarting, IrClose, IrStarts, IrStartTimesOut,
       IrPauses, IrContinues, IrReconnects, IrReconnected, IrWaitEnds, TakesIrEvent,
       SoundStep, MadReady, MadSyncs, MadPlays, MadLoops, OthersOfSound

LEMMA OthersKeepSound == RadioNext => StreamStarts \/ SoundStep \/ UNCHANGED madVars
BY DEF RadioNext, open_internetradio, close_internetradio,
       IradioStep, IrOpen, IrIgnores, IrCloseStarting, IrClose, IrStarts, IrStartTimesOut,
       IrPauses, IrContinues, IrReconnects, IrReconnected, IrWaitEnds, TakesIrEvent,
       StreamStep, StreamConnects, StreamIgnores, StreamCloses, StreamReads,
       StreamClosed, StreamConnected, StreamConnectFails, StreamWrites,
       StreamAborts, TakesIrsEvent, OthersInStream, madVars

\* What was dropped and what was crossed is remembered, and who opens and closes
\* the pipe for reading.
LEMMA StepsOfHistories ==
    RadioNext /\ audio_fd \in BOOLEAN /\ dropped \in BOOLEAN /\ crossed \in BOOLEAN =>
        /\ audio_fd' \in BOOLEAN /\ dropped' \in BOOLEAN /\ crossed' \in BOOLEAN
        /\ dropped => dropped'
        /\ crossed => crossed'
<1> SUFFICES ASSUME RadioNext, audio_fd \in BOOLEAN, dropped \in BOOLEAN, crossed \in BOOLEAN
             PROVE  /\ audio_fd' \in BOOLEAN /\ dropped' \in BOOLEAN /\ crossed' \in BOOLEAN
                    /\ dropped => dropped'
                    /\ crossed => crossed'
  OBVIOUS
<1>1. \/ UNCHANGED audio_fd \/ audio_fd' = TRUE \/ audio_fd' = FALSE
      \/ audio_fd' = (audio_fd /\ iradio # "stop")
  BY DEF RadioNext, open_internetradio, close_internetradio,
       IradioStep, IrOpen, IrIgnores, IrCloseStarting, IrClose, IrStarts, IrStartTimesOut,
       IrPauses, IrContinues, IrReconnects, IrReconnected, IrWaitEnds,
       StreamStep, StreamConnects, StreamIgnores, StreamCloses, StreamReads,
       StreamClosed, StreamConnected, StreamConnectFails, StreamStarts, StreamWrites,
       StreamAborts, TakesIrsEvent, OthersInStream,
       SoundStep, MadReady, MadSyncs, MadPlays, MadLoops, OthersOfSound
<1>2. \/ UNCHANGED dropped
      \/ dropped' = (dropped \/ Len(irplay_event) = MAX_IREVENT)
      \/ dropped' = (dropped \/ Len(irs_event_fifo) = MAX_IRS_EVENT)
  BY DEF RadioNext, open_internetradio, close_internetradio, SetIrEvent,
       IradioStep, IrOpen, IrIgnores, IrCloseStarting, IrClose, IrStarts, IrStartTimesOut,
       IrPauses, IrContinues, IrReconnects, IrReconnected, IrWaitEnds, Tells, TellsNothing,
       StreamStep, StreamConnects, StreamIgnores, StreamCloses, StreamReads,
       StreamClosed, StreamConnected, StreamConnectFails, StreamStarts, StreamWrites,
       StreamAborts, TakesIrsEvent, OthersOfStream, OthersInStream,
       SoundStep, MadReady, MadSyncs, MadPlays, MadLoops, OthersOfSound
<1>3. \/ UNCHANGED crossed
      \/ crossed' = (crossed \/ (irplayer_stat = "starting" /\ InChange))
      \/ crossed' = (crossed \/ (iradio # "resync" /\ soundplay_event # <<>>))
  BY DEF RadioNext, open_internetradio, close_internetradio,
       IradioStep, IrOpen, IrIgnores, IrCloseStarting, IrClose, IrStarts, IrStartTimesOut,
       IrPauses, IrContinues, IrReconnects, IrReconnected, IrWaitEnds, SoundCommand, NoCommand,
       StreamStep, StreamConnects, StreamIgnores, StreamCloses, StreamReads,
       StreamClosed, StreamConnected, StreamConnectFails, StreamStarts, StreamWrites,
       StreamAborts, TakesIrsEvent, OthersInStream,
       SoundStep, MadReady, MadSyncs, MadPlays, MadLoops, OthersOfSound
<1>4. audio_fd' \in BOOLEAN
  BY <1>1
<1>5. dropped' \in BOOLEAN /\ (dropped => dropped')
  BY <1>2
<1>6. crossed' \in BOOLEAN /\ (crossed => crossed')
  BY <1>3
<1> QED
  BY <1>4, <1>5, <1>6

LEMMA RadioTypesKept == RadioTypes /\ RadioNext => RadioTypes'
<1> SUFFICES ASSUME RadioTypes, RadioNext PROVE RadioTypes'
  OBVIOUS
<1>1. /\ irplay_event' \in Seq({"open", "close"}) /\ Len(irplay_event') <= MAX_IREVENT
      /\ irs_event_fifo' \in Seq({"connect", "reconnect", "disconnect"})
      /\ Len(irs_event_fifo') <= MAX_IRS_EVENT
      /\ soundplay_event' \in Seq({"play", "pause", "stop", "sync"})
      /\ Len(soundplay_event') <= MAX_SOUNDEVENT
  <2>0. /\ irplay_event \in Seq({"open", "close"}) /\ Len(irplay_event) <= MAX_IREVENT
        /\ irs_event_fifo \in Seq({"connect", "reconnect", "disconnect"})
        /\ Len(irs_event_fifo) <= MAX_IRS_EVENT
        /\ soundplay_event \in Seq({"play", "pause", "stop", "sync"})
        /\ Len(soundplay_event) <= MAX_SOUNDEVENT
    BY DEF RadioTypes
  <2>1. /\ \/ \E e \in {"open", "close"} : irplay_event' = Pushed(irplay_event, MAX_IREVENT, e)
           \/ irplay_event' = Popped(irplay_event)
           \/ UNCHANGED irplay_event
        /\ \/ \E e \in {"connect", "reconnect", "disconnect"} :
                 irs_event_fifo' = Pushed(irs_event_fifo, MAX_IRS_EVENT, e)
           \/ irs_event_fifo' = Popped(irs_event_fifo)
           \/ UNCHANGED irs_event_fifo
        /\ \/ \E e \in {"play", "pause", "stop", "sync"} :
                 soundplay_event' = Pushed(soundplay_event, MAX_SOUNDEVENT, e)
           \/ soundplay_event' = Popped(soundplay_event)
           \/ UNCHANGED soundplay_event
    <3>1. CASE UserStep
      BY <3>1 DEF UserStep, open_internetradio, close_internetradio, SetIrEvent
    <3>2. CASE IradioStep
      BY <3>2 DEF IradioStep, IrOpen, IrIgnores, IrCloseStarting, IrClose, IrStarts,
                  IrStartTimesOut, IrPauses, IrContinues, IrReconnects, IrReconnected,
                  IrWaitEnds, TakesIrEvent, Tells, TellsNothing, SoundCommand, NoCommand
    <3>3. CASE StreamStep
      BY <3>3 DEF StreamStep, StreamConnects, StreamIgnores, StreamCloses, StreamReads,
                  StreamClosed, StreamConnected, StreamConnectFails, StreamStarts,
                  StreamWrites, StreamAborts, TakesIrsEvent, OthersOfStream, OthersInStream
    <3>4. CASE SoundStep
      BY <3>4 DEF SoundStep, MadReady, MadSyncs, MadPlays, MadLoops, OthersOfSound
    <3> QED
      BY <3>1, <3>2, <3>3, <3>4 DEF RadioNext, UserStep
  <2> QED
    BY <2>0, <2>1, Fifos
<1>2. /\ irplayer_stat' \in {"stop", "starting", "play", "pause"}
      /\ iradio' \in {"loop", "reconnecting", "play", "pause", "stop", "resync"}
      /\ ir_url' \in Stations \cup {NoStation} /\ stream_url' \in Stations \cup {NoStation}
      /\ flg_reconnect' \in BOOLEAN
  <2>0. /\ irplayer_stat \in {"stop", "starting", "play", "pause"}
        /\ iradio \in {"loop", "reconnecting", "play", "pause", "stop", "resync"}
        /\ ir_url \in Stations \cup {NoStation} /\ stream_url \in Stations \cup {NoStation}
        /\ flg_reconnect \in BOOLEAN
    BY DEF RadioTypes
  <2>1. CASE UserStep
    BY <2>0, <2>1 DEF UserStep, open_internetradio, close_internetradio, iradioVars
  <2>2. CASE IradioStep
    <3>1. irplayer_stat' \in {"stop", "starting", "play", "pause"}
      BY <2>0, <2>2 DEF IradioStep, IrOpen, IrIgnores, IrCloseStarting, IrClose, IrStarts,
                  IrStartTimesOut, IrPauses, IrContinues, IrReconnects, IrReconnected,
                  IrWaitEnds, iradioVars, Reached
    <3>2. iradio' \in {"loop", "reconnecting", "play", "pause", "stop", "resync"}
      BY <2>0, <2>2 DEF IradioStep, IrOpen, IrIgnores, IrCloseStarting, IrClose, IrStarts,
                  IrStartTimesOut, IrPauses, IrContinues, IrReconnects, IrReconnected,
                  IrWaitEnds, iradioVars, SoundCommand
    <3>3. ir_url' = ir_url /\ stream_url' \in {stream_url, ir_url}
      BY <2>2 DEF IradioStep, IrOpen, IrIgnores, IrCloseStarting, IrClose, IrStarts,
                  IrStartTimesOut, IrPauses, IrContinues, IrReconnects, IrReconnected,
                  IrWaitEnds, TakesIrEvent
    <3>4. flg_reconnect' \in BOOLEAN
      <4>1. UNCHANGED flg_reconnect \/ flg_reconnect' = TRUE \/ flg_reconnect' = FALSE
        BY <2>2 DEF IradioStep, IrOpen, IrIgnores, IrCloseStarting, IrClose, IrStarts,
                  IrStartTimesOut, IrPauses, IrContinues, IrReconnects, IrReconnected,
                  IrWaitEnds, iradioVars
      <4> QED
        BY <2>0, <4>1
    <3> QED
      BY <2>0, <3>1, <3>2, <3>3, <3>4
  <2>3. CASE StreamStep
    <3>1. UNCHANGED <<iradioVars, ir_url, stream_url>>
      BY <2>3 DEF StreamStep, StreamConnects, StreamIgnores, StreamCloses, StreamReads,
                  StreamClosed, StreamConnected, StreamConnectFails, StreamStarts,
                  StreamWrites, StreamAborts, TakesIrsEvent, OthersOfStream, OthersInStream
    <3> QED
      BY <2>0, <3>1 DEF iradioVars
  <2>4. CASE SoundStep
    BY <2>0, <2>4 DEF SoundStep, MadReady, MadSyncs, MadPlays, MadLoops, OthersOfSound, iradioVars
  <2> QED
    BY <2>1, <2>2, <2>3, <2>4 DEF RadioNext, UserStep
<1>3. /\ ir_stream_stat' \in {"disconnected", "connecting", "receiving"}
      /\ stream' \in {"idle", "connect", "close", "reclose", "message", "frame"}
      /\ connecting_to' \in Stations \cup {NoStation} /\ ir_socket' \in Stations \cup {NoStation}
      /\ stream_fd' \in BOOLEAN
  <2>0. /\ ir_stream_stat \in {"disconnected", "connecting", "receiving"}
        /\ stream \in {"idle", "connect", "close", "reclose", "message", "frame"}
        /\ connecting_to \in Stations \cup {NoStation} /\ ir_socket \in Stations \cup {NoStation}
        /\ stream_url \in Stations \cup {NoStation} /\ stream_fd \in BOOLEAN
    BY DEF RadioTypes
  <2>1. CASE StreamStep
    <3>1. ir_stream_stat' \in {ir_stream_stat, "disconnected", "connecting", "receiving"}
      BY <2>1 DEF StreamStep, StreamConnects, StreamIgnores, StreamCloses, StreamReads,
                  StreamClosed, StreamConnected, StreamConnectFails, StreamStarts,
                  StreamWrites, StreamAborts, streamVars
    <3>2. stream' \in {stream, "idle", "connect", "close", "reclose", "message", "frame"}
      BY <2>1 DEF StreamStep, StreamConnects, StreamIgnores, StreamCloses, StreamReads,
                  StreamClosed, StreamConnected, StreamConnectFails, StreamStarts,
                  StreamWrites, StreamAborts, streamVars
    <3>3. /\ connecting_to' \in {connecting_to, stream_url, NoStation}
          /\ ir_socket' \in {ir_socket, connecting_to, NoStation}
      BY <2>1 DEF StreamStep, StreamConnects, StreamIgnores, StreamCloses, StreamReads,
                  StreamClosed, StreamConnected, StreamConnectFails, StreamStarts,
                  StreamWrites, StreamAborts, streamVars
    <3>4. stream_fd' = stream_fd \/ stream_fd' = TRUE \/ stream_fd' = FALSE
      BY <2>1 DEF StreamStep, StreamConnects, StreamIgnores, StreamCloses, StreamReads,
                  StreamClosed, StreamConnected, StreamConnectFails, StreamStarts,
                  StreamWrites, StreamAborts, streamVars
    <3>5. stream_fd' \in BOOLEAN
      BY <2>0, <3>4
    <3> QED
      BY <2>0, <3>1, <3>2, <3>3, <3>5
  <2>2. CASE UNCHANGED streamVars
    BY <2>0, <2>2 DEF streamVars
  <2> QED
    BY <2>1, <2>2, OthersKeepStream
<1>4. buffered' \in Levels
  BY DEF RadioTypes, Levels, RadioNext, open_internetradio, close_internetradio,
         IradioStep, IrOpen, IrIgnores, IrCloseStarting, IrClose, IrStarts, IrStartTimesOut,
         IrPauses, IrContinues, IrReconnects, IrReconnected, IrWaitEnds, TakesIrEvent,
         StreamStep, StreamConnects, StreamIgnores, StreamCloses, StreamReads,
         StreamClosed, StreamConnected, StreamConnectFails, StreamStarts, StreamWrites,
         StreamAborts, SoundStep, MadReady, MadSyncs, MadPlays, MadLoops, Reads
<1>5. /\ soundplay_status' \in {"notready", "ready", "syncing", "playing", "end"}
      /\ mad' \in {"none", "start", "run"}
  <2>0. /\ soundplay_status \in {"notready", "ready", "syncing", "playing", "end"}
        /\ mad \in {"none", "start", "run"}
    BY DEF RadioTypes
  <2>1. CASE StreamStarts
    BY <2>0, <2>1 DEF StreamStarts, madVars
  <2>2. CASE SoundStep
    BY <2>0, <2>2 DEF SoundStep, MadReady, MadSyncs, MadPlays, MadLoops, madVars
  <2>3. CASE UNCHANGED madVars
    BY <2>0, <2>3 DEF madVars
  <2> QED
    BY <2>1, <2>2, <2>3, OthersKeepSound
<1>6. audio_fd' \in BOOLEAN /\ dropped' \in BOOLEAN /\ crossed' \in BOOLEAN
  <2>0. audio_fd \in BOOLEAN /\ dropped \in BOOLEAN /\ crossed \in BOOLEAN
    BY DEF RadioTypes
  <2> QED
    BY <2>0, StepsOfHistories
<1> QED
  BY <1>1, <1>2, <1>3, <1>4, <1>5, <1>6 DEF RadioTypes

\* The stream task is told an event.
LEMMA ToldLast ==
    ASSUME RadioTypes, NEW e \in {"connect", "reconnect", "disconnect"}, Tells(e)
    PROVE  /\ irs_event_fifo' # <<>>
           /\ ~ dropped' => ~ dropped /\ Last(irs_event_fifo') = e /\ Contains(irs_event_fifo', e)
           /\ Contains(irs_event_fifo, "disconnect") => Contains(irs_event_fifo', "disconnect")
<1> DEFINE S == {"connect", "reconnect", "disconnect"}
<1>1. /\ irs_event_fifo \in Seq(S) /\ Len(irs_event_fifo) <= MAX_IRS_EVENT
      /\ MAX_IRS_EVENT \in Nat \ {0} /\ e \in S
  BY RadioAssumption DEF RadioTypes
<1>2. /\ irs_event_fifo' = Pushed(irs_event_fifo, MAX_IRS_EVENT, e)
      /\ dropped' = (dropped \/ Len(irs_event_fifo) = MAX_IRS_EVENT)
  BY DEF Tells
<1> HIDE DEF S
<1>3. /\ irs_event_fifo' # <<>>
      /\ Len(irs_event_fifo) # MAX_IRS_EVENT =>
            Last(irs_event_fifo') = e /\ Contains(irs_event_fifo', e)
      /\ Contains(irs_event_fifo, "disconnect") => Contains(irs_event_fifo', "disconnect")
  <2>1. Pushed(irs_event_fifo, MAX_IRS_EVENT, e) # <<>>
    BY <1>1, PushedEvents
  <2>2. ASSUME Len(irs_event_fifo) # MAX_IRS_EVENT
        PROVE  /\ Last(Pushed(irs_event_fifo, MAX_IRS_EVENT, e)) = e
               /\ Contains(Pushed(irs_event_fifo, MAX_IRS_EVENT, e), e)
    BY <1>1, <2>2, PushedEvents
  <2>3. \A x : Contains(irs_event_fifo, x) =>
                  Contains(Pushed(irs_event_fifo, MAX_IRS_EVENT, e), x)
    BY <1>1, PushedEvents
  <2> QED
    BY <1>2, <2>1, <2>2, <2>3
<1>4. ~ dropped' => ~ dropped /\ Len(irs_event_fifo) # MAX_IRS_EVENT
  BY <1>2
<1> QED
  BY <1>3, <1>4

\* The stream task takes an event, or finds none.
LEMMA TakenFirst ==
    ASSUME RadioTypes, NEW e, NextEvent(irs_event_fifo) = e,
           irs_event_fifo' = Popped(irs_event_fifo)
    PROVE  /\ e = "noevent" <=> irs_event_fifo = <<>>
           /\ e = "noevent" => irs_event_fifo' = <<>>
           /\ irs_event_fifo' # <<>> => Last(irs_event_fifo') = Last(irs_event_fifo)
           /\ irs_event_fifo' = <<>> /\ e # "noevent" => Last(irs_event_fifo) = e
           /\ Contains(irs_event_fifo', "disconnect") => Contains(irs_event_fifo, "disconnect")
           /\ Contains(irs_event_fifo, "disconnect") =>
                 Contains(irs_event_fifo', "disconnect") \/ e = "disconnect"
<1> DEFINE S == {"connect", "reconnect", "disconnect"}
<1>1. irs_event_fifo \in Seq(S) /\ "noevent" \notin S
  BY DEF RadioTypes
<1> HIDE DEF S
<1>2. /\ irs_event_fifo = <<>> => e = "noevent" /\ irs_event_fifo' = <<>>
      /\ irs_event_fifo # <<>> => e \in S
      /\ irs_event_fifo' # <<>> =>
            irs_event_fifo # <<>> /\ Last(irs_event_fifo') = Last(irs_event_fifo)
      /\ irs_event_fifo' = <<>> /\ irs_event_fifo # <<>> => Last(irs_event_fifo) = e
      /\ \A x : Contains(irs_event_fifo', x) => Contains(irs_event_fifo, x)
      /\ \A x : Contains(irs_event_fifo, x) => Contains(irs_event_fifo', x) \/ x = e
  BY <1>1, PoppedEvents
<1> QED
  BY <1>1, <1>2

\* The user's "open" is told, or taken.
LEMMA OpenIsTold ==
    ASSUME RadioTypes, RadioNext
    PROVE  /\ Contains(irplay_event', "open") =>
                 Contains(irplay_event, "open") \/ \E url \in Stations : open_internetradio(url)
           /\ IrOpen => Contains(irplay_event, "open")
<1> DEFINE S == {"open", "close"}
<1>1. /\ irplay_event \in Seq(S) /\ Len(irplay_event) <= MAX_IREVENT
      /\ MAX_IREVENT \in Nat \ {0} /\ "noevent" \notin S /\ "close" \in S /\ "open" \in S
  BY RadioAssumption DEF RadioTypes
<1>2. \/ UNCHANGED irplay_event
      \/ irplay_event' = Popped(irplay_event)
      \/ irplay_event' = Pushed(irplay_event, MAX_IREVENT, "close")
      \/ \E url \in Stations : open_internetradio(url)
  BY DEF RadioNext, close_internetradio, SetIrEvent,
         IradioStep, IrOpen, IrIgnores, IrCloseStarting, IrClose, IrStarts, IrStartTimesOut,
         IrPauses, IrContinues, IrReconnects, IrReconnected, IrWaitEnds, TakesIrEvent,
         StreamStep, StreamConnects, StreamIgnores, StreamCloses, StreamReads,
         StreamClosed, StreamConnected, StreamConnectFails, StreamStarts, StreamWrites,
         StreamAborts, TakesIrsEvent, OthersOfStream, OthersInStream,
         SoundStep, MadReady, MadSyncs, MadPlays, MadLoops, OthersOfSound
<1> HIDE DEF S
<1>3. \A x : Contains(Popped(irplay_event), x) => Contains(irplay_event, x)
  BY <1>1, PoppedEvents
<1>4. \A x : Contains(Pushed(irplay_event, MAX_IREVENT, "close"), x) =>
                Contains(irplay_event, x) \/ x = "close"
  BY <1>1, PushedEvents
<1>5. IrOpen => Contains(irplay_event, "open")
  <2>1. /\ irplay_event = <<>> => NextEvent(irplay_event) = "noevent"
        /\ irplay_event # <<>> => /\ NextEvent(irplay_event) = Head(irplay_event)
                                  /\ Contains(irplay_event, Head(irplay_event))
    BY <1>1, PoppedEvents
  <2> QED
    BY <2>1 DEF IrOpen, TakesIrEvent
<1> QED
  BY <1>2, <1>3, <1>4, <1>5

LEMMA OthersKeepIradio == RadioNext => IradioStep \/ UNCHANGED iradioVars
BY DEF RadioNext, open_internetradio, close_internetradio,
       StreamStep, StreamConnects, StreamIgnores, StreamCloses, StreamReads,
       StreamClosed, StreamConnected, StreamConnectFails, StreamStarts, StreamWrites,
       StreamAborts, TakesIrsEvent, OthersOfStream, OthersInStream,
       SoundStep, MadReady, MadSyncs, MadPlays, MadLoops, OthersOfSound

LEMMA CommandFitsKept == RadioTypes /\ CommandFits /\ RadioNext => CommandFits'
<1> SUFFICES ASSUME RadioTypes, CommandFits, RadioNext PROVE CommandFits'
  OBVIOUS
<1>0. iradio \in {"loop", "reconnecting", "play", "pause", "stop", "resync"}
  BY DEF RadioTypes
<1>1. CASE IradioStep
  BY <1>0, <1>1 DEF CommandFits, Reached, IradioStep, IrOpen, IrIgnores, IrCloseStarting,
     IrClose, IrStarts, IrStartTimesOut, IrPauses, IrContinues, IrReconnects, IrReconnected,
     IrWaitEnds, TakesIrEvent, SoundCommand, iradioVars
<1>2. CASE UNCHANGED iradioVars
  BY <1>2 DEF CommandFits, iradioVars
<1> QED
  BY <1>1, <1>2, OthersKeepIradio

LEMMA StreamFitsKept == RadioTypes /\ StationIsKnown /\ StreamFits /\ RadioNext => StreamFits'
<1> SUFFICES ASSUME RadioTypes, StationIsKnown, StreamFits, RadioNext PROVE StreamFits'
  OBVIOUS
<1>1. CASE StreamConnects
  BY <1>1 DEF StreamFits, StreamConnects
<1>2. CASE StreamIgnores
  BY <1>2 DEF StreamFits, StreamIgnores, streamVars
<1>3. CASE StreamCloses
  BY <1>3 DEF StreamFits, StreamCloses, TakesIrsEvent
<1>4. CASE StreamReads
  BY <1>4 DEF StreamFits, StreamReads, TakesIrsEvent
<1>5. CASE StreamClosed
  BY <1>5 DEF StreamFits, StreamClosed
<1>6. CASE StreamConnected
  BY <1>6 DEF StreamFits, StreamConnected, StationIsKnown
<1>7. CASE StreamConnectFails
  BY <1>7 DEF StreamFits, StreamConnectFails
<1>8. CASE StreamStarts
  BY <1>8 DEF StreamFits, StreamStarts
<1>9. CASE StreamWrites
  BY <1>9 DEF StreamFits, StreamWrites
<1>10. CASE StreamAborts
  BY <1>10 DEF StreamFits, StreamAborts
<1>11. CASE UNCHANGED streamVars
  BY <1>11 DEF StreamFits, streamVars
<1> QED
  BY <1>1, <1>2, <1>3, <1>4, <1>5, <1>6, <1>7, <1>8, <1>9, <1>10, <1>11, OthersKeepStream
     DEF StreamStep

LEMMA SoundFitsKept == RadioTypes /\ SoundFits /\ RadioNext => SoundFits'
<1> SUFFICES ASSUME RadioTypes, SoundFits, RadioNext PROVE SoundFits'
  OBVIOUS
<1>0. /\ soundplay_status \in {"notready", "ready", "syncing", "playing", "end"}
      /\ mad \in {"none", "start", "run"}
  BY DEF RadioTypes
<1>1. CASE StreamStarts
  BY <1>0, <1>1 DEF SoundFits, StreamStarts, madVars
<1>2. CASE SoundStep
  BY <1>0, <1>2 DEF SoundFits, SoundStep, MadReady, MadSyncs, MadPlays, MadLoops, madVars
<1>3. CASE UNCHANGED madVars
  BY <1>3 DEF SoundFits, madVars
<1> QED
  BY <1>1, <1>2, <1>3, OthersKeepSound

LEMMA StationIsKnownKept ==
    RadioTypes /\ CommandFits /\ StationIsKnown /\ StreamFits /\ RadioNext => StationIsKnown'
<1> SUFFICES ASSUME RadioTypes, CommandFits, StationIsKnown, StreamFits, RadioNext
             PROVE  StationIsKnown'
  OBVIOUS
<1>0. iradio \in {"loop", "reconnecting", "play", "pause", "stop", "resync"}
  BY DEF RadioTypes
<1>1. Contains(irplay_event', "open") => ir_url' \in Stations
  <2>1. CASE \E url \in Stations : open_internetradio(url)
    BY <2>1 DEF open_internetradio
  <2>2. CASE ~ \E url \in Stations : open_internetradio(url)
    <3>1. UNCHANGED ir_url
      BY <2>2 DEF RadioNext, close_internetradio,
         IradioStep, IrOpen, IrIgnores, IrCloseStarting, IrClose, IrStarts, IrStartTimesOut,
         IrPauses, IrContinues, IrReconnects, IrReconnected, IrWaitEnds, TakesIrEvent,
         StreamStep, StreamConnects, StreamIgnores, StreamCloses, StreamReads,
         StreamClosed, StreamConnected, StreamConnectFails, StreamStarts, StreamWrites,
         StreamAborts, TakesIrsEvent, OthersOfStream, OthersInStream,
         SoundStep, MadReady, MadSyncs, MadPlays, MadLoops, OthersOfSound
    <3> QED
      BY <2>2, <3>1, OpenIsTold DEF StationIsKnown
  <2> QED
    BY <2>1, <2>2
<1>2. ASSUME \/ irplayer_stat' # "stop" \/ irs_event_fifo' # <<>>
             \/ stream' # "idle" \/ ir_stream_stat' # "disconnected"
      PROVE  stream_url' \in Stations
  <2>1. CASE IrOpen
    BY <2>1, OpenIsTold DEF StationIsKnown, IrOpen
  <2>2. CASE IradioStep /\ ~ IrOpen
    <3>1. UNCHANGED <<stream_url, stream, ir_stream_stat>>
      BY <2>2 DEF IradioStep, IrIgnores, IrCloseStarting, IrClose, IrStarts, IrStartTimesOut,
         IrPauses, IrContinues, IrReconnects, IrReconnected, IrWaitEnds, TakesIrEvent, streamVars
    <3>2. irplayer_stat = "stop" => UNCHANGED <<irplayer_stat, irs_event_fifo>>
      BY <1>0, <2>2 DEF CommandFits, IradioStep, IrIgnores, IrCloseStarting, IrClose, IrStarts,
         IrStartTimesOut, IrPauses, IrContinues, IrReconnects, IrReconnected, IrWaitEnds,
         TakesIrEvent, TellsNothing, iradioVars
    <3> QED
      BY <1>2, <3>1, <3>2 DEF StationIsKnown
  <2>3. CASE StreamStep
    <3>1. UNCHANGED <<stream_url, irplayer_stat>>
      BY <2>3 DEF StreamStep, StreamConnects, StreamIgnores, StreamCloses, StreamReads,
         StreamClosed, StreamConnected, StreamConnectFails, StreamStarts, StreamWrites,
         StreamAborts, TakesIrsEvent, OthersOfStream, OthersInStream, iradioVars
    <3>2. irs_event_fifo = <<>> /\ stream = "idle" /\ ir_stream_stat = "disconnected" =>
             irs_event_fifo' = <<>> /\ stream' = "idle" /\ ir_stream_stat' = "disconnected"
      BY <2>3 DEF StreamStep, StreamConnects, StreamIgnores, StreamCloses, StreamReads,
         StreamClosed, StreamConnected, StreamConnectFails, StreamStarts, StreamWrites,
         StreamAborts, TakesIrsEvent, NextEvent, Popped, streamVars
    <3> QED
      BY <1>2, <3>1, <3>2 DEF StationIsKnown
  <2>4. CASE UserStep \/ SoundStep
    <3>1. UNCHANGED <<stream_url, irplayer_stat, irs_event_fifo, stream, ir_stream_stat>>
      BY <2>4 DEF UserStep, open_internetradio, close_internetradio, SoundStep, MadReady,
         MadSyncs, MadPlays, MadLoops, OthersOfSound, iradioVars, streamVars
    <3> QED
      BY <1>2, <3>1 DEF StationIsKnown
  <2> QED
    BY <2>1, <2>2, <2>3, <2>4 DEF RadioNext, UserStep
<1>3. stream' = "connect" => connecting_to' \in Stations
  <2>1. CASE StreamConnects
    <3>1. irs_event_fifo # <<>>
      BY <2>1, TakenFirst DEF StreamConnects, TakesIrsEvent
    <3> QED
      BY <2>1, <3>1 DEF StreamConnects, StationIsKnown
  <2>2. CASE StreamStep /\ ~ StreamConnects
    BY <2>2 DEF StationIsKnown, StreamStep, StreamIgnores, StreamCloses, StreamReads,
         StreamClosed, StreamConnected, StreamConnectFails, StreamStarts, StreamWrites,
         StreamAborts, TakesIrsEvent, streamVars
  <2>3. CASE UNCHANGED streamVars
    BY <2>3 DEF StationIsKnown, streamVars
  <2> QED
    BY <2>1, <2>2, <2>3, OthersKeepStream
<1> QED
  BY <1>1, <1>2, <1>3 DEF StationIsKnown

\* The stream that the player gives up.
LEMMA StoppedEndsKept ==
    ASSUME RadioTypes, CommandFits, StreamFits, StoppedEnds, RadioNext, ~ dropped'
    PROVE  StoppedEnds'
<1>0. /\ iradio \in {"loop", "reconnecting", "play", "pause", "stop", "resync"}
      /\ stream \in {"idle", "connect", "close", "reclose", "message", "frame"}
  BY DEF RadioTypes
<1>1. CASE IradioStep
  <2>1. ASSUME Tells("disconnect")
        PROVE  StoppedEnds'
    BY <2>1, ToldLast DEF StoppedEnds, StreamEnds
  <2>2. CASE IrOpen
    BY <1>0, <2>2 DEF StoppedEnds, CommandFits, IrOpen, TakesIrEvent
  <2>3. CASE IrStarts \/ IrPauses \/ IrContinues \/ IrReconnects
    BY <2>3 DEF StoppedEnds, IrStarts, IrPauses, IrContinues, IrReconnects, TakesIrEvent,
       SoundCommand
  <2>4. CASE IrIgnores \/ IrWaitEnds
    <3>1. UNCHANGED <<irs_event_fifo, stream, ir_stream_stat>>
      BY <2>4 DEF IrIgnores, IrWaitEnds, TakesIrEvent, TellsNothing, streamVars
    <3>2. irplayer_stat' = "stop" \/ iradio' = "stop" =>
             irplayer_stat = "stop" \/ iradio = "stop"
      BY <1>0, <2>4 DEF IrIgnores, IrWaitEnds, Reached, iradioVars
    <3> QED
      BY <3>1, <3>2 DEF StoppedEnds, StreamEnds
  <2>5. CASE IrReconnected
    <3>1. CASE ir_stream_stat = "receiving"
      BY <2>5, <3>1 DEF CommandFits, StoppedEnds, IrReconnected
    <3>2. CASE ir_stream_stat # "receiving"
      BY <2>1, <2>5, <3>2 DEF IrReconnected
    <3> QED
      BY <3>1, <3>2
  <2>6. CASE IrCloseStarting \/ IrClose \/ IrStartTimesOut
    BY <2>1, <2>6 DEF IrCloseStarting, IrClose, IrStartTimesOut
  <2> QED
    BY <1>1, <2>2, <2>3, <2>4, <2>5, <2>6 DEF IradioStep
<1>2. CASE StreamStep
  <2>1. UNCHANGED <<irplayer_stat, iradio>>
    BY <1>2 DEF StreamStep, StreamConnects, StreamIgnores, StreamCloses, StreamReads,
         StreamClosed, StreamConnected, StreamConnectFails, StreamStarts, StreamWrites,
         StreamAborts, TakesIrsEvent, OthersOfStream, OthersInStream, iradioVars
  <2>2. ASSUME StreamEnds PROVE StreamEnds'
    <3>1. CASE irs_event_fifo' = Popped(irs_event_fifo) /\ stream = "idle"
      <4>1. irs_event_fifo' # <<>> => StreamEnds'
        BY <2>2, <3>1, TakenFirst DEF StreamEnds
      <4>2. CASE irs_event_fifo' = <<>> /\ irs_event_fifo = <<>>
        <5>1. NextEvent(irs_event_fifo) = "noevent"
          BY <3>1, <4>2, TakenFirst
        <5>2. ir_stream_stat = "disconnected"
          BY <2>2, <3>1, <4>2 DEF StreamEnds
        <5> QED
          BY <1>2, <3>1, <4>2, <5>1, <5>2 DEF StreamEnds, StreamStep, StreamConnects,
             StreamIgnores, StreamCloses, StreamReads, StreamClosed, StreamConnected,
             StreamConnectFails, StreamStarts, StreamWrites, StreamAborts, TakesIrsEvent
      <4>3. CASE irs_event_fifo' = <<>> /\ irs_event_fifo # <<>>
        <5>1. NextEvent(irs_event_fifo) = "disconnect"
          BY <2>2, <3>1, <4>3, TakenFirst DEF StreamEnds
        <5> QED
          BY <1>2, <3>1, <4>3, <5>1 DEF StreamEnds, StreamStep, StreamConnects,
             StreamIgnores, StreamCloses, StreamReads, StreamClosed, StreamConnected,
             StreamConnectFails, StreamStarts, StreamWrites, StreamAborts, TakesIrsEvent,
             streamVars
      <4> QED
        BY <4>1, <4>2, <4>3
    <3>2. CASE UNCHANGED irs_event_fifo /\ stream # "idle"
      <4>1. CASE irs_event_fifo # <<>>
        BY <2>2, <3>2, <4>1 DEF StreamEnds
      <4>2. CASE irs_event_fifo = <<>> /\ stream = "close"
        BY <1>2, <3>2, <4>2 DEF StreamEnds, StreamStep, StreamConnects, StreamIgnores,
           StreamCloses, StreamReads, StreamClosed, StreamConnected, StreamConnectFails,
           StreamStarts, StreamWrites, StreamAborts, TakesIrsEvent
      <4>3. CASE irs_event_fifo = <<>> /\ stream # "close"
        <5>1. ir_stream_stat = "disconnected" /\ stream # "connect"
          BY <2>2, <4>3 DEF StreamEnds
        <5>2. stream = "message"
          BY <1>0, <3>2, <4>3, <5>1 DEF StreamFits
        <5> QED
          BY <5>1, <5>2 DEF StreamFits
      <4> QED
        BY <4>1, <4>2, <4>3
    <3> QED
      BY <1>2, <3>1, <3>2 DEF StreamStep, StreamConnects, StreamIgnores, StreamCloses,
         StreamReads, StreamClosed, StreamConnected, StreamConnectFails, StreamStarts,
         StreamWrites, StreamAborts, TakesIrsEvent, OthersInStream
  <2> QED
    BY <2>1, <2>2 DEF StoppedEnds
<1>3. CASE UserStep \/ SoundStep
  <2>1. UNCHANGED <<irplayer_stat, iradio, irs_event_fifo, stream, ir_stream_stat>>
    BY <1>3 DEF UserStep, open_internetradio, close_internetradio, SoundStep, MadReady,
         MadSyncs, MadPlays, MadLoops, OthersOfSound, iradioVars, streamVars
  <2> QED
    BY <2>1 DEF StoppedEnds, StreamEnds
<1> QED
  BY <1>1, <1>2, <1>3 DEF RadioNext, UserStep

\* The station that is given up.
LEMMA OldStationEndsKept ==
    ASSUME RadioTypes, StreamFits, StoppedEnds, OldStationEnds, RadioNext
    PROVE  OldStationEnds'
<1>1. CASE IrOpen
  <2>1. Tells("connect") /\ UNCHANGED <<stream, connecting_to, ir_stream_stat, ir_socket>>
    BY <1>1 DEF IrOpen, TakesIrEvent, streamVars
  <2>2. StreamEnds
    BY <1>1 DEF IrOpen, TakesIrEvent, StoppedEnds
  <2>3. CASE irs_event_fifo # <<>>
    <3>1. Contains(irs_event_fifo, "disconnect")
      BY <2>2, <2>3 DEF StreamEnds, RadioTypes, Last, Contains
    <3>2. Contains(irs_event_fifo', "disconnect")
      BY <2>1, <3>1, ToldLast
    <3> QED
      BY <3>2 DEF OldStationEnds
  <2>4. CASE irs_event_fifo = <<>>
    BY <2>1, <2>2, <2>4 DEF StreamEnds, OldStationEnds
  <2> QED
    BY <2>3, <2>4
<1>2. CASE IradioStep /\ ~ IrOpen
  <2>1. UNCHANGED <<stream, connecting_to, ir_stream_stat, ir_socket, stream_url>>
    BY <1>2 DEF IradioStep, IrIgnores, IrCloseStarting, IrClose, IrStarts, IrStartTimesOut,
         IrPauses, IrContinues, IrReconnects, IrReconnected, IrWaitEnds, TakesIrEvent, streamVars
  <2>2. \/ UNCHANGED irs_event_fifo
        \/ \E e \in {"connect", "reconnect", "disconnect"} : Tells(e)
    BY <1>2 DEF IradioStep, IrIgnores, IrCloseStarting, IrClose, IrStarts, IrStartTimesOut,
         IrPauses, IrContinues, IrReconnects, IrReconnected, IrWaitEnds, TakesIrEvent,
         TellsNothing
  <2>3. Contains(irs_event_fifo, "disconnect") => Contains(irs_event_fifo', "disconnect")
    BY <2>2, ToldLast
  <2> QED
    BY <2>1, <2>3 DEF OldStationEnds
<1>3. CASE StreamConnects
  BY <1>3 DEF OldStationEnds, StreamConnects, TakesIrsEvent, OthersOfStream
<1>4. CASE StreamIgnores
  <2>1. PICK e : /\ e # "disconnect" \/ ir_stream_stat = "disconnected"
                 /\ stream = "idle" /\ NextEvent(irs_event_fifo) = e
                 /\ irs_event_fifo' = Popped(irs_event_fifo)
                 /\ UNCHANGED <<stream, connecting_to, ir_stream_stat, ir_socket, stream_url>>
    BY <1>4 DEF StreamIgnores, TakesIrsEvent, OthersOfStream, streamVars
  <2>2. Contains(irs_event_fifo, "disconnect") =>
           Contains(irs_event_fifo', "disconnect") \/ e = "disconnect"
    BY <2>1, TakenFirst
  <2> QED
    BY <2>1, <2>2 DEF OldStationEnds
<1>5. CASE StreamReads
  <2>1. /\ stream = "idle" /\ NextEvent(irs_event_fifo) = "noevent"
        /\ irs_event_fifo' = Popped(irs_event_fifo)
        /\ stream' \in {"message", "frame"}
        /\ UNCHANGED <<connecting_to, ir_stream_stat, ir_socket, stream_url>>
    BY <1>5 DEF StreamReads, TakesIrsEvent, OthersOfStream
  <2>2. Contains(irs_event_fifo, "disconnect") => Contains(irs_event_fifo', "disconnect")
    BY <2>1, TakenFirst
  <2> QED
    BY <2>1, <2>2 DEF OldStationEnds
<1>6. CASE StreamCloses
  BY <1>6 DEF OldStationEnds, StreamCloses
<1>7. CASE StreamClosed
  BY <1>7 DEF OldStationEnds, StreamClosed, OthersInStream, OthersOfStream
<1>8. CASE StreamConnected \/ StreamConnectFails
  BY <1>8 DEF OldStationEnds, StreamConnected, StreamConnectFails, OthersInStream, OthersOfStream
<1>9. CASE StreamStarts \/ StreamWrites
  BY <1>9 DEF OldStationEnds, StreamFits, StreamStarts, StreamWrites, OthersInStream,
     OthersOfStream
<1>10. CASE StreamAborts
  BY <1>10 DEF OldStationEnds, StreamAborts
<1>11. CASE UserStep \/ SoundStep
  <2>1. UNCHANGED <<irs_event_fifo, stream, connecting_to, ir_stream_stat, ir_socket, stream_url>>
    BY <1>11 DEF UserStep, open_internetradio, close_internetradio, SoundStep, MadReady,
         MadSyncs, MadPlays, MadLoops, OthersOfSound, streamVars
  <2> QED
    BY <2>1 DEF OldStationEnds
<1> QED
  BY <1>1, <1>2, <1>3, <1>4, <1>5, <1>6, <1>7, <1>8, <1>9, <1>10, <1>11
     DEF RadioNext, UserStep, StreamStep

\* The commands as the sound task finds them.
LEMMA ShortFifos ==
    /\ Popped(<<>>) = <<>> /\ NextEvent(<<>>) = "noevent"
    /\ \A c, d : /\ <<c>> # <<>> /\ NextEvent(<<c>>) = c /\ Head(<<c>>) = c
                 /\ Popped(<<c>>) = <<>>
                 /\ <<c, d>> # <<>> /\ NextEvent(<<c, d>>) = c /\ Head(<<c, d>>) = c
                 /\ Popped(<<c, d>>) = <<d>>
    /\ \A c, d, x, y : /\ <<c>> = <<d>> => c = d
                       /\ <<c>> # <<x, y>>
                       /\ <<c, d>> = <<x, y>> => c = x /\ d = y
    /\ \A n \in Nat \ {0} : \A c, d : /\ Pushed(<<>>, n, c) = <<c>>
                                       /\ Pushed(<<c>>, n, d) \in {<<c>>, <<c, d>>}
<1>1. Popped(<<>>) = <<>> /\ NextEvent(<<>>) = "noevent"
  BY DEF Popped, NextEvent
<1>2. ASSUME NEW c, NEW d
      PROVE  /\ <<c>> # <<>> /\ NextEvent(<<c>>) = c /\ Head(<<c>>) = c
             /\ Popped(<<c>>) = <<>>
             /\ <<c, d>> # <<>> /\ NextEvent(<<c, d>>) = c /\ Head(<<c, d>>) = c
             /\ Popped(<<c, d>>) = <<d>>
  <2>1. <<c>> # <<>> /\ Head(<<c>>) = c /\ <<c, d>> # <<>> /\ Head(<<c, d>>) = c
    OBVIOUS
  <2>2. Tail(<<c>>) = <<>> /\ Tail(<<c, d>>) = <<d>>
    OBVIOUS
  <2> QED
    BY <2>1, <2>2 DEF NextEvent, Popped
<1>3. \A c, d, x, y : /\ <<c>> = <<d>> => c = d
                     /\ <<c>> # <<x, y>>
                     /\ <<c, d>> = <<x, y>> => c = x /\ d = y
  OBVIOUS
<1>4. ASSUME NEW n \in Nat \ {0}, NEW c, NEW d
      PROVE  /\ Pushed(<<>>, n, c) = <<c>>
             /\ Pushed(<<c>>, n, d) \in {<<c>>, <<c, d>>}
  <2>1. Append(<<>>, c) = <<c>> /\ Append(<<c>>, d) = <<c, d>>
    <3>1. <<>> \in Seq({c, d}) /\ <<c>> \in Seq({c, d}) /\ c \in {c, d} /\ d \in {c, d}
      OBVIOUS
    <3>2. Append(<<>>, c) = <<c>>
      BY <3>1
    <3>3. /\ Append(<<c>>, d) \in Seq({c, d}) /\ Len(Append(<<c>>, d)) = 2
          /\ Append(<<c>>, d)[1] = c /\ Append(<<c>>, d)[2] = d
      BY <3>1
    <3>4. /\ <<c, d>> \in Seq({c, d}) /\ Len(<<c, d>>) = 2
          /\ \A i \in 1 .. 2 : i = 1 \/ i = 2
          /\ <<c, d>>[1] = c /\ <<c, d>>[2] = d
      OBVIOUS
    <3>5. \A i \in 1 .. 2 : Append(<<c>>, d)[i] = <<c, d>>[i]
      BY <3>3, <3>4
    <3>6. Append(<<c>>, d) = <<c, d>>
      BY <3>3, <3>4, <3>5, SeqEqual
    <3> QED
      BY <3>2, <3>6
  <2>2. Len(<<>>) = 0 /\ 0 < n
    OBVIOUS
  <2>3. Pushed(<<>>, n, c) = <<c>>
    BY <2>1, <2>2 DEF Pushed
  <2>4. Pushed(<<c>>, n, d) \in {<<c>>, <<c, d>>}
    BY <2>1 DEF Pushed
  <2> QED
    BY <2>3, <2>4
<1> QED
  BY <1>1, <1>2, <1>3, <1>4

\* Only who is told to stop ends the procedure that reads the pipe.
LEMMA StopIsTold ==
    ASSUME RadioTypes, SoundIsTold, RadioNext
    PROVE  /\ mad # "none" => iradio = "stop" \/ mad' # "none"
           /\ mad = "run" => iradio = "stop" \/ mad' = "run"
<1>0. /\ iradio \in {"loop", "reconnecting", "play", "pause", "stop", "resync"}
      /\ soundplay_event \in Seq({"play", "pause", "stop", "sync"})
      /\ mad \in {"none", "start", "run"}
  BY DEF RadioTypes
<1>1. NextEvent(soundplay_event) = "stop" => iradio = "stop"
  <2>1. iradio = "stop" \/ soundplay_event \in {<<>>, <<"sync">>, <<"play">>, <<"pause">>}
    BY <1>0 DEF SoundIsTold
  <2>2. /\ NextEvent(<<>>) # "stop" /\ NextEvent(<<"sync">>) # "stop"
        /\ NextEvent(<<"play">>) # "stop" /\ NextEvent(<<"pause">>) # "stop"
    BY ShortFifos
  <2> QED
    BY <2>1, <2>2
<1>2. soundplay_event # <<>> => NextEvent(soundplay_event) = Head(soundplay_event)
  BY DEF NextEvent
<1>3. CASE StreamStarts
  BY <1>0, <1>3 DEF StreamStarts, madVars
<1>4. CASE SoundStep
  <2>1. CASE MadReady
    <3>1. mad # "none" /\ soundplay_event # <<>>
      BY <2>1 DEF MadReady
    <3>2. CASE Head(soundplay_event) = "stop"
      BY <1>1, <1>2, <3>1, <3>2
    <3>3. CASE Head(soundplay_event) # "stop"
      BY <1>0, <2>1, <3>1, <3>3 DEF MadReady, madVars
    <3> QED
      BY <3>2, <3>3
  <2>2. CASE MadPlays
    <3>1. CASE NextEvent(soundplay_event) = "stop"
      BY <1>1, <3>1
    <3>2. CASE NextEvent(soundplay_event) # "stop"
      BY <2>2, <3>2 DEF MadPlays
    <3> QED
      BY <3>1, <3>2
  <2>3. CASE MadSyncs \/ MadLoops
    BY <2>3 DEF MadSyncs, MadLoops
  <2> QED
    BY <1>4, <2>1, <2>2, <2>3 DEF SoundStep
<1>5. CASE UNCHANGED madVars
  BY <1>5 DEF madVars
<1> QED
  BY <1>3, <1>4, <1>5, OthersKeepSound

\* A sound that is started is started on the connection that fills the pipe.
LEMMA StartsOnItsConnection ==
    ASSUME RadioTypes, PipeIsRead, IrStarts, ~ crossed'
    PROVE  audio_fd
<1>1. ~ InChange
  <2>1. crossed' = (crossed \/ (irplayer_stat = "starting" /\ InChange))
    BY DEF IrStarts, SoundCommand
  <2>2. irplayer_stat = "starting"
    BY DEF IrStarts, TakesIrEvent
  <2> QED
    BY <2>1, <2>2
<1>2. ir_stream_stat = "receiving" /\ stream # "close" /\ irs_event_fifo = <<>>
  BY <1>1 DEF InChange
<1>3. ~ Contains(irs_event_fifo, "disconnect")
  BY <1>2 DEF Contains
<1> QED
  BY <1>2, <1>3 DEF PipeIsRead

\* Who opens the pipe for reading and who closes it.
LEMMA ReaderSteps ==
    ASSUME RadioTypes, RadioNext
    PROVE  \/ UNCHANGED audio_fd
           \/ StreamStarts /\ audio_fd'
           \/ (IrCloseStarting \/ (IrWaitEnds /\ iradio = "stop")) /\ ~ audio_fd'
<1>0. audio_fd \in BOOLEAN
  BY DEF RadioTypes
<1>1. \/ UNCHANGED audio_fd \/ (StreamStarts /\ audio_fd' = TRUE)
      \/ (IrCloseStarting /\ audio_fd' = FALSE)
      \/ (IrWaitEnds /\ audio_fd' = (audio_fd /\ iradio # "stop"))
  BY DEF RadioNext, open_internetradio, close_internetradio,
       IradioStep, IrOpen, IrIgnores, IrCloseStarting, IrClose, IrStarts, IrStartTimesOut,
       IrPauses, IrContinues, IrReconnects, IrReconnected, IrWaitEnds,
       StreamStep, StreamConnects, StreamIgnores, StreamCloses, StreamReads,
       StreamClosed, StreamConnected, StreamConnectFails, StreamStarts, StreamWrites,
       StreamAborts, TakesIrsEvent, OthersInStream,
       SoundStep, MadReady, MadSyncs, MadPlays, MadLoops, OthersOfSound
<1>2. CASE IrWaitEnds /\ audio_fd' = (audio_fd /\ iradio # "stop")
  <2>1. iradio = "stop" => ~ audio_fd'
    BY <1>2
  <2>2. iradio # "stop" => audio_fd' = audio_fd
    BY <1>0, <1>2
  <2> QED
    BY <1>2, <2>1, <2>2
<1> QED
  BY <1>1, <1>2

\* The connection that fills the pipe and is not told to end.
Fills == /\ ir_stream_stat = "receiving" /\ stream # "close"
         /\ ~ Contains(irs_event_fifo, "disconnect")

\* It is there already before a step, but for the step that opens the pipe.
LEMMA FillsBefore ==
    ASSUME RadioTypes, StreamFits, RadioNext, Fills'
    PROVE  Fills \/ StreamStarts
<1>1. CASE IradioStep
  <2>1. UNCHANGED <<stream, ir_stream_stat>>
    BY <1>1 DEF IradioStep, IrOpen, IrIgnores, IrCloseStarting, IrClose, IrStarts,
       IrStartTimesOut, IrPauses, IrContinues, IrReconnects, IrReconnected, IrWaitEnds,
       TakesIrEvent, streamVars
  <2>2. \/ UNCHANGED irs_event_fifo
        \/ \E e \in {"connect", "reconnect", "disconnect"} : Tells(e)
    BY <1>1 DEF IradioStep, IrOpen, IrIgnores, IrCloseStarting, IrClose, IrStarts,
       IrStartTimesOut, IrPauses, IrContinues, IrReconnects, IrReconnected, IrWaitEnds,
       TellsNothing
  <2>3. Contains(irs_event_fifo, "disconnect") => Contains(irs_event_fifo', "disconnect")
    BY <2>2, ToldLast
  <2> QED
    BY <2>1, <2>3 DEF Fills
<1>2. CASE StreamConnects \/ StreamIgnores \/ StreamReads \/ StreamCloses
  <2>1. PICK e : /\ stream = "idle" /\ NextEvent(irs_event_fifo) = e
                 /\ irs_event_fifo' = Popped(irs_event_fifo)
                 /\ UNCHANGED ir_stream_stat
                 /\ e = "disconnect" => ir_stream_stat = "disconnected" \/ stream' = "close"
    BY <1>2 DEF StreamConnects, StreamIgnores, StreamReads, StreamCloses, TakesIrsEvent,
       streamVars
  <2>2. Contains(irs_event_fifo, "disconnect") =>
           Contains(irs_event_fifo', "disconnect") \/ e = "disconnect"
    BY <2>1, TakenFirst
  <2> QED
    BY <2>1, <2>2 DEF Fills
<1>3. CASE StreamClosed
  BY <1>3 DEF Fills, StreamClosed, OthersInStream
<1>4. CASE StreamConnected \/ StreamConnectFails \/ StreamAborts
  BY <1>4 DEF Fills, StreamConnected, StreamConnectFails, StreamAborts
<1>5. CASE StreamWrites
  BY <1>5 DEF Fills, StreamWrites, OthersInStream
<1>6. CASE UserStep \/ SoundStep
  <2>1. UNCHANGED <<irs_event_fifo, stream, ir_stream_stat>>
    BY <1>6 DEF UserStep, open_internetradio, close_internetradio, SoundStep, MadReady,
         MadSyncs, MadPlays, MadLoops, OthersOfSound, streamVars
  <2> QED
    BY <2>1 DEF Fills
<1> QED
  BY <1>1, <1>2, <1>3, <1>4, <1>5, <1>6 DEF RadioNext, UserStep, StreamStep

LEMMA PipeIsReadKept ==
    ASSUME RadioTypes, CommandFits, StreamFits, StoppedEnds, PipeIsRead, SoundIsTold, RadioNext,
           ~ dropped', ~ crossed'
    PROVE  PipeIsRead'
<1>0. /\ iradio \in {"loop", "reconnecting", "play", "pause", "stop", "resync"}
      /\ irplayer_stat \in {"stop", "starting", "play", "pause"}
      /\ audio_fd \in BOOLEAN /\ audio_fd' \in BOOLEAN
      /\ mad \in {"none", "start", "run"}
  BY RadioTypesKept DEF RadioTypes
<1>1. Fills' => audio_fd'
  <2> SUFFICES ASSUME Fills' PROVE audio_fd'
    OBVIOUS
  <2>1. CASE StreamStarts
    BY <2>1 DEF StreamStarts
  <2>2. CASE ~ StreamStarts
    <3>1. Fills /\ audio_fd
      BY <2>2, FillsBefore DEF Fills, PipeIsRead
    <3>2. ~ IrCloseStarting
      <4>1. IrCloseStarting => Contains(irs_event_fifo', "disconnect")
        BY ToldLast DEF IrCloseStarting
      <4> QED
        BY <4>1 DEF Fills
    <3>3. iradio # "stop"
      <4>1. irs_event_fifo # <<>> /\ Last(irs_event_fifo) = "disconnect" =>
               Contains(irs_event_fifo, "disconnect")
        BY DEF RadioTypes, Last, Contains
      <4> QED
        BY <3>1, <4>1 DEF Fills, StoppedEnds, StreamEnds
    <3> QED
      BY <2>2, <3>1, <3>2, <3>3, ReaderSteps
  <2> QED
    BY <2>1, <2>2
<1>2. irplayer_stat' \in {"play", "pause"} \/ iradio' # "loop" => iradio' = "stop" \/ audio_fd'
  <2>1. CASE IrStarts
    <3>1. audio_fd
      BY <2>1, StartsOnItsConnection
    <3>2. UNCHANGED audio_fd
      BY <2>1 DEF IrStarts
    <3> QED
      BY <3>1, <3>2
  <2>2. CASE IrOpen \/ IrCloseStarting \/ IrStartTimesOut
    BY <2>2 DEF IrOpen, IrCloseStarting, IrStartTimesOut, TakesIrEvent
  <2>3. CASE IrWaitEnds
    <3>1. CASE iradio = "stop"
      BY <2>3, <3>1 DEF IrWaitEnds, Reached
    <3>2. CASE iradio # "stop"
      <4>1. audio_fd /\ audio_fd' = (audio_fd /\ iradio # "stop")
        BY <2>3, <3>2 DEF IrWaitEnds, PipeIsRead
      <4> QED
        BY <3>2, <4>1
    <3> QED
      BY <3>1, <3>2
  <2>4. CASE IrIgnores \/ IrClose \/ IrPauses \/ IrContinues \/ IrReconnects \/ IrReconnected
    <3>1. UNCHANGED audio_fd
      BY <2>4 DEF IrIgnores, IrClose, IrPauses, IrContinues, IrReconnects, IrReconnected
    <3>2. irplayer_stat' = irplayer_stat
      BY <2>4 DEF IrIgnores, IrClose, IrPauses, IrContinues, IrReconnects, IrReconnected,
         iradioVars
    <3>3. iradio # "stop"
      BY <2>4 DEF IrIgnores, IrClose, IrPauses, IrContinues, IrReconnects, IrReconnected,
         TakesIrEvent
    <3>4. iradio' # "loop" => \/ irplayer_stat \in {"play", "pause"}
                              \/ iradio # "loop"
      BY <2>4 DEF IrIgnores, IrClose, IrPauses, IrContinues, IrReconnects, IrReconnected,
         TakesIrEvent, iradioVars
    <3> QED
      BY <3>1, <3>2, <3>3, <3>4 DEF PipeIsRead
  <2>5. CASE UNCHANGED iradioVars /\ ~ IradioStep
    <3>1. audio_fd => audio_fd'
      BY <2>5, ReaderSteps DEF IradioStep
    <3> QED
      BY <2>5, <3>1 DEF PipeIsRead, iradioVars
  <2> QED
    BY <2>1, <2>2, <2>3, <2>4, <2>5, OthersKeepIradio DEF IradioStep
<1>3. audio_fd' => iradio' = "stop" \/ mad' # "none"
  <2>1. CASE StreamStarts
    <3>1. UNCHANGED iradioVars
      BY <2>1 DEF StreamStarts, OthersOfStream
    <3>2. CASE audio_fd
      BY <2>1, <3>1, <3>2, StopIsTold DEF PipeIsRead, iradioVars
    <3>3. CASE ~ audio_fd
      BY <2>1, <3>3 DEF StreamStarts
    <3> QED
      BY <3>2, <3>3
  <2>2. CASE ~ StreamStarts
    <3> SUFFICES ASSUME audio_fd' PROVE iradio' = "stop" \/ mad' # "none"
      OBVIOUS
    <3>1. audio_fd
      BY <2>2, ReaderSteps
    <3>2. iradio = "stop" => iradio' = "stop"
      <4>1. ~ (IrWaitEnds /\ iradio = "stop")
        <5>1. IrWaitEnds => audio_fd' = (audio_fd /\ iradio # "stop")
          BY DEF IrWaitEnds
        <5> QED
          BY <5>1
      <4>2. IradioStep /\ iradio = "stop" => IrWaitEnds
        BY DEF IradioStep, IrOpen, IrIgnores, IrCloseStarting, IrClose, IrStarts,
           IrStartTimesOut, IrPauses, IrContinues, IrReconnects, IrReconnected, TakesIrEvent
      <4> QED
        BY <4>1, <4>2, OthersKeepIradio DEF iradioVars
    <3> QED
      BY <3>1, <3>2, StopIsTold DEF PipeIsRead
  <2> QED
    BY <2>1, <2>2
<1>4. irplayer_stat' \in {"play", "pause"} => iradio' = "stop" \/ mad' = "run"
  <2>1. CASE IrWaitEnds
    <3>1. mad' = mad /\ iradio # "stop" => irplayer_stat' = Reached[iradio]
      BY <2>1 DEF IrWaitEnds
    <3>2. CASE iradio = "stop"
      BY <2>1, <3>2 DEF IrWaitEnds, Reached
    <3>3. CASE iradio = "play"
      <4>1. soundplay_event = <<>>
        <5>1. crossed' = (crossed \/ (iradio # "resync" /\ soundplay_event # <<>>))
          BY <2>1 DEF IrWaitEnds
        <5> QED
          BY <3>3, <5>1
      <4>2. mad = "run"
        BY <3>3, <4>1, ShortFifos DEF SoundIsTold
      <4> QED
        BY <3>3, <4>2, StopIsTold
    <3>4. CASE iradio \in {"pause", "resync"}
      BY <3>4, StopIsTold DEF CommandFits, PipeIsRead
    <3> QED
      BY <1>0, <2>1, <3>2, <3>3, <3>4 DEF IrWaitEnds
  <2>2. CASE IradioStep /\ ~ IrWaitEnds
    <3>1. irplayer_stat' \in {"play", "pause"} => irplayer_stat \in {"play", "pause"}
      BY <2>2 DEF IradioStep, IrOpen, IrIgnores, IrCloseStarting, IrClose, IrStarts,
         IrStartTimesOut, IrPauses, IrContinues, IrReconnects, IrReconnected, iradioVars
    <3>2. iradio # "stop"
      BY <2>2 DEF IradioStep, IrOpen, IrIgnores, IrCloseStarting, IrClose, IrStarts,
         IrStartTimesOut, IrPauses, IrContinues, IrReconnects, IrReconnected, TakesIrEvent
    <3> QED
      BY <3>1, <3>2, StopIsTold DEF PipeIsRead
  <2>3. CASE UNCHANGED iradioVars
    BY <2>3, StopIsTold DEF PipeIsRead, iradioVars
  <2> QED
    BY <2>1, <2>2, <2>3, OthersKeepIradio
<1> QED
  BY <1>1, <1>2, <1>3, <1>4 DEF PipeIsRead, Fills

\* No other command is taken for a "sync".
LEMMA CommandsDiffer ==
    /\ <<"play">> \notin {<<"sync">>, <<"sync", "stop">>}
    /\ <<"pause">> \notin {<<"sync">>, <<"sync", "stop">>}
    /\ <<"stop">> \notin {<<"sync">>, <<"sync", "stop">>}
    /\ <<>> \notin {<<"sync">>, <<"sync", "stop">>}
<1>1. /\ <<"play">> # <<"sync">> /\ <<"play">> # <<"sync", "stop">>
      /\ <<"pause">> # <<"sync">> /\ <<"pause">> # <<"sync", "stop">>
      /\ <<"stop">> # <<"sync">> /\ <<"stop">> # <<"sync", "stop">>
  BY ShortFifos
<1>2. <<>> # <<"sync">> /\ <<>> # <<"sync", "stop">>
  BY ShortFifos
<1> QED
  BY <1>1, <1>2

\* The iradio task gives its commands where nothing is left of the last one.
LEMMA SoundIsToldByIradio ==
    ASSUME RadioTypes, CommandFits, SoundFits, PipeIsRead, SoundIsTold, IradioStep, ~ crossed'
    PROVE  SoundIsTold'
<1> DEFINE ev == soundplay_event
<1>0. /\ iradio \in {"loop", "reconnecting", "play", "pause", "stop", "resync"}
      /\ irplayer_stat \in {"stop", "starting", "play", "pause"}
      /\ soundplay_status \in {"notready", "ready", "syncing", "playing", "end"}
      /\ mad \in {"none", "start", "run"}
      /\ MAX_SOUNDEVENT \in Nat \ {0}
  BY RadioAssumption DEF RadioTypes
<1>1. UNCHANGED madVars
  BY DEF IradioStep, IrOpen, IrIgnores, IrCloseStarting, IrClose, IrStarts, IrStartTimesOut,
     IrPauses, IrContinues, IrReconnects, IrReconnected, IrWaitEnds, TakesIrEvent
<1>2. \A c, d : /\ Pushed(<<>>, MAX_SOUNDEVENT, c) = <<c>>
               /\ Pushed(<<c>>, MAX_SOUNDEVENT, d) \in {<<c>>, <<c, d>>}
  BY <1>0, ShortFifos
<1>3. ASSUME ev = <<>>, mad # "none", SoundCommand("play")
      PROVE  SoundIsTold'
  <2>1. CASE soundplay_status \in {"ready", "end"}
    <3>1. soundplay_event' = <<"play">> /\ iradio' = "play"
      BY <1>2, <1>3, <2>1 DEF SoundCommand, Commanded
    <3> QED
      BY <3>1, CommandsDiffer DEF SoundIsTold
  <2>2. CASE soundplay_status \notin {"ready", "end"}
    <3>1. soundplay_event' = <<>> /\ iradio' = "play"
      BY <1>3, <2>2 DEF SoundCommand, Commanded
    <3>2. mad = "run" /\ soundplay_status # "ready"
      BY <1>0, <1>3, <2>2 DEF SoundFits
    <3> QED
      BY <1>1, <3>1, <3>2, CommandsDiffer DEF SoundIsTold, madVars
  <2> QED
    BY <2>1, <2>2
<1>4. ASSUME ev = <<>> \/ (ev = <<"sync">> /\ soundplay_status = "ready"), SoundCommand("stop")
      PROVE  SoundIsTold'
  <2>1. iradio' = "stop" /\ soundplay_event' \in {ev, Pushed(ev, MAX_SOUNDEVENT, "stop")}
    BY <1>4 DEF SoundCommand
  <2>2. CASE ev = <<>>
    <3>1. soundplay_event' \in {<<>>, <<"stop">>}
      BY <1>2, <2>1, <2>2
    <3> QED
      BY <2>1, <3>1, CommandsDiffer DEF SoundIsTold
  <2>3. CASE ev = <<"sync">> /\ soundplay_status = "ready"
    <3>1. soundplay_event' \in {<<"sync">>, <<"sync", "stop">>}
      BY <1>2, <2>1, <2>3
    <3> QED
      BY <1>1, <2>1, <2>3, <3>1 DEF SoundIsTold, madVars
  <2> QED
    BY <1>4, <2>2, <2>3
<1>5. CASE IrOpen \/ IrIgnores \/ IrCloseStarting \/ IrStartTimesOut
  <2>1. iradio = "loop" /\ iradio' = "loop" /\ UNCHANGED soundplay_event
    BY <1>5 DEF IrOpen, IrIgnores, IrCloseStarting, IrStartTimesOut, TakesIrEvent, NoCommand,
       iradioVars
  <2>2. \/ irplayer_stat' = irplayer_stat
        \/ irplayer_stat # "play" /\ irplayer_stat' # "play"
    BY <1>5 DEF IrOpen, IrIgnores, IrCloseStarting, IrStartTimesOut, TakesIrEvent, iradioVars
  <2> QED
    BY <1>1, <2>1, <2>2, CommandsDiffer DEF SoundIsTold, madVars
<1>6. CASE IrClose
  <2>1. iradio = "loop" /\ SoundCommand("stop")
    BY <1>6 DEF IrClose, TakesIrEvent
  <2>2. ev = <<>> \/ (ev = <<"sync">> /\ soundplay_status = "ready")
    BY <2>1 DEF SoundIsTold
  <2> QED
    BY <1>4, <2>1, <2>2
<1>7. CASE IrStarts
  <2>1. iradio = "loop" /\ irplayer_stat = "starting" /\ SoundCommand("play")
    BY <1>7 DEF IrStarts, TakesIrEvent
  <2>2. ev = <<>> /\ mad # "none"
    BY <1>7, <2>1, StartsOnItsConnection DEF SoundIsTold, PipeIsRead
  <2> QED
    BY <1>3, <2>1, <2>2
<1>8. CASE IrPauses
  <2>1. iradio = "loop" /\ SoundCommand("pause")
    BY <1>8 DEF IrPauses, TakesIrEvent
  <2>2. ev = <<>> \/ (ev = <<"sync">> /\ soundplay_status = "ready")
    BY <2>1 DEF SoundIsTold
  <2>3. CASE ev = <<>>
    <3>1. iradio' = "pause" /\ soundplay_event' \in {<<>>, <<"pause">>}
      BY <1>2, <2>1, <2>3 DEF SoundCommand
    <3> QED
      BY <3>1, CommandsDiffer DEF SoundIsTold
  <2>4. CASE ev = <<"sync">> /\ soundplay_status = "ready"
    <3>1. iradio' = "pause" /\ soundplay_event' = <<"sync">>
      BY <2>1, <2>4 DEF SoundCommand, Commanded
    <3> QED
      BY <1>1, <2>4, <3>1 DEF SoundIsTold, madVars
  <2> QED
    BY <2>2, <2>3, <2>4
<1>9. CASE IrContinues
  <2>1. /\ iradio = "loop" /\ irplayer_stat = "pause"
        /\ ev = <<>> /\ mad = "run"
    BY <1>9 DEF IrContinues, TakesIrEvent, SoundIsTold, PipeIsRead
  <2>2. CASE SoundCommand("play")
    BY <1>3, <2>1, <2>2
  <2>3. CASE /\ iradio' = "resync"
             /\ soundplay_event' = IF soundplay_status = "ready"
                                     THEN Pushed(soundplay_event, MAX_SOUNDEVENT, "sync")
                                     ELSE soundplay_event
    <3>1. CASE soundplay_status = "ready"
      <4>1. soundplay_event' = <<"sync">>
        BY <1>2, <2>1, <2>3, <3>1
      <4> QED
        BY <1>1, <2>3, <3>1, <4>1 DEF SoundIsTold, madVars
    <3>2. CASE soundplay_status # "ready"
      <4>1. soundplay_event' = <<>>
        BY <2>1, <2>3, <3>2
      <4> QED
        BY <1>1, <2>3, <3>2, <4>1, CommandsDiffer DEF SoundIsTold, madVars
    <3> QED
      BY <3>1, <3>2
  <2> QED
    BY <1>9, <2>2, <2>3 DEF IrContinues
<1>10. CASE IrReconnects
  <2>1. /\ iradio = "loop" /\ irplayer_stat = "pause" /\ iradio' = "reconnecting"
        /\ UNCHANGED soundplay_event
    BY <1>10 DEF IrReconnects, TakesIrEvent, NoCommand
  <2> QED
    BY <2>1, CommandsDiffer DEF SoundIsTold
<1>11. CASE IrReconnected
  <2>1. iradio = "reconnecting" /\ irplayer_stat = "pause" /\ irplayer_stat' = "pause"
    BY <1>11 DEF IrReconnected, CommandFits
  <2>2. ev = <<>>
    BY <2>1 DEF SoundIsTold
  <2>3. CASE SoundCommand("stop")
    BY <1>4, <2>2, <2>3
  <2>4. CASE iradio' = "loop" /\ NoCommand
    BY <2>1, <2>2, <2>4, CommandsDiffer DEF SoundIsTold, NoCommand
  <2> QED
    BY <1>11, <2>3, <2>4 DEF IrReconnected
<1>12. CASE IrWaitEnds
  <2>1. /\ iradio' = "loop" /\ irplayer_stat' = Reached[iradio]
        /\ UNCHANGED soundplay_event
        /\ iradio \in {"play", "pause", "stop", "resync"}
        /\ iradio = "resync" => soundplay_status # "syncing"
    BY <1>0, <1>12 DEF IrWaitEnds
  <2>2. iradio = "resync" \/ ev = <<>>
    <3>1. crossed' = (crossed \/ (iradio # "resync" /\ soundplay_event # <<>>))
      BY <1>12 DEF IrWaitEnds
    <3> QED
      BY <3>1
  <2>3. CASE iradio = "resync"
    <3>1. /\ irplayer_stat' = "play"
          /\ \/ ev = <<"sync">> /\ soundplay_status = "ready"
             \/ ev = <<>> /\ soundplay_status # "ready"
      BY <2>1, <2>3 DEF Reached, SoundIsTold
    <3> QED
      BY <1>1, <2>1, <3>1, CommandsDiffer DEF SoundIsTold, madVars
  <2>4. CASE iradio = "play"
    <3>1. ev = <<>> /\ soundplay_status # "ready"
      BY <2>2, <2>4, ShortFifos DEF SoundIsTold
    <3> QED
      BY <1>1, <2>1, <3>1, CommandsDiffer DEF SoundIsTold, madVars
  <2>5. CASE iradio \in {"pause", "stop"}
    <3>1. ev = <<>> /\ irplayer_stat' # "play"
      BY <2>1, <2>2, <2>5 DEF Reached
    <3> QED
      BY <2>1, <3>1, CommandsDiffer DEF SoundIsTold
  <2> QED
    BY <2>1, <2>3, <2>4, <2>5
<1> QED
  BY <1>5, <1>6, <1>7, <1>8, <1>9, <1>10, <1>11, <1>12 DEF IradioStep

\* The sound task takes what it is told.
LEMMA SoundIsToldBySound ==
    ASSUME RadioTypes, CommandFits, PipeIsRead, SoundIsTold, SoundStep
    PROVE  SoundIsTold'
<1> DEFINE ev == soundplay_event
<1>0. /\ iradio \in {"loop", "reconnecting", "play", "pause", "stop", "resync"}
      /\ irplayer_stat \in {"stop", "starting", "play", "pause"}
      /\ mad \in {"none", "start", "run"}
  BY DEF RadioTypes
<1>1. UNCHANGED <<iradio, irplayer_stat>>
  BY DEF SoundStep, MadReady, MadSyncs, MadPlays, MadLoops, OthersOfSound, iradioVars
<1>2. CASE MadReady
  <2>1. /\ mad # "none" /\ soundplay_status = "ready" /\ ev # <<>>
        /\ soundplay_event' = Popped(ev)
    BY <1>2 DEF MadReady
  <2>2. CASE iradio \in {"loop", "reconnecting", "resync"}
    <3>1. ev = <<"sync">> /\ mad = "run"
      BY <2>1, <2>2 DEF SoundIsTold, CommandFits, PipeIsRead
    <3>2. Head(soundplay_event) = "sync" /\ soundplay_event' = <<>>
      BY <2>1, <3>1, ShortFifos
    <3>3. soundplay_status' = "syncing"
      BY <1>2, <3>1, <3>2 DEF MadReady
    <3> QED
      BY <1>1, <2>2, <3>2, <3>3, CommandsDiffer DEF SoundIsTold
  <2>3. CASE iradio = "play"
    <3>1. ev = <<"play">>
      BY <2>1, <2>3 DEF SoundIsTold
    <3>2. Head(soundplay_event) = "play" /\ soundplay_event' = <<>>
      BY <2>1, <3>1, ShortFifos
    <3>3. mad' = "run" /\ soundplay_status' \in {"syncing", "playing"}
      BY <1>0, <1>2, <2>1, <3>2 DEF MadReady
    <3> QED
      BY <1>1, <2>3, <3>2, <3>3, CommandsDiffer DEF SoundIsTold
  <2>4. CASE iradio = "pause"
    <3>1. soundplay_event' = <<>>
      BY <2>1, <2>4, ShortFifos DEF SoundIsTold
    <3> QED
      BY <1>1, <2>4, <3>1, CommandsDiffer DEF SoundIsTold
  <2>5. CASE iradio = "stop"
    <3>1. soundplay_event' \in {<<>>, <<"stop">>}
      BY <2>1, <2>5, ShortFifos DEF SoundIsTold
    <3> QED
      BY <1>1, <2>5, <3>1, CommandsDiffer DEF SoundIsTold
  <2> QED
    BY <1>0, <2>2, <2>3, <2>4, <2>5
<1>3. CASE MadSyncs \/ MadLoops
  <2>1. /\ soundplay_status # "ready" /\ soundplay_status' # "ready"
        /\ UNCHANGED <<soundplay_event, mad>>
    BY <1>3 DEF MadSyncs, MadLoops
  <2> QED
    BY <1>1, <2>1 DEF SoundIsTold
<1>4. CASE MadPlays
  <2>1. soundplay_status # "ready" /\ mad = "run" /\ soundplay_event' = Popped(ev)
    BY <1>4 DEF MadPlays
  <2>2. ev \notin {<<"sync">>, <<"sync", "stop">>}
    BY <2>1 DEF SoundIsTold
  <2>3. CASE iradio \in {"loop", "reconnecting", "resync", "play"}
    <3>1. ev \in {<<>>, <<"play">>}
      BY <2>2, <2>3 DEF SoundIsTold
    <3>2. NextEvent(ev) \notin {"stop", "pause"} /\ Popped(ev) = <<>>
      BY <3>1, ShortFifos
    <3>3. soundplay_status' # "ready" /\ mad' = "run"
      BY <1>4, <2>1, <3>2 DEF MadPlays
    <3> QED
      BY <1>1, <2>1, <2>3, <3>2, <3>3, CommandsDiffer DEF SoundIsTold
  <2>4. CASE iradio \in {"pause", "stop"}
    <3>1. ev \in {<<>>, <<"pause">>, <<"stop">>}
      BY <2>2, <2>4 DEF SoundIsTold
    <3>2. soundplay_event' = <<>>
      BY <2>1, <3>1, ShortFifos
    <3> QED
      BY <1>1, <2>4, <3>2, CommandsDiffer DEF SoundIsTold
  <2> QED
    BY <1>0, <2>3, <2>4
<1> QED
  BY <1>2, <1>3, <1>4 DEF SoundStep

LEMMA SoundIsToldKept ==
    ASSUME RadioTypes, CommandFits, SoundFits, PipeIsRead, SoundIsTold, RadioNext, ~ crossed'
    PROVE  SoundIsTold'
<1>0. /\ iradio \in {"loop", "reconnecting", "play", "pause", "stop", "resync"}
      /\ audio_fd \in BOOLEAN
  BY DEF RadioTypes
<1>1. CASE StreamStarts /\ ~ audio_fd
  <2>1. /\ UNCHANGED <<iradio, irplayer_stat, soundplay_event>>
        /\ soundplay_status' = "ready"
    BY <1>1 DEF StreamStarts, OthersOfStream, iradioVars
  <2>2. iradio = "stop" \/ (iradio = "loop" /\ irplayer_stat \notin {"play", "pause"})
    BY <1>1 DEF PipeIsRead
  <2>3. iradio = "loop" => soundplay_event = <<>>
    BY <2>2 DEF SoundIsTold
  <2> QED
    BY <2>1, <2>2, <2>3, CommandsDiffer DEF SoundIsTold
<1>2. CASE UserStep \/ (StreamStep /\ ~ (StreamStarts /\ ~ audio_fd))
  <2>1. UNCHANGED <<iradio, irplayer_stat, soundplay_event, mad, soundplay_status>>
    <3>1. CASE UserStep
      BY <3>1 DEF UserStep, open_internetradio, close_internetradio, iradioVars, madVars
    <3>2. CASE StreamStarts /\ audio_fd
      BY <3>2 DEF StreamStarts, OthersOfStream, iradioVars, madVars
    <3>3. CASE StreamStep /\ ~ StreamStarts
      BY <3>3 DEF StreamStep, StreamConnects, StreamIgnores, StreamCloses, StreamReads,
         StreamClosed, StreamConnected, StreamConnectFails, StreamWrites,
         StreamAborts, TakesIrsEvent, OthersOfStream, OthersInStream, iradioVars, madVars
    <3> QED
      BY <1>2, <3>1, <3>2, <3>3
  <2> QED
    BY <2>1 DEF SoundIsTold
<1> QED
  BY <1>1, <1>2, SoundIsToldByIradio, SoundIsToldBySound DEF RadioNext, UserStep

\* The inductive invariant holds at the start and is kept, and is enough.
LEMMA RadioIndInit == RadioInit => RadioInd
<1> SUFFICES ASSUME RadioInit PROVE RadioInd
  OBVIOUS
<1>1. RadioTypes
  <2>1. /\ {MAX_IREVENT, MAX_IRS_EVENT, MAX_SOUNDEVENT} \subseteq Nat \ {0}
        /\ Len(<<>>) = 0 /\ \A S : <<>> \in Seq(S)
    BY RadioAssumption
  <2>2. /\ irplay_event \in Seq({"open", "close"}) /\ Len(irplay_event) <= MAX_IREVENT
        /\ irs_event_fifo \in Seq({"connect", "reconnect", "disconnect"})
        /\ Len(irs_event_fifo) <= MAX_IRS_EVENT
        /\ soundplay_event \in Seq({"play", "pause", "stop", "sync"})
        /\ Len(soundplay_event) <= MAX_SOUNDEVENT
    BY <2>1 DEF RadioInit
  <2>3. /\ flg_reconnect \in BOOLEAN /\ stream_fd \in BOOLEAN /\ audio_fd \in BOOLEAN
        /\ dropped \in BOOLEAN /\ crossed \in BOOLEAN
    BY DEF RadioInit
  <2>4. 0 \in Levels
    BY DEF Levels
  <2> QED
    BY <2>2, <2>3, <2>4 DEF RadioInit, RadioTypes
<1>2. CommandFits /\ StreamFits /\ SoundFits
  BY DEF RadioInit, CommandFits, StreamFits, SoundFits
<1>3. StationIsKnown
  BY DEF RadioInit, StationIsKnown, Contains
<1>4. StoppedEnds /\ OldStationEnds
  BY DEF RadioInit, StoppedEnds, StreamEnds, OldStationEnds
<1>5. PipeIsRead
  BY DEF RadioInit, PipeIsRead
<1>6. SoundIsTold
  BY CommandsDiffer DEF RadioInit, SoundIsTold
<1> QED
  BY <1>1, <1>2, <1>3, <1>4, <1>5, <1>6 DEF RadioInd

LEMMA RadioIndNext == RadioInd /\ [RadioNext]_radioVars => RadioInd'
<1> SUFFICES ASSUME RadioInd, [RadioNext]_radioVars PROVE RadioInd'
  OBVIOUS
<1>0. RadioTypes /\ CommandFits /\ StationIsKnown /\ StreamFits /\ SoundFits
  BY DEF RadioInd
<1>1. CASE RadioNext
  <2>1. (dropped => dropped') /\ (crossed => crossed')
    BY <1>0, <1>1, StepsOfHistories DEF RadioTypes
  <2>2. RadioTypes' /\ CommandFits' /\ StationIsKnown' /\ StreamFits' /\ SoundFits'
    BY <1>0, <1>1, RadioTypesKept, CommandFitsKept, StationIsKnownKept, StreamFitsKept,
       SoundFitsKept
  <2>3. dropped' \/ (StoppedEnds' /\ OldStationEnds')
    <3> SUFFICES ASSUME ~ dropped' PROVE StoppedEnds' /\ OldStationEnds'
      OBVIOUS
    <3>1. StoppedEnds /\ OldStationEnds
      BY <2>1 DEF RadioInd
    <3> QED
      BY <1>0, <1>1, <3>1, StoppedEndsKept, OldStationEndsKept
  <2>4. dropped' \/ crossed' \/ (PipeIsRead' /\ SoundIsTold')
    <3> SUFFICES ASSUME ~ dropped', ~ crossed' PROVE PipeIsRead' /\ SoundIsTold'
      OBVIOUS
    <3>1. StoppedEnds /\ PipeIsRead /\ SoundIsTold
      BY <2>1 DEF RadioInd
    <3> QED
      BY <1>0, <1>1, <3>1, PipeIsReadKept, SoundIsToldKept
  <2> QED
    BY <2>2, <2>3, <2>4 DEF RadioInd
<1>2. CASE UNCHANGED radioVars
  <2>1. UNCHANGED <<irplay_event, irplayer_stat, iradio, ir_url, flg_reconnect, irs_event_fifo,
               ir_stream_stat, stream, stream_url, connecting_to, ir_socket, stream_fd, buffered,
               soundplay_event, soundplay_status, mad, audio_fd, dropped, crossed>>
    BY <1>2 DEF radioVars
  <2>2. RadioTypes'
    BY <1>0, <2>1 DEF RadioTypes
  <2>3. CommandFits' /\ StationIsKnown' /\ StreamFits' /\ SoundFits'
    BY <1>0, <2>1 DEF CommandFits, StationIsKnown, StreamFits, SoundFits
  <2>4. /\ StoppedEnds => StoppedEnds'
        /\ OldStationEnds => OldStationEnds'
        /\ PipeIsRead => PipeIsRead'
        /\ SoundIsTold => SoundIsTold'
    <3>1. StoppedEnds => StoppedEnds'
      BY <2>1 DEF StoppedEnds, StreamEnds
    <3>2. OldStationEnds => OldStationEnds'
      BY <2>1 DEF OldStationEnds
    <3>3. PipeIsRead => PipeIsRead'
      BY <2>1 DEF PipeIsRead
    <3>4. SoundIsTold => SoundIsTold'
      BY <2>1 DEF SoundIsTold
    <3> QED
      BY <3>1, <3>2, <3>3, <3>4
  <2>5. (dropped => dropped') /\ (crossed => crossed')
    BY <2>1
  <2>6. /\ dropped' \/ (StoppedEnds' /\ OldStationEnds')
        /\ dropped' \/ crossed' \/ (PipeIsRead' /\ SoundIsTold')
    BY <2>4, <2>5 DEF RadioInd
  <2> QED
    BY <2>2, <2>3, <2>6 DEF RadioInd
<1> QED
  BY <1>1, <1>2

LEMMA RadioIndImplies == RadioInd => RadioInv
<1> SUFFICES ASSUME RadioInd PROVE RadioInv
  OBVIOUS
<1>0. RadioTypes /\ CommandFits /\ StationIsKnown /\ StreamFits /\ SoundFits
  BY DEF RadioInd
<1>1. RadioTypeOK
  <2>1. /\ MAX_IREVENT \in Nat /\ MAX_IRS_EVENT \in Nat /\ MAX_SOUNDEVENT \in Nat
    BY RadioAssumption
  <2>2. irplay_event \in BoundedSeq({"open", "close"}, MAX_IREVENT)
    BY <1>0, <2>1, BoundedSequences DEF RadioTypes
  <2>3. irs_event_fifo \in BoundedSeq({"connect", "reconnect", "disconnect"}, MAX_IRS_EVENT)
    BY <1>0, <2>1, BoundedSequences DEF RadioTypes
  <2>4. soundplay_event \in BoundedSeq({"play", "pause", "stop", "sync"}, MAX_SOUNDEVENT)
    BY <1>0, <2>1, BoundedSequences DEF RadioTypes
  <2>5. DOMAIN Reached = {"play", "pause", "stop", "resync"}
    BY DEF Reached
  <2> QED
    BY <1>0, <2>2, <2>3, <2>4, <2>5 DEF RadioTypeOK, RadioTypes
<1>2. StreamHasItsMeans
  BY <1>0, RadioAssumption DEF StreamHasItsMeans, StreamFits
<1>3. StoppedMeansDisconnected
  BY DEF StoppedMeansDisconnected, RadioInd, StoppedEnds, StreamEnds
<1>4. LastStationIsReceived
  <2> SUFFICES ASSUME stream = "idle", ir_stream_stat # "disconnected", irs_event_fifo = <<>>,
                      ~ dropped
               PROVE  ir_socket = stream_url
    BY DEF LastStationIsReceived
  <2>1. OldStationEnds /\ ~ Contains(irs_event_fifo, "disconnect")
    BY DEF RadioInd, Contains
  <2> QED
    BY <2>1 DEF OldStationEnds
<1>5. PlayIsHeard
  BY DEF PlayIsHeard, RadioInd, PipeIsRead, SoundIsTold
<1> QED
  BY <1>1, <1>2, <1>3, <1>4, <1>5 DEF RadioInv

\* The three tasks of the radio agree on the stream and on the sound, for every
\* size of their FIFOs (internetradio_task(), stream_task(), mp3_play_proc()).
THEOREM RadioInvariant == RadioSpec => []RadioInv
<1>1. RadioSpec => []RadioInd
  BY RadioIndInit, RadioIndNext, PTL DEF RadioSpec
<1> QED
  BY <1>1, RadioIndImplies, PTL

-----------------------------------------------------------------------------
(* The sound output. *)

\* What the buffer holds.
FrameParts == [frame : Nat, part : 0..2, parts : 0..2]

\* The half of the buffer that is played, what is played of it still, and then the other.
IsPlayed(i) == i <= parts <=> dma.next <= parts
Ahead(i) == IsPlayed(i) => dma.next <= i
Sooner(i, j) == (IsPlayed(i) /\ ~ IsPlayed(j)) \/ ((IsPlayed(i) <=> IsPlayed(j)) /\ i < j)
Filled(i) == audio_buf[i] # Silence

\* The number of the half that was played last.
PlayedHalf == IF dma.next <= parts THEN 2 ELSE 1

\* At i is the part of the frame that was written there.
WrittenAt(i) ==
    /\ writing = "copy" /\ i \in first .. first + copied - 1
    /\ audio_buf[i] = FramePart(frame, i - first + 1, parts)

\* Before the sound is on, and after it was stopped.
Stopped ==
    /\ ~ unsettled /\ ~ late /\ flg_buf_half = 0 /\ writing # "waiting"
    /\ heard.frame < frame /\ (heard.frame = frame - 1 => heard.part = heard.parts)
    /\ writing = "copy" => first = Half + 1
    /\ audio_buf[1] = Silence
    /\ flg_audio_start /\ ~ flg_bs_chg /\ bufsize = 4 => audio_buf[2] = Silence
    /\ \A i \in 2..4 : Filled(i) =>
         /\ heard.frame < audio_buf[i].frame
         /\ audio_buf[i].frame < frame \/ WrittenAt(i)
    /\ Filled(2) /\ Filled(3) /\ audio_buf[3].part = 1 => audio_buf[2].frame # audio_buf[3].frame

\* While the DMA plays, late or not: what it comes to is in the order of the frames.
Ordered ==
    /\ heard.frame < frame \/ (writing = "copy" /\ heard.frame = frame /\ heard.part <= copied)
    /\ \A i \in 1..bufsize : Filled(i) /\ Ahead(i) =>
         /\ Precedes(heard, audio_buf[i])
         /\ audio_buf[i].frame < frame \/ WrittenAt(i)
         /\ \A j \in 1..bufsize : Filled(j) /\ Ahead(j) /\ Sooner(i, j) =>
              Precedes(audio_buf[i], audio_buf[j])

OtherHalfIsSilent == \A i \in 1..bufsize : ~ IsPlayed(i) => ~ Filled(i)

\* Where a frame is written, and that the other half is silent when the DMA gets there.
WritesAHalf ==
    /\ writing = "awake" => flg_buf_half = PlayedHalf /\ OtherHalfIsSilent
    /\ writing = "copy" =>
         /\ first \in {1, parts + 1}
         /\ IsPlayed(first) => OtherHalfIsSilent
         /\ \A i \in first .. first + parts - 1 : Filled(i) => WrittenAt(i)

\* What is played next if frame f is.
CanFollow(f) ==
    \/ heard.frame < started - 1
    \/ heard.frame = f - 1 /\ heard.part = heard.parts

HalfHolds(base, f) == \A i \in 1..parts : audio_buf[base + i] = FramePart(f, i, parts)
HalfIsOver == \A i \in 1..bufsize : IsPlayed(i) /\ Ahead(i) => ~ Filled(i)

\* The half that is played, the other one, and how far the DMA is.
PlayedBase == IF dma.next <= parts THEN 0 ELSE parts
OtherBase == parts - PlayedBase
Gone == dma.next - PlayedBase - 1

\* Since the sound is on the DMA has not come to the end of a half.
FirstHalf ==
    /\ frame = started /\ flg_buf_half = 0 /\ writing \in {"idle", "waiting"}
    /\ \/ /\ CanFollow(frame)
          /\ \A i \in 1..bufsize : Ahead(i) => ~ Filled(i)
       \/ /\ HalfHolds(parts, frame - 1)
          /\ IF parts < dma.next
               THEN /\ OtherHalfIsSilent
                    /\ heard.frame < started - 1 \/ (Gone > 0 /\ heard = FramePart(frame - 1, Gone, parts))
               ELSE /\ heard.frame < started - 1
                    /\ \A i \in 1..parts : Filled(i) /\ Ahead(i) => audio_buf[i].frame < started - 1

\* The frame that is played while another is written, or waits.
PlayedFrame == IF writing \in {"awake", "copy"} THEN frame - 1 ELSE frame - 2

\* It has, and the task was waiting each time.
InTurn ==
    /\ started <= PlayedFrame + 1
    /\ \/ /\ HalfHolds(PlayedBase, PlayedFrame)
          /\ IF Gone > 0 THEN heard = FramePart(PlayedFrame, Gone, parts)
             ELSE IF PlayedFrame = started - 1 THEN heard.frame < started - 1
             ELSE CanFollow(PlayedFrame)
       \/ /\ PlayedFrame = started - 1
          /\ HalfIsOver
          /\ CanFollow(started)
    /\ writing = "copy" =>
         /\ first = OtherBase + 1
         /\ \A i \in 1..copied : audio_buf[OtherBase + i] = FramePart(frame, i, parts)
    /\ writing \in {"idle", "waiting"} => flg_buf_half = 0 /\ HalfHolds(OtherBase, frame - 1)

Playing ==
    /\ bufsize = 2 * parts /\ dma.size = bufsize
    /\ started <= frame
    /\ Ordered /\ WritesAHalf
    /\ late \/ FirstHalf \/ InTurn

AudioTypes ==
    /\ audio_buf \in [1..MAX_AUDIOBUF -> FrameParts]
    /\ bufsize \in {2, 4} /\ parts \in {1, 2}
    /\ flg_buf_half \in 0..2
    /\ dma \in [size : {2, 4}, next : 1..4] /\ dma.next <= dma.size
    /\ writing \in {"idle", "waiting", "awake", "copy"}
    /\ first \in {1, 2, 3} /\ copied \in 0..parts /\ frame \in 1..(MaxFrames + 1)
    /\ writing # "copy" => copied = 0 /\ first = 1
    /\ writing # "idle" => frame <= MaxFrames
    /\ heard \in FrameParts /\ started \in Nat \ {0}

AudioInd ==
    /\ AudioTypes
    /\ ~ astride
    /\ AwakeForAHalf
    /\ writing = "waiting" => flg_play
    /\ flg_audio_start /\ ~ flg_bs_chg => dma.size = bufsize
    /\ ~ flg_play => Stopped
    /\ flg_play /\ ~ unsettled => Playing

\* Silence and the parts of frames.
LEMMA FramePartsAre ==
    /\ Silence \in FrameParts
    /\ \A f \in Nat, p \in 0..2, n \in 0..2 :
         /\ FramePart(f, p, n) \in FrameParts
         /\ FramePart(f, p, n).frame = f /\ FramePart(f, p, n).part = p /\ FramePart(f, p, n).parts = n
         /\ FramePart(f, p, n) = Silence <=> f = 0 /\ p = 0 /\ n = 0
  BY DEF Silence, FramePart, FrameParts

\* What the actions need of the types.
LEMMA AudioSizes ==
    ASSUME AudioTypes
    PROVE  /\ bufsize \in {2, 4} /\ parts \in {1, 2} /\ first \in {1, 2, 3}
           /\ copied \in Nat /\ copied <= parts
           /\ frame \in Nat /\ frame >= 1 /\ started \in Nat /\ started >= 1
           /\ Half \in {1, 2} /\ bufsize = 2 * Half
           /\ heard \in FrameParts /\ heard.frame \in Nat /\ heard.part \in 0..2
           /\ dma.size \in {2, 4} /\ dma.next \in Nat /\ 1 <= dma.next /\ dma.next <= dma.size
           /\ DOMAIN audio_buf = 1..4
           /\ \A i \in 1..4 : /\ audio_buf[i] \in FrameParts /\ audio_buf[i].frame \in Nat
                              /\ audio_buf[i].part \in 0..2
           /\ \A i \in 1..4 : WrittenAt(i) =>
                /\ audio_buf[i].frame = frame /\ audio_buf[i].part = i - first + 1
                /\ writing = "copy" /\ first <= i /\ i < first + copied
  BY DEF AudioTypes, FrameParts, Half, MAX_AUDIOBUF, WrittenAt, FramePart

LEMMA AudioStarts == AudioInit => AudioInd
<1> SUFFICES ASSUME AudioInit PROVE AudioInd
  OBVIOUS
<1>1. AudioTypes
  <2>1. audio_buf \in [1..MAX_AUDIOBUF -> FrameParts] /\ heard \in FrameParts
    BY FramePartsAre DEF AudioInit
  <2>2. /\ dma \in [size : {2, 4}, next : 1..4] /\ dma.next <= dma.size
        /\ frame \in 1..(MaxFrames + 1)
    BY AudioAssumption DEF AudioInit, MAX_AUDIOBUF
  <2> QED
    BY <2>1, <2>2 DEF AudioInit, AudioTypes, MAX_AUDIOBUF
<1>2. Stopped
  BY DEF AudioInit, Stopped, Filled, Silence, FramePart, MAX_AUDIOBUF
<1> QED
  BY <1>1, <1>2 DEF AudioInit, AudioInd, AwakeForAHalf

LEMMA AudioIndSays == AudioInd => AudioInv
<1> SUFFICES ASSUME AudioInd PROVE AudioInv
  OBVIOUS
<1>1. AudioTypeOK
  BY DEF AudioInd, AudioTypes, AudioTypeOK
<1> QED
  BY <1>1 DEF AudioInd, AudioInv, HeardInOrder

\* Waiting for the buffer, or beginning with none to wait for.
LEMMA SelectKeeps == AudioInd /\ Select => AudioInd'
<1> SUFFICES ASSUME AudioInd, Select PROVE AudioInd'
  OBVIOUS
<1> USE DEF Select, bufferVars, deviceVars, songVars, heardVars
<1>1. AudioTypes'
  BY DEF AudioInd, AudioTypes
<1>2. ASSUME ~ flg_play PROVE Stopped'
  BY <1>2 DEF AudioInd, Stopped, Filled, Half, WrittenAt
<1>3. ASSUME flg_play, ~ unsettled PROVE Playing'
  <2>1. Ordered'
    BY <1>3 DEF AudioInd, Playing, Ordered, Filled, Ahead, IsPlayed, Sooner, WrittenAt
  <2>2. WritesAHalf'
    BY <1>3 DEF AudioInd, Playing, WritesAHalf
  <2>3. (late \/ FirstHalf \/ InTurn)'
    BY <1>3 DEF AudioInd, Playing, FirstHalf, InTurn, Filled, Ahead, IsPlayed, CanFollow, HalfHolds,
      OtherHalfIsSilent, HalfIsOver, PlayedBase, OtherBase, Gone, PlayedFrame
  <2> QED
    BY <1>3, <2>1, <2>2, <2>3 DEF AudioInd, Playing
<1> QED
  BY <1>1, <1>2, <1>3 DEF AudioInd, AwakeForAHalf

\* A song begins.
LEMMA NewSongKeeps == AudioInd /\ NewSong => AudioInd'
<1> SUFFICES ASSUME AudioInd, NewSong PROVE AudioInd'
  OBVIOUS
<1> USE DEF NewSong, bufferVars, deviceVars, copyVars, heardVars
<1>1. AudioTypes'
  BY DEF AudioInd, AudioTypes
<1>2. ASSUME ~ flg_play PROVE Stopped'
  BY <1>2 DEF AudioInd, Stopped, Filled, Half, WrittenAt
<1> QED
  BY <1>1, <1>2 DEF AudioInd, AwakeForAHalf

\* The size of the buffer is set.
LEMMA SetBufsizeKeeps == AudioInd /\ SetBufsize => AudioInd'
<1> SUFFICES ASSUME AudioInd, SetBufsize PROVE AudioInd'
  OBVIOUS
<1> USE DEF SetBufsize, bufferVars, songVars, copyVars, heardVars
<1>1. AudioTypes'
  BY DEF AudioInd, AudioTypes
<1>2. ASSUME ~ flg_play PROVE Stopped'
  BY <1>2 DEF AudioInd, Stopped, Filled, Half, WrittenAt
<1> QED
  BY <1>1, <1>2 DEF AudioInd, AwakeForAHalf

\* The sound is stopped, and the buffer is silent.
LEMMA PlayStopKeeps == AudioInd /\ PlayStop => AudioInd'
<1> SUFFICES ASSUME AudioInd, PlayStop PROVE AudioInd'
  OBVIOUS
<1> USE DEF PlayStop, songVars, copyVars
<1>1. heard' \in FrameParts /\ audio_buf' \in [1..MAX_AUDIOBUF -> FrameParts]
  <2>1. frame - 1 \in Nat
    BY AudioAssumption DEF AudioInd, AudioTypes
  <2> QED
    BY <2>1, FramePartsAre DEF AudioInd, AudioTypes
<1>3. AudioTypes'
  BY <1>1 DEF AudioInd, AudioTypes
<1>2. Stopped'
  BY DEF AudioInd, AudioTypes, Stopped, Filled, FramePart, MAX_AUDIOBUF, Silence
<1> QED
  BY <1>3, <1>2 DEF AudioInd, AwakeForAHalf

\* A frame begins to be written, in the half that was played.
LEMMA AudioWriteKeeps == AudioInd /\ AudioWrite => AudioInd'
<1> SUFFICES ASSUME AudioInd, AudioWrite PROVE AudioInd'
  OBVIOUS
<1> USE DEF AudioWrite, bufferVars, deviceVars, songVars, heardVars
<1>0. Half \in {1, 2} /\ (bufsize = 2 * parts => Half = parts)
  BY DEF AudioInd, AudioTypes, Half
<1>1. AudioTypes'
  BY <1>0 DEF AudioInd, AudioTypes
<1>2. ASSUME ~ flg_play PROVE Stopped'
  BY <1>2 DEF AudioInd, Stopped, Filled, Half, WrittenAt
<1>3. ASSUME flg_play, ~ unsettled PROVE Playing'
  <2>0. first' = IF PlayedHalf = 2 THEN parts + 1 ELSE 1
    BY <1>0, <1>3 DEF AudioInd, Playing, WritesAHalf, PlayedHalf
  <2>1. Ordered'
    BY <1>3 DEF AudioInd, AudioTypes, Playing, Ordered, Filled, Ahead, IsPlayed, Sooner, WrittenAt
  <2>4. /\ bufsize = 2 * parts /\ parts \in {1, 2} /\ dma.next \in 1..bufsize
        /\ WritesAHalf /\ OtherHalfIsSilent
    BY <1>3, AudioSizes DEF AudioInd, Playing, WritesAHalf
  <2>2. WritesAHalf'
    <3>1. OtherHalfIsSilent'
      BY <2>4 DEF OtherHalfIsSilent, IsPlayed, Filled
    <3>2. \A i \in first'..(first' + parts - 1) : ~ Filled(i)'
      BY <2>0, <2>4 DEF PlayedHalf, OtherHalfIsSilent, IsPlayed, Filled
    <3> QED
      BY <2>0, <2>4, <3>1, <3>2 DEF WritesAHalf, PlayedHalf
  <2>3. (late \/ FirstHalf \/ InTurn)'
    <3>1. CASE late
      BY <3>1
    <3>2. CASE InTurn
      <4>1. /\ PlayedBase' = PlayedBase /\ OtherBase' = OtherBase /\ Gone' = Gone
            /\ PlayedFrame' = PlayedFrame /\ first' = OtherBase + 1
        BY <2>0, <2>4 DEF PlayedBase, OtherBase, Gone, PlayedFrame, PlayedHalf
      <4>2. HalfHolds(PlayedBase, PlayedFrame)' <=> HalfHolds(PlayedBase, PlayedFrame)
        BY <4>1 DEF HalfHolds
      <4>3. HalfIsOver' <=> HalfIsOver
        BY DEF HalfIsOver, IsPlayed, Ahead, Filled
      <4> QED
        BY <3>2, <4>1, <4>2, <4>3 DEF InTurn, CanFollow
    <3> QED
      BY <1>3, <3>1, <3>2 DEF AudioInd, Playing, FirstHalf
  <2> QED
    BY <1>3, <2>1, <2>2, <2>3 DEF AudioInd, Playing
<1> QED
  BY <1>1, <1>2, <1>3 DEF AudioInd, AwakeForAHalf

\* A frame has been written.
LEMMA WriteReturnsKeeps == AudioInd /\ WriteReturns => AudioInd'
<1> SUFFICES ASSUME AudioInd, WriteReturns PROVE AudioInd'
  OBVIOUS
<1> USE DEF WriteReturns, deviceVars, heardVars
<1>0. Half \in {1, 2} /\ (bufsize = 2 * parts => Half = parts)
  BY DEF AudioInd, AudioTypes, Half
<1>4. audio_buf' \in [1..MAX_AUDIOBUF -> FrameParts]
  BY FramePartsAre DEF AudioInd, AudioTypes
<1>1. AudioTypes'
  BY <1>0, <1>4, AudioAssumption DEF AudioInd, AudioTypes
<1>2. ASSUME ~ flg_play PROVE Stopped'
  <2>1. \A i \in 1..4 : audio_buf'[i] # Silence =>
          audio_buf'[i] = audio_buf[i] /\ audio_buf[i].frame \in Nat /\ audio_buf[i].part \in Nat
    BY DEF AudioInd, AudioTypes, MAX_AUDIOBUF, FrameParts
  <2>2. \A i \in 1..4 : audio_buf[i] = Silence => audio_buf'[i] = Silence
    BY DEF AudioInd, AudioTypes, MAX_AUDIOBUF
  <2>3. \A i \in 1..4 : WrittenAt(i) => audio_buf[i].frame = frame
    BY DEF WrittenAt, FramePart
  <2>4. frame \in Nat /\ heard.frame \in Nat
    BY DEF AudioInd, AudioTypes, FrameParts
  <2> QED
    BY <1>2, <2>1, <2>2, <2>3, <2>4 DEF AudioInd, Stopped, Filled, Half
<1>3. ASSUME flg_play, ~ unsettled PROVE Playing'
  <2>4. WriteLength = Half /\ copied = parts
    BY <1>0, <1>3 DEF AudioInd, AudioTypes, Playing, WritesAHalf, WriteLength, Copying, MAX_AUDIOBUF
  <2>5. audio_buf' = [i \in DOMAIN audio_buf |-> audio_buf[i]]
    BY <1>0, <2>4
  <2>0. copied = parts /\ audio_buf' = audio_buf
    BY <2>4, <2>5 DEF AudioInd, AudioTypes
  <2>6. \A i \in 1..4 : WrittenAt(i) => audio_buf[i].frame = frame
    BY DEF WrittenAt, FramePart
  <2>7. \A i \in 1..4 : audio_buf[i].frame \in Nat
    BY DEF AudioInd, AudioTypes, MAX_AUDIOBUF, FrameParts
  <2>8. frame \in Nat /\ heard.frame \in Nat /\ bufsize \in {2, 4} /\ parts \in {1, 2} /\ started \in Nat
    BY DEF AudioInd, AudioTypes, FrameParts
  <2>1. Ordered'
    BY <1>3, <2>0, <2>6, <2>7, <2>8 DEF AudioInd, Playing, Ordered, Filled, Ahead, IsPlayed, Sooner
  <2>2. WritesAHalf'
    BY <1>3, <2>0 DEF AudioInd, AudioTypes, Playing, WritesAHalf
  <2>3. (late \/ FirstHalf \/ InTurn)'
    <3>1. CASE late
      BY <3>1
    <3>2. CASE InTurn
      BY <1>3, <2>0, <2>8, <3>2 DEF InTurn, Filled, Ahead, IsPlayed, CanFollow, HalfHolds,
        HalfIsOver, PlayedBase, OtherBase, Gone, PlayedFrame
    <3> QED
      BY <1>3, <3>1, <3>2 DEF AudioInd, Playing, FirstHalf
  <2> QED
    BY <1>3, <2>1, <2>2, <2>3, <2>8 DEF AudioInd, Playing
<1> QED
  BY <1>1, <1>2, <1>3 DEF AudioInd, AwakeForAHalf
\* A part of the frame is written.
LEMMA CopyPartKeeps == AudioInd /\ CopyPart => AudioInd'
<1> SUFFICES ASSUME AudioInd, CopyPart PROVE AudioInd'
  OBVIOUS
<1> USE DEF CopyPart, deviceVars, songVars, heardVars
<1>0. AudioTypes
  BY DEF AudioInd
<1>1. PICK k \in Nat : k = first + copied
  BY <1>0, AudioSizes
<1> DEFINE x == FramePart(frame, copied + 1, parts)
<1>2. WriteLength <= parts /\ copied < parts /\ k \in 1..4
  BY <1>0, <1>1, AudioSizes DEF Copying, WriteLength, MAX_AUDIOBUF
<1>3. /\ x \in FrameParts /\ x # Silence /\ x.frame = frame /\ x.part = copied + 1
  BY <1>0, <1>1, <1>2, AudioSizes DEF FrameParts, FramePart, Silence
<1>4. /\ audio_buf' \in [1..MAX_AUDIOBUF -> FrameParts]
      /\ audio_buf'[k] = x /\ \A i \in 1..4 : i # k => audio_buf'[i] = audio_buf[i]
  BY <1>0, <1>1, <1>2, <1>3 DEF AudioTypes, MAX_AUDIOBUF
<1>5. /\ WrittenAt(k)'
      /\ \A i \in 1..4 : WrittenAt(i) => WrittenAt(i)' /\ i # k
  <2>1. k - first + 1 = copied + 1 /\ k \in first..(first + (copied + 1) - 1)
    BY <1>0, <1>1, AudioSizes
  <2>2. WrittenAt(k)'
    BY <1>1, <1>4, <2>1 DEF WrittenAt
  <2>3. ASSUME NEW i \in 1..4, WrittenAt(i) PROVE WrittenAt(i)' /\ i # k
    <3>1. i # k /\ i \in first..(first + (copied + 1) - 1)
      BY <1>0, <1>1, <2>3, AudioSizes
    <3> QED
      BY <1>4, <2>3, <3>1 DEF WrittenAt
  <2> QED
    BY <2>2, <2>3
<1>6. AudioTypes'
  BY <1>0, <1>1, <1>2, <1>4 DEF AudioTypes
<1> HIDE DEF x
<1>7. ASSUME ~ flg_play PROVE Stopped'
  <2>1. k \in 2..4
    BY <1>0, <1>1, <1>2, <1>7, AudioSizes DEF AudioInd, Stopped
  <2>0. Stopped /\ first = Half + 1 /\ k < first + 2
    BY <1>0, <1>1, <1>2, <1>7, AudioSizes DEF AudioInd, Stopped
  <2>2. ASSUME NEW i \in 2..4, Filled(i)'
        PROVE  heard.frame < audio_buf'[i].frame /\ (audio_buf'[i].frame < frame \/ WrittenAt(i)')
    <3>1. CASE i = k
      BY <1>3, <1>4, <1>5, <2>0, <3>1 DEF Stopped
    <3>2. CASE i # k
      BY <1>4, <1>5, <2>0, <2>2, <3>2 DEF Stopped, Filled
    <3> QED
      BY <3>1, <3>2
  <2>3. ASSUME Filled(2)', Filled(3)', audio_buf'[3].part = 1
        PROVE  audio_buf'[2].frame # audio_buf'[3].frame
    <3>0. \A i \in 2..4 : Filled(i) => audio_buf[i].frame < frame \/ (first <= i /\ i < k)
      BY <1>0, <1>1, <2>0, AudioSizes DEF Stopped
    <3>1. CASE k = 2
      BY <1>0, <1>3, <1>4, <2>0, <2>3, <3>0, <3>1, AudioSizes, SMTT(30) DEF Filled
    <3>2. CASE k = 3
      <4>1. first = 3
        BY <1>0, <1>1, <1>3, <1>4, <2>3, <3>2, AudioSizes
      <4> QED
        BY <1>0, <1>3, <1>4, <2>0, <2>3, <3>0, <3>2, <4>1, AudioSizes, SMTT(30) DEF Filled
    <3>3. CASE k = 4
      BY <1>4, <2>0, <2>3, <3>3 DEF Stopped, Filled
    <3> QED
      BY <2>1, <3>1, <3>2, <3>3
  <2>4. audio_buf'[1] = Silence /\ (bufsize = 4 => audio_buf'[2] = audio_buf[2])
    BY <1>0, <1>1, <1>4, <2>0, <2>1, AudioSizes, SMTT(30) DEF Stopped
  <2> QED
    BY <2>0, <2>2, <2>3, <2>4 DEF Stopped, Half
<1>8. ASSUME flg_play, ~ unsettled PROVE Playing'
  <2>0. /\ first \in {1, parts + 1} /\ Half = parts /\ bufsize = 2 * parts
        /\ Ordered /\ WritesAHalf /\ dma.size = bufsize
        /\ \A i \in 1..4 : IsPlayed(i)' <=> IsPlayed(i)
        /\ \A i \in 1..4 : Ahead(i)' <=> Ahead(i)
    BY <1>0, <1>8, AudioSizes DEF AudioInd, Playing, WritesAHalf, IsPlayed, Ahead
  <2>4. /\ k <= parts <=> first <= parts
        /\ first <= k /\ k <= first + parts - 1 /\ k \in 1..bufsize
        /\ \A i \in 1..bufsize : i \in 1..4
    BY <1>0, <1>1, <1>2, <2>0, AudioSizes
  <2>5. /\ \A i \in 1..4 : i # k => (Filled(i)' <=> Filled(i))
        /\ \A i, j \in 1..4 : Sooner(i, j)' <=> Sooner(i, j)
    BY <1>4, <2>0 DEF Filled, Sooner
  <2>6. ASSUME NEW j \in 1..bufsize, Filled(j), Sooner(k, j) PROVE FALSE
    <3>1. CASE IsPlayed(k) /\ ~ IsPlayed(j)
      BY <2>0, <2>4, <2>6, <3>1 DEF WritesAHalf, IsPlayed, OtherHalfIsSilent
    <3>2. CASE (IsPlayed(k) <=> IsPlayed(j)) /\ k < j
      <4>1. j \in first..(first + parts - 1)
        BY <1>0, <2>0, <2>4, <3>2, AudioSizes DEF IsPlayed
      <4>2. WrittenAt(j)
        BY <2>0, <2>6, <4>1 DEF WritesAHalf
      <4> QED
        BY <1>0, <1>1, <2>4, <3>2, <4>2, AudioSizes
    <3> QED
      BY <2>6, <3>1, <3>2 DEF Sooner
  <2>7. ASSUME NEW i \in 1..bufsize, Filled(i)', Ahead(i)
        PROVE  /\ Precedes(heard, audio_buf'[i])
               /\ audio_buf'[i].frame < frame \/ WrittenAt(i)'
               /\ \A j \in 1..bufsize : Filled(j)' /\ Ahead(j) /\ Sooner(i, j) =>
                    Precedes(audio_buf'[i], audio_buf'[j])
    <3>1. CASE i = k
      <4>1. \A j \in 1..bufsize : Sooner(i, j) => ~ Filled(j)'
        <5>1. ~ Sooner(k, k)
          BY DEF Sooner
        <5> QED
          BY <2>4, <2>5, <2>6, <3>1, <5>1
      <4>2. Precedes(heard, x)
        BY <1>0, <1>3, <2>0, AudioSizes DEF Ordered, Precedes
      <4> QED
        BY <1>4, <1>5, <3>1, <4>1, <4>2
    <3>2. CASE i # k
      <4>0. Filled(i) /\ audio_buf'[i] = audio_buf[i]
        BY <1>4, <2>4, <2>5, <2>7, <3>2
      <4>1. /\ Precedes(heard, audio_buf[i])
            /\ audio_buf[i].frame < frame \/ WrittenAt(i)
            /\ \A j \in 1..bufsize : Filled(j) /\ Ahead(j) /\ Sooner(i, j) =>
                 Precedes(audio_buf[i], audio_buf[j])
        BY <2>0, <2>7, <4>0 DEF Ordered
      <4>2. Precedes(audio_buf[i], x)
        BY <1>0, <1>1, <1>3, <2>4, <4>1, AudioSizes DEF Precedes
      <4> QED
        BY <1>4, <1>5, <2>4, <2>5, <4>0, <4>1, <4>2
    <3> QED
      BY <3>1, <3>2
  <2>1. Ordered'
    <3>1. heard.frame < frame \/ (heard.frame = frame /\ heard.part <= copied + 1)
      BY <1>0, <2>0, AudioSizes DEF Ordered
    <3> QED
      BY <2>0, <2>4, <2>5, <2>7, <3>1 DEF Ordered
  <2>2. WritesAHalf'
    <3>1. ASSUME IsPlayed(first) PROVE OtherHalfIsSilent'
      <4>1. IsPlayed(k)
        BY <2>4, <3>1 DEF IsPlayed
      <4> QED
        BY <2>0, <2>4, <2>5, <3>1, <4>1 DEF WritesAHalf, OtherHalfIsSilent
    <3>2. ASSUME NEW i \in first..(first + parts - 1), Filled(i)' PROVE WrittenAt(i)'
      <4>1. i \in 1..4
        BY <1>0, <2>0, <3>2, AudioSizes
      <4> QED
        BY <1>5, <2>0, <2>5, <3>2, <4>1 DEF WritesAHalf
    <3>3. IsPlayed(first)' => IsPlayed(first)
      BY DEF IsPlayed
    <3> QED
      BY <2>0, <3>1, <3>2, <3>3 DEF WritesAHalf
  <2>3. (late \/ FirstHalf \/ InTurn)'
    <3>1. CASE late
      BY <3>1
    <3>2. CASE InTurn
      <4>1. /\ PlayedBase \in {0, parts} /\ OtherBase \in {0, parts} /\ PlayedBase # OtherBase
            /\ PlayedBase + parts <= 4 /\ OtherBase + parts <= 4
            /\ PlayedBase' = PlayedBase /\ OtherBase' = OtherBase /\ Gone' = Gone
            /\ PlayedFrame' = PlayedFrame
            /\ \A i \in 1..bufsize : IsPlayed(i) => PlayedBase < i /\ i <= PlayedBase + parts
        BY <1>0, <2>0, AudioSizes DEF PlayedBase, OtherBase, Gone, PlayedFrame, IsPlayed
      <4>2. k = OtherBase + 1 + copied /\ first = OtherBase + 1
        BY <1>0, <1>1, <3>2, <4>1, AudioSizes DEF InTurn
      <4>3. \A i \in 1..parts : /\ PlayedBase + i \in 1..4 /\ PlayedBase + i # k
                                /\ audio_buf'[PlayedBase + i] = audio_buf[PlayedBase + i]
        BY <1>0, <1>2, <1>4, <4>1, <4>2, AudioSizes, SMTT(30)
      <4>4. \A i \in 1..(copied + 1) : audio_buf'[OtherBase + i] = FramePart(frame, i, parts)
        <5> SUFFICES ASSUME NEW i \in 1..(copied + 1)
                     PROVE  audio_buf'[OtherBase + i] = FramePart(frame, i, parts)
          OBVIOUS
        <5>1. CASE i = copied + 1
          BY <1>0, <1>4, <4>1, <4>2, <5>1, AudioSizes, SMTT(30) DEF x
        <5>2. CASE i # copied + 1
          <6>1. i \in 1..copied /\ OtherBase + i # k /\ OtherBase + i \in 1..4
            BY <1>0, <1>2, <4>1, <4>2, <5>2, AudioSizes
          <6> QED
            BY <1>4, <3>2, <6>1 DEF InTurn
        <5> QED
          BY <5>1, <5>2
      <4>5. HalfHolds(PlayedBase, PlayedFrame) => HalfHolds(PlayedBase, PlayedFrame)'
        BY <4>1, <4>3 DEF HalfHolds
      <4>6. HalfIsOver => HalfIsOver'
        <5>1. \A i \in 1..bufsize : IsPlayed(i) => i # k
          BY <1>0, <1>2, <4>1, <4>2, AudioSizes
        <5> QED
          BY <2>0, <2>4, <2>5, <5>1 DEF HalfIsOver
      <4> QED
        BY <3>2, <4>1, <4>2, <4>4, <4>5, <4>6 DEF InTurn, CanFollow
    <3> QED
      BY <1>8, <3>1, <3>2 DEF AudioInd, Playing, FirstHalf
  <2> QED
    BY <1>8, <2>0, <2>1, <2>2, <2>3 DEF AudioInd, Playing
<1> QED
  BY <1>6, <1>7, <1>8 DEF AudioInd, AwakeForAHalf
\* The sound is started.
LEMMA PlayStartKeeps == AudioInd /\ PlayStart => AudioInd'
<1> SUFFICES ASSUME AudioInd, PlayStart PROVE AudioInd'
  OBVIOUS
<1> USE DEF PlayStart, copyVars, songVars, bufferVars
<1>0. AudioTypes
  BY DEF AudioInd
<1>1. AudioTypes' /\ (flg_audio_start' /\ ~ flg_bs_chg' => dma'.size = bufsize)
  BY DEF AudioInd, AudioTypes
<1>2. ASSUME ~ flg_play, Placed PROVE Playing'
  <2>0. /\ bufsize = 2 * parts /\ Half = parts /\ dma'.size = bufsize /\ started' = frame
        /\ Stopped /\ writing = "idle"
        /\ \A i \in 1..bufsize : i \in 1..4
    BY <1>0, <1>2, AudioSizes DEF AudioInd, Placed
  <2>1. \/ dma'.next = 1
        \/ \A i \in 1..parts : audio_buf[i] = Silence
    BY <1>0, <2>0, AudioSizes DEF Stopped
  <2>2. \A i \in 1..4 : Filled(i) => heard.frame < audio_buf[i].frame /\ audio_buf[i].frame < frame
    BY <2>0, <1>0, AudioSizes DEF Stopped, Filled
  <2>3. CASE \A i \in 1..4 : ~ Filled(i)
    <3>1. Ordered' /\ WritesAHalf'
      BY <2>0, <2>3 DEF Ordered, WritesAHalf, Filled, Stopped
    <3>2. FirstHalf'
      BY <1>0, <2>0, <2>3, AudioSizes DEF FirstHalf, Filled, Stopped, CanFollow
    <3> QED
      BY <1>0, <2>0, <3>1, <3>2, AudioSizes DEF Playing
  <2>4. CASE ~ \A i \in 1..4 : ~ Filled(i)
    <3>1. \A i \in 1..parts : audio_buf[parts + i] = FramePart(frame - 1, i, parts)
      BY <1>0, <1>2, <2>0, <2>4, AudioSizes DEF Placed, Filled
    <3>2. \A i \in 1..parts : /\ audio_buf[parts + i].frame = frame - 1
                              /\ audio_buf[parts + i].part = i /\ Filled(parts + i)
      <4>1. frame - 1 \in Nat /\ parts \in 0..2 /\ \A i \in 1..parts : i \in 0..2 /\ i # 0
        BY <1>0, AudioSizes
      <4> QED
        BY <3>1, <4>1, FramePartsAre DEF Filled
    <3>3. heard.frame < frame - 1
      BY <1>0, <2>2, <3>2, AudioSizes
    <3>4. \A i \in 1..parts : Filled(i) => audio_buf[i].frame < frame - 1 /\ i = 2 /\ parts = 2
      <4>1. CASE parts = 1
        BY <2>0, <4>1 DEF Stopped, Filled
      <4>2. CASE parts = 2
        <5>1. audio_buf[3].frame = frame - 1 /\ audio_buf[3].part = 1 /\ Filled(3)
          BY <3>2, <4>2
        <5> QED
          BY <1>0, <2>0, <2>2, <4>2, <5>1, AudioSizes DEF Stopped, Filled
      <4> QED
        BY <1>0, <4>1, <4>2, AudioSizes
    <3>5. ASSUME NEW i \in 1..bufsize, NEW j \in 1..bufsize, Filled(i), Filled(j), Sooner(i, j)'
          PROVE  Precedes(audio_buf[i], audio_buf[j])
      <4>1. \A n \in 1..bufsize : n > parts => audio_buf[n].frame = frame - 1 /\ audio_buf[n].part = n - parts
        <5> SUFFICES ASSUME NEW n \in 1..bufsize, n > parts
                     PROVE  audio_buf[n].frame = frame - 1 /\ audio_buf[n].part = n - parts
          OBVIOUS
        <5>1. PICK m \in 1..parts : n = parts + m
          <6>1. n - parts \in 1..parts /\ n = parts + (n - parts)
            BY <1>0, <2>0, AudioSizes
          <6> QED
            BY <6>1
        <5> QED
          BY <1>0, <3>2, <5>1, AudioSizes
      <4>2. CASE i <= parts
        <5>1. j > parts
          BY <1>0, <2>0, <2>1, <3>4, <3>5, <4>2, AudioSizes DEF Filled, Sooner, IsPlayed
        <5> QED
          BY <1>0, <2>0, <3>4, <3>5, <4>1, <4>2, <5>1, AudioSizes DEF Precedes
      <4>3. CASE i > parts
        <5>1. j > parts /\ i < j
          BY <1>0, <2>0, <2>1, <3>5, <4>3, AudioSizes DEF Filled, Sooner, IsPlayed
        <5>2. i - parts < j - parts
          BY <1>0, <5>1, AudioSizes
        <5> QED
          BY <4>1, <4>3, <5>1, <5>2 DEF Precedes
      <4> QED
        BY <1>0, <2>0, <4>2, <4>3, AudioSizes
    <3>6. Ordered'
      <4>1. \A i \in 1..bufsize : Filled(i) =>
              Precedes(heard, audio_buf[i]) /\ audio_buf[i].frame < frame
        BY <2>0, <2>2 DEF Precedes
      <4>2. heard.frame < frame
        BY <2>0 DEF Stopped
      <4> QED
        BY <2>0, <3>5, <4>1, <4>2 DEF Ordered, Filled
    <3>7. WritesAHalf'
      BY <2>0 DEF WritesAHalf
    <3>8. FirstHalf'
      <4>1. HalfHolds(parts, frame - 1)'
        BY <3>1 DEF HalfHolds
      <4>2. parts < dma'.next => OtherHalfIsSilent'
        BY <1>0, <2>0, <2>1, AudioSizes DEF OtherHalfIsSilent, Filled, IsPlayed
      <4> QED
        BY <2>0, <3>3, <3>4, <4>1, <4>2 DEF FirstHalf, Stopped, Filled
    <3> QED
      BY <1>0, <2>0, <3>6, <3>7, <3>8, AudioSizes DEF Playing
  <2> QED
    BY <2>3, <2>4
<1> QED
  BY <1>1, <1>2 DEF AudioInd, AwakeForAHalf
\* What is heard next is in order.
LEMMA HearsInOrder ==
    ASSUME AudioInd, flg_play, ~ unsettled
    PROVE  InOrder(audio_buf[dma.next])
<1> DEFINE n == dma.next
           x == audio_buf[n]
<1>0. AudioTypes /\ Playing
  BY DEF AudioInd
<1>1. /\ n \in 1..bufsize /\ n \in 1..4 /\ Ahead(n) /\ IsPlayed(n) /\ bufsize = 2 * parts
      /\ PlayedBase \in {0, parts} /\ Gone \in 0..(parts - 1) /\ n = PlayedBase + (Gone + 1)
      /\ parts < n => PlayedBase = parts
  BY <1>0, AudioSizes DEF Playing, Ahead, IsPlayed, PlayedBase, Gone
<1>2. \A f \in Nat : HalfHolds(PlayedBase, f) =>
        /\ x # Silence /\ x.frame = f /\ x.part = Gone + 1
        /\ Gone > 0 => FramePart(f, Gone, parts).frame = f /\ FramePart(f, Gone, parts).part = Gone
  <2>1. Gone + 1 \in 1..parts /\ Gone + 1 \in 0..2 /\ parts \in 0..2 /\ Gone \in 0..2 /\ Gone + 1 # 0
    BY <1>0, <1>1, AudioSizes
  <2> QED
    BY <1>1, <2>1, FramePartsAre DEF HalfHolds
<1>3. frame - 1 \in Nat /\ (InTurn => PlayedFrame \in Nat /\ PlayedFrame >= started - 1 /\ frame <= PlayedFrame + 2)
  BY <1>0, AudioSizes DEF PlayedFrame, InTurn
<1> HIDE DEF n, x
<1>4. CASE x = Silence
  <2>1. CASE FirstHalf
    BY <1>0, <1>4, <2>1, AudioSizes DEF FirstHalf, InOrder, x, n
  <2>2. CASE InTurn
    <3>1. PlayedFrame = started - 1
      BY <1>2, <1>3, <1>4, <2>2 DEF InTurn
    <3> QED
      BY <1>0, <1>3, <1>4, <2>2, <3>1, AudioSizes DEF InOrder, x, n
  <2> QED
    BY <1>0, <1>4, <2>1, <2>2 DEF Playing, InOrder, x, n
<1>5. CASE x # Silence
  <2>1. Precedes(heard, x)
    BY <1>0, <1>1, <1>5 DEF Playing, Ordered, Filled, x
  <2>2. CASE late \/ heard.frame < started - 1
    BY <1>5, <2>1, <2>2 DEF InOrder, x, n
  <2>3. ASSUME ~ late, ~ heard.frame < started - 1
        PROVE  Follows(x, heard)
    <3>1. CASE FirstHalf
      <4>1. HalfHolds(parts, frame - 1) /\ PlayedBase = parts /\ Gone > 0 /\ heard = FramePart(frame - 1, Gone, parts)
        BY <1>1, <1>5, <2>3, <3>1 DEF FirstHalf, Filled, x, n
      <4> QED
        BY <1>1, <1>2, <1>3, <4>1 DEF Follows
    <3>2. CASE InTurn
      <4>1. HalfHolds(PlayedBase, PlayedFrame)
        BY <1>1, <1>5, <3>2 DEF InTurn, HalfIsOver, Filled, x
      <4>2. CASE Gone > 0
        <5>1. heard = FramePart(PlayedFrame, Gone, parts)
          BY <3>2, <4>1, <4>2, <1>1, <1>5 DEF InTurn, HalfIsOver, Filled, x
        <5> QED
          BY <1>1, <1>2, <1>3, <3>2, <4>1, <4>2, <5>1 DEF Follows
      <4>3. CASE Gone = 0
        <5>1. heard.frame = PlayedFrame - 1 /\ heard.part = heard.parts
          BY <1>1, <1>5, <2>3, <3>2, <4>3 DEF InTurn, CanFollow, HalfIsOver, Filled, x
        <5> QED
          BY <1>1, <1>2, <1>3, <3>2, <4>1, <4>3, <5>1 DEF Follows
      <4> QED
        BY <1>0, <1>1, <4>2, <4>3, AudioSizes
    <3> QED
      BY <1>0, <2>3, <3>1, <3>2 DEF Playing
  <2> QED
    BY <1>5, <2>2, <2>3 DEF InOrder, x, n
<1> QED
  BY <1>4, <1>5 DEF x, n
\* Where the DMA goes.
LEMMA DmaGoes ==
    ASSUME AudioTypes, Dma
    PROVE  /\ dma' \in [size : {2, 4}, next : 1..4] /\ dma'.size = dma.size
           /\ dma'.next = IF dma.next = dma.size THEN 1 ELSE dma.next + 1
           /\ dma.size = 2 * (dma.size \div 2) /\ dma.size \div 2 \in {1, 2}
<1>1. /\ dma.size \in {2, 4} /\ dma.next \in 1..4 /\ dma.next <= dma.size
      /\ dma \in [size : {2, 4}, next : 1..4]
  BY DEF AudioTypes
<1>2. dma.next % dma.size = IF dma.next = dma.size THEN 0 ELSE dma.next
  <2>1. CASE dma.size = 2
    BY <1>1, <2>1
  <2>2. CASE dma.size = 4
    BY <1>1, <2>2
  <2> QED
    BY <1>1, <2>1, <2>2
<1>3. (dma.next % dma.size) + 1 \in 1..4
  BY <1>1, <1>2
<1>4. dma' = [dma EXCEPT !.next = (dma.next % dma.size) + 1]
  BY DEF Dma
<1> QED
  BY <1>1, <1>2, <1>3, <1>4

\* What is heard.
LEMMA HearKeeps ==
    ASSUME AudioInd, Dma
    PROVE  /\ ~ astride'
           /\ started' = started
           /\ heard' = (IF Filled(dma.next) THEN audio_buf[dma.next] ELSE heard)
           /\ heard' \in FrameParts
<1>1. dma.next \in 1..4 /\ audio_buf[dma.next] \in FrameParts /\ heard \in FrameParts
  BY AudioSizes DEF AudioInd, AudioTypes
<1>2. unsettled \/ InOrder(audio_buf[dma.next])
  BY HearsInOrder DEF Dma
<1>3. Hear(audio_buf[dma.next])
  BY DEF Dma
<1>4. ~ astride'
  BY <1>2, <1>3 DEF Hear, AudioInd
<1> QED
  BY <1>1, <1>3, <1>4 DEF Hear, Filled

\* Within a half.
LEMMA DmaGoesOn ==
    ASSUME AudioInd, Dma, UNCHANGED <<bufferVars, writing, late>>, ~ unsettled,
           dma.next # parts, dma.next # 2 * parts
    PROVE  Playing'
<1> DEFINE n == dma.next
           x == audio_buf[n]
<1>0. AudioTypes /\ Playing /\ Hear(x) /\ flg_play
  BY DEF AudioInd, Dma
<1>u. /\ UNCHANGED <<audio_buf, flg_buf_half, bufsize, first, copied, frame, parts, writing, late, unsettled, started>>
      /\ heard' = IF Filled(n) THEN x ELSE heard
      /\ heard' \in FrameParts
  BY HearKeeps DEF Dma, bufferVars, deviceVars, songVars
<1>1. /\ bufsize = 2 * parts /\ dma.size = bufsize /\ dma'.size = dma.size
      /\ parts = 2 /\ n \in {1, 3} /\ dma'.next = n + 1
      /\ \A i \in 1..bufsize : i \in 1..4
  <2>1. bufsize = 2 * parts /\ dma.size = bufsize /\ parts \in {1, 2} /\ dma.next \in 1..bufsize
    BY <1>0, AudioSizes DEF Playing
  <2>2. parts = 2 /\ n \in {1, 3}
    BY <2>1
  <2> QED
    BY <1>0, <2>1, <2>2, DmaGoes
<1>2. /\ \A i \in 1..4 : /\ IsPlayed(i)' <=> IsPlayed(i)
                         /\ Ahead(i)' => Ahead(i) /\ i # n /\ Sooner(n, i)
                         /\ Filled(i)' <=> Filled(i)
                         /\ WrittenAt(i)' <=> WrittenAt(i)
      /\ \A i, j \in 1..4 : Sooner(i, j)' <=> Sooner(i, j)
      /\ Ahead(n) /\ n \in 1..bufsize
      /\ PlayedBase' = PlayedBase /\ OtherBase' = OtherBase /\ Gone' = Gone + 1 /\ Gone = 0
      /\ PlayedHalf' = PlayedHalf /\ n = PlayedBase + 1
  BY <1>1, <1>u DEF IsPlayed, Ahead, Sooner, Filled, WrittenAt, PlayedBase, OtherBase, Gone, PlayedHalf
<1> HIDE DEF n, x
<1>3. Ordered'
  <2>1. ASSUME NEW i \in 1..bufsize, Filled(i), Ahead(i)'
        PROVE  Precedes(heard', audio_buf[i])
    <3>1. Ahead(i) /\ Sooner(n, i)
      BY <1>1, <1>2, <2>1
    <3> QED
      BY <1>0, <1>1, <1>2, <1>u, <2>1, <3>1 DEF Playing, Ordered, x
  <2>2. heard'.frame < frame \/ (writing = "copy" /\ heard'.frame = frame /\ heard'.part <= copied)
    <3>1. CASE Filled(n)
      <4>1. x.frame < frame \/ WrittenAt(n)
        BY <1>0, <1>1, <1>2, <3>1 DEF Playing, Ordered, x
      <4>2. WrittenAt(n) => writing = "copy" /\ x.frame = frame /\ x.part <= copied
        BY <1>0, <1>1, AudioSizes DEF x
      <4> QED
        BY <1>u, <3>1, <4>1, <4>2
    <3>2. CASE ~ Filled(n)
      BY <1>0, <1>u, <3>2 DEF Playing, Ordered
    <3> QED
      BY <3>1, <3>2
  <2> QED
    BY <1>0, <1>1, <1>2, <1>u, <2>1, <2>2 DEF Playing, Ordered
<1>4. WritesAHalf'
  <2>1. OtherHalfIsSilent => OtherHalfIsSilent'
    BY <1>1, <1>2, <1>u DEF OtherHalfIsSilent
  <2>2. IsPlayed(first)' => IsPlayed(first)
    BY <1>1, <1>u DEF IsPlayed, n
  <2>3. \A i \in first..(first + parts - 1) : writing = "copy" /\ first \in {1, parts + 1} => i \in 1..4
    BY <1>1
  <2> QED
    BY <1>0, <1>1, <1>2, <1>u, <2>1, <2>2, <2>3 DEF Playing, WritesAHalf
<1>5. /\ \A f \in Nat : HalfHolds(PlayedBase, f) => heard' = FramePart(f, Gone', parts)
      /\ ~ Filled(n) => heard' = heard
  <2>1. \A f \in Nat : HalfHolds(PlayedBase, f) => x = FramePart(f, 1, parts) /\ x # Silence
    BY <1>1, <1>2, FramePartsAre DEF HalfHolds, x
  <2> QED
    BY <1>2, <1>u, <2>1 DEF Filled, x
<1>6. CASE FirstHalf
  <2>0. frame - 1 \in Nat /\ frame = started
    BY <1>0, <1>6, AudioSizes DEF FirstHalf
  <2>1. ASSUME CanFollow(frame) /\ \A i \in 1..bufsize : Ahead(i) => ~ Filled(i)
        PROVE  FirstHalf'
    <3>1. heard' = heard
      BY <1>2, <1>5, <2>1
    <3>2. CanFollow(frame)'
      BY <1>u, <2>1, <3>1 DEF CanFollow
    <3>3. \A i \in 1..bufsize : Ahead(i)' => ~ Filled(i)'
      BY <1>1, <1>2, <2>1
    <3> QED
      BY <1>6, <1>u, <3>2, <3>3 DEF FirstHalf
  <2>2. ASSUME HalfHolds(parts, frame - 1) /\ parts < n
        PROVE  FirstHalf'
    <3>1. PlayedBase = parts /\ heard' = FramePart(frame - 1, Gone', parts) /\ Gone' > 0
      BY <1>1, <1>2, <1>5, <2>0, <2>2 DEF PlayedBase, n
    <3>2. OtherHalfIsSilent' /\ HalfHolds(parts, frame - 1)' /\ parts' < dma'.next
      BY <1>1, <1>2, <1>6, <1>u, <2>2, FramePartsAre, <2>0 DEF FirstHalf, OtherHalfIsSilent, HalfHolds, Filled, Ahead, n, CanFollow
    <3> QED
      BY <1>6, <1>u, <3>1, <3>2 DEF FirstHalf
  <2>3. ASSUME HalfHolds(parts, frame - 1) /\ ~ parts < n /\ ~ (CanFollow(frame) /\ \A i \in 1..bufsize : Ahead(i) => ~ Filled(i))
        PROVE  FirstHalf'
    <3>1. /\ heard.frame < started - 1
          /\ \A i \in 1..parts : Filled(i) /\ Ahead(i) => audio_buf[i].frame < started - 1
      BY <1>6, <2>3 DEF FirstHalf, n
    <3>2. heard'.frame < started - 1
      BY <1>1, <1>2, <1>u, <2>3, <3>1 DEF x
    <3>3. \A i \in 1..parts : Filled(i)' /\ Ahead(i)' => audio_buf'[i].frame < started - 1
      BY <1>1, <1>2, <1>u, <3>1
    <3>4. HalfHolds(parts, frame - 1)' /\ ~ parts' < dma'.next
      BY <1>1, <1>u, <2>3 DEF HalfHolds
    <3> QED
      BY <1>6, <1>u, <3>2, <3>3, <3>4 DEF FirstHalf
  <2>4. FirstHalf'
    BY <1>6, <2>1, <2>2, <2>3 DEF FirstHalf
  <2> QED
    BY <1>0, <1>1, <1>3, <1>4, <1>u, <2>4 DEF Playing
<1>7. CASE InTurn
  <2>0. PlayedFrame \in Nat /\ PlayedFrame' = PlayedFrame
    BY <1>0, <1>7, <1>u, AudioSizes DEF InTurn, PlayedFrame
  <2>1. ASSUME HalfHolds(PlayedBase, PlayedFrame)
        PROVE  InTurn'
    <3>1. HalfHolds(PlayedBase, PlayedFrame)' /\ Gone' > 0 /\ heard' = FramePart(PlayedFrame, Gone, parts)'
      BY <1>2, <1>5, <1>u, <2>0, <2>1 DEF HalfHolds
    <3> QED
      BY <1>2, <1>7, <1>u, <2>0, <3>1 DEF InTurn, HalfHolds
  <2>2. ASSUME PlayedFrame = started - 1 /\ HalfIsOver /\ CanFollow(started)
        PROVE  InTurn'
    <3>1. heard' = heard
      BY <1>1, <1>2, <1>5, <2>2 DEF HalfIsOver, IsPlayed, n
    <3>2. HalfIsOver' /\ CanFollow(started)'
      BY <1>1, <1>2, <1>u, <2>2, <3>1 DEF HalfIsOver, CanFollow
    <3> QED
      BY <1>2, <1>7, <1>u, <2>0, <2>2, <3>2 DEF InTurn, HalfHolds
  <2>3. InTurn'
    BY <1>7, <2>1, <2>2 DEF InTurn
  <2> QED
    BY <1>0, <1>1, <1>3, <1>4, <1>u, <2>3 DEF Playing
<1>8. CASE late
  BY <1>0, <1>1, <1>3, <1>4, <1>8, <1>u DEF Playing
<1> QED
  BY <1>0, <1>6, <1>7, <1>8 DEF Playing
\* At the end of a half.
LEMMA DmaTurns ==
    ASSUME AudioInd, Dma, ~ unsettled,
           NEW h \in {1, 2}, h = 1 => dma.next = parts, h = 2 => dma.next = 2 * parts,
           InthdrAudio(h)
    PROVE  Playing'
<1> DEFINE n == dma.next
           x == audio_buf[n]
<1>0. AudioTypes /\ Playing /\ flg_play
  BY DEF AudioInd, Dma
<1>u. /\ UNCHANGED <<bufsize, first, copied, frame, parts, unsettled, started>>
      /\ heard' = (IF Filled(n) THEN x ELSE heard) /\ heard' \in FrameParts
      /\ flg_buf_half' = h
      /\ writing' = IF writing = "waiting" THEN "awake" ELSE writing
      /\ ~ late' => ~ late /\ writing = "waiting"
      /\ late \/ late' \/ writing = "waiting"
  BY HearKeeps DEF Dma, deviceVars, songVars, InthdrAudio
<1>1. /\ bufsize = 2 * parts /\ dma.size = bufsize /\ dma'.size = dma.size /\ Half = parts
      /\ parts \in {1, 2} /\ n \in 1..bufsize
      /\ dma'.next = IF h = 1 THEN parts + 1 ELSE 1
      /\ h = 1 => n = parts
      /\ h = 2 => n = 2 * parts
      /\ \A i \in 1..bufsize : i \in 1..4
  <2>1. bufsize = 2 * parts /\ dma.size = bufsize /\ Half = parts /\ parts \in {1, 2} /\ n \in 1..bufsize
    BY <1>0, AudioSizes DEF Playing
  <2> QED
    BY <1>0, <2>1, DmaGoes
<1>2. /\ \A i \in 1..bufsize : /\ IsPlayed(i)' <=> ~ IsPlayed(i)
                               /\ Ahead(i)'
                               /\ ~ IsPlayed(i) => Ahead(i) /\ Sooner(n, i)
                               /\ i \in Cleared(h) <=> IsPlayed(i)
      /\ \A i, j \in 1..bufsize : ~ IsPlayed(i) /\ ~ IsPlayed(j) /\ Sooner(i, j)' => Sooner(i, j)
      /\ Ahead(n)
      /\ PlayedBase' = OtherBase /\ OtherBase' = PlayedBase /\ Gone' = 0 /\ Gone + 1 = parts
      /\ PlayedHalf' = h /\ n = PlayedBase + parts
      /\ PlayedBase = (IF h = 1 THEN 0 ELSE parts) /\ OtherBase = (IF h = 1 THEN parts ELSE 0)
  BY <1>1, <1>u DEF IsPlayed, Ahead, Sooner, PlayedBase, OtherBase, Gone, PlayedHalf, Cleared
<1>3. \A i \in 1..bufsize :
        /\ IsPlayed(i) => ~ Filled(i)'
        /\ ~ IsPlayed(i) => audio_buf'[i] = audio_buf[i] /\ (Filled(i)' <=> Filled(i))
  BY <1>0, <1>1, <1>2, AudioSizes DEF InthdrAudio, Filled
<1>w. \A i \in 1..bufsize : ~ IsPlayed(i) /\ WrittenAt(i) => WrittenAt(i)'
  BY <1>3, <1>u DEF WrittenAt
<1> HIDE DEF n, x
<1>4. Ordered'
  <2>1. ASSUME NEW i \in 1..bufsize, Filled(i)'
        PROVE  /\ Precedes(heard', audio_buf'[i])
               /\ audio_buf'[i].frame < frame \/ WrittenAt(i)'
               /\ \A j \in 1..bufsize : Filled(j)' /\ Sooner(i, j)' => Precedes(audio_buf'[i], audio_buf'[j])
    <3>1. ~ IsPlayed(i) /\ Filled(i) /\ Ahead(i) /\ Sooner(n, i) /\ audio_buf'[i] = audio_buf[i]
      BY <1>2, <1>3, <2>1
    <3>2. Precedes(heard', audio_buf[i])
      BY <1>0, <1>1, <1>2, <1>u, <3>1 DEF Playing, Ordered, x
    <3>3. audio_buf[i].frame < frame \/ WrittenAt(i)'
      BY <1>0, <1>w, <3>1 DEF Playing, Ordered
    <3>4. ASSUME NEW j \in 1..bufsize, Filled(j)', Sooner(i, j)'
          PROVE  Precedes(audio_buf'[i], audio_buf'[j])
      <4>1. ~ IsPlayed(j) /\ Filled(j) /\ Ahead(j) /\ audio_buf'[j] = audio_buf[j] /\ Sooner(i, j)
        BY <1>2, <1>3, <3>1, <3>4
      <4> QED
        BY <1>0, <3>1, <4>1 DEF Playing, Ordered
    <3> QED
      BY <3>1, <3>2, <3>3, <3>4
  <2>2. heard'.frame < frame \/ (writing = "copy" /\ heard'.frame = frame /\ heard'.part <= copied)
    <3>1. CASE Filled(n)
      <4>1. x.frame < frame \/ WrittenAt(n)
        BY <1>0, <1>1, <1>2, <3>1 DEF Playing, Ordered, x
      <4>2. WrittenAt(n) => writing = "copy" /\ x.frame = frame /\ x.part <= copied
        BY <1>0, <1>1, AudioSizes DEF x
      <4> QED
        BY <1>u, <3>1, <4>1, <4>2
    <3>2. CASE ~ Filled(n)
      BY <1>0, <1>u, <3>2 DEF Playing, Ordered
    <3> QED
      BY <3>1, <3>2
  <2> QED
    BY <1>u, <2>1, <2>2 DEF Ordered
<1>5. WritesAHalf'
  <2>1. OtherHalfIsSilent'
    BY <1>1, <1>2, <1>3, <1>u DEF OtherHalfIsSilent
  <2>2. ASSUME writing = "copy", NEW i \in first..(first + parts - 1), Filled(i)'
        PROVE  WrittenAt(i)'
    <3>1. first \in {1, parts + 1} /\ (Filled(i) => WrittenAt(i))
      BY <1>0, <2>2 DEF Playing, WritesAHalf
    <3>2. i \in 1..bufsize
      BY <1>1, <3>1
    <3> QED
      BY <1>3, <1>w, <2>2, <3>1, <3>2
  <2> QED
    BY <1>0, <1>2, <1>u, <2>1, <2>2 DEF Playing, WritesAHalf
<1>6. ASSUME ~ late' PROVE InTurn'
  <2>0. /\ ~ late /\ writing = "waiting" /\ writing' = "awake"
        /\ PlayedFrame' = frame - 1 /\ PlayedFrame = frame - 2
    BY <1>u, <1>6 DEF PlayedFrame
  <2>1. frame - 1 \in Nat /\ frame \in Nat /\ started \in Nat /\ parts \in {1, 2}
    BY <1>0, AudioSizes
  <2>2. \A f \in Nat : HalfHolds(OtherBase, f) => HalfHolds(PlayedBase, f)'
    <3>1. \A i \in 1..parts : OtherBase + i \in 1..bufsize /\ ~ IsPlayed(OtherBase + i)
      BY <1>1, <1>2 DEF IsPlayed
    <3> QED
      BY <1>2, <1>3, <1>u, <3>1 DEF HalfHolds
  <2>3. \A f \in Nat : HalfHolds(PlayedBase, f) =>
          heard' = FramePart(f, parts, parts) /\ heard'.frame = f /\ heard'.part = heard'.parts
    <3>1. \A f \in Nat : HalfHolds(PlayedBase, f) => x = FramePart(f, parts, parts) /\ Filled(n)
      <4>1. parts \in 1..parts /\ parts \in 0..2 /\ parts # 0
        BY <1>1
      <4> QED
        BY <1>2, <4>1, FramePartsAre DEF HalfHolds, Filled, x
    <3>2. parts \in 0..2
      BY <1>1
    <3> QED
      BY <1>u, <3>1, <3>2, FramePartsAre
  <2>4. ~ Filled(n) => heard' = heard
    BY <1>u
  <2>5. n \in 1..bufsize /\ IsPlayed(n)
    BY <1>1, <1>2, <1>u DEF IsPlayed, n
  <2>6. CASE FirstHalf
    <3>0. frame = started
      BY <2>6 DEF FirstHalf
    <3>1. CASE CanFollow(frame) /\ \A i \in 1..bufsize : Ahead(i) => ~ Filled(i)
      <4>1. HalfIsOver'
        BY <1>2, <1>3, <1>u, <3>1 DEF HalfIsOver
      <4>2. CanFollow(started)'
        BY <1>1, <1>2, <1>u, <2>4, <3>0, <3>1 DEF CanFollow
      <4> QED
        BY <1>u, <2>0, <2>1, <3>0, <4>1, <4>2 DEF InTurn
    <3>2. CASE HalfHolds(parts, frame - 1) /\ h = 2
      <4>1. OtherHalfIsSilent \/ \A i \in 1..bufsize : Ahead(i) => ~ Filled(i)
        BY <1>1, <2>6, <3>2 DEF FirstHalf, n
      <4>2. HalfIsOver'
        BY <1>2, <1>3, <1>u, <4>1 DEF HalfIsOver, OtherHalfIsSilent
      <4>3. heard'.frame = frame - 1 /\ heard'.part = heard'.parts
        BY <1>2, <2>1, <2>3, <3>2
      <4> QED
        BY <1>u, <2>0, <2>1, <3>0, <4>2, <4>3 DEF InTurn, CanFollow
    <3>3. CASE HalfHolds(parts, frame - 1) /\ h = 1
               /\ ~ (CanFollow(frame) /\ \A i \in 1..bufsize : Ahead(i) => ~ Filled(i))
      <4>1. HalfHolds(PlayedBase, frame - 1)'
        BY <1>2, <1>u, <2>1, <2>2, <3>3
      <4>2. /\ heard.frame < started - 1
            /\ \A i \in 1..parts : Filled(i) /\ Ahead(i) => audio_buf[i].frame < started - 1
        BY <1>1, <2>1, <2>6, <3>3 DEF FirstHalf, n
      <4>3. heard'.frame < started - 1
        BY <1>1, <1>2, <1>u, <3>3, <4>2 DEF x
      <4> QED
        BY <1>2, <1>u, <2>0, <2>1, <3>0, <4>1, <4>3 DEF InTurn
    <3> QED
      BY <2>6, <3>1, <3>2, <3>3 DEF FirstHalf
  <2>7. CASE InTurn
    <3>0. started <= PlayedFrame + 1 /\ HalfHolds(OtherBase, frame - 1)
      BY <2>0, <2>7 DEF InTurn
    <3>1. HalfHolds(PlayedBase, frame - 1)'
      BY <1>u, <2>1, <2>2, <3>0
    <3>2. CanFollow(frame - 1)'
      <4>1. CASE HalfHolds(PlayedBase, PlayedFrame)
        <5>1. PlayedFrame \in Nat /\ PlayedFrame = (frame - 1) - 1
          BY <1>0, <2>0, <2>1, <3>0, AudioSizes
        <5> QED
          BY <1>u, <2>3, <4>1, <5>1 DEF CanFollow
      <4>2. CASE PlayedFrame = started - 1 /\ HalfIsOver /\ CanFollow(started)
        <5>1. heard' = heard
          BY <1>2, <2>4, <2>5, <4>2 DEF HalfIsOver
        <5> QED
          BY <1>u, <2>0, <2>1, <4>2, <5>1 DEF CanFollow
      <4> QED
        BY <2>7, <4>1, <4>2 DEF InTurn
    <3> QED
      BY <1>2, <1>u, <2>0, <2>1, <3>0, <3>1, <3>2 DEF InTurn
  <2> QED
    BY <1>0, <2>0, <2>6, <2>7 DEF Playing
<1> QED
  BY <1>0, <1>1, <1>4, <1>5, <1>6, <1>u DEF Playing

\* The DMA plays on.
LEMMA DmaKeeps == AudioInd /\ Dma => AudioInd'
<1> SUFFICES ASSUME AudioInd, Dma PROVE AudioInd'
  OBVIOUS
<1>0. AudioTypes /\ flg_play /\ ~ astride' /\ heard' \in FrameParts /\ started' = started
  BY HearKeeps DEF AudioInd, Dma
<1>1. /\ UNCHANGED <<bufsize, flg_play, flg_audio_start, flg_bs_chg, first, copied, frame, parts, unsettled>>
      /\ dma' \in [size : {2, 4}, next : 1..4] /\ dma'.size = dma.size /\ dma'.next <= dma'.size
  BY <1>0, AudioSizes, DmaGoes DEF Dma, deviceVars, songVars
<1>2. \/ \E h \in {1, 2} : InthdrAudio(h)
      \/ UNCHANGED <<bufferVars, writing, late>>
  BY DEF Dma
<1>3. /\ audio_buf' \in [1..MAX_AUDIOBUF -> FrameParts]
      /\ flg_buf_half' \in 0..2 /\ writing' \in {"idle", "waiting", "awake", "copy"}
      /\ writing' = "copy" <=> writing = "copy"
      /\ writing' = "idle" <=> writing = "idle"
      /\ writing' = "awake" => (writing = "awake" /\ flg_buf_half' = flg_buf_half) \/ flg_buf_half' # 0
  <2>1. ASSUME NEW h \in {1, 2}, InthdrAudio(h) PROVE audio_buf' \in [1..MAX_AUDIOBUF -> FrameParts]
    BY <1>0, <2>1, FramePartsAre DEF InthdrAudio, AudioTypes
  <2> QED
    BY <1>0, <1>2, <2>1 DEF InthdrAudio, AudioTypes, bufferVars
<1>4. AudioTypes'
  BY <1>0, <1>1, <1>3 DEF AudioTypes
<1>5. ASSUME ~ unsettled PROVE Playing'
  <2>0. Playing /\ dma.size \div 2 = parts /\ dma.size = 2 * parts
    BY <1>0, <1>5, AudioSizes, DmaGoes DEF AudioInd, Playing
  <2>1. CASE dma.next = parts /\ InthdrAudio(1)
    BY <1>5, <2>1, DmaTurns
  <2>2. CASE dma.next = 2 * parts /\ InthdrAudio(2)
    BY <1>5, <2>2, DmaTurns
  <2>3. CASE dma.next # parts /\ dma.next # 2 * parts /\ UNCHANGED <<bufferVars, writing, late>>
    BY <1>5, <2>3, DmaGoesOn
  <2> QED
    BY <2>0, <2>1, <2>2, <2>3 DEF Dma
<1> QED
  BY <1>0, <1>1, <1>3, <1>4, <1>5 DEF AudioInd, AwakeForAHalf

\* A step of the sound output leaves its invariant.
LEMMA AudioKeeps == AudioInd /\ [AudioNext]_audioVars => AudioInd'
<1> SUFFICES ASSUME AudioInd, [AudioNext]_audioVars PROVE AudioInd'
  OBVIOUS
<1>1. CASE UNCHANGED audioVars
  BY <1>1 DEF audioVars, AudioInd, AudioTypes, AwakeForAHalf, Stopped, Playing, Half, Filled, WrittenAt,
    Ordered, WritesAHalf, FirstHalf, InTurn, Ahead, IsPlayed, Sooner, PlayedHalf, OtherHalfIsSilent,
    CanFollow, HalfHolds, HalfIsOver, PlayedBase, OtherBase, Gone, PlayedFrame
<1> QED
  BY <1>1, DmaKeeps, SelectKeeps, AudioWriteKeeps, CopyPartKeeps, WriteReturnsKeeps,
    NewSongKeeps, SetBufsizeKeeps, PlayStartKeeps, PlayStopKeeps DEF AudioNext

\* What is heard of the sound output is in the order of the frames, and nothing of
\* them is left out while the writing task is in time, for any number of frames
\* (stm32h747i-disc_audio.c, soundio.c).
THEOREM AudioInvariant == AudioSpec => []AudioInv
<1>1. AudioInd /\ [AudioNext]_audioVars => AudioInd'
  BY AudioKeeps
<1> QED
  BY <1>1, AudioStarts, AudioIndSays, PTL DEF AudioSpec

-----------------------------------------------------------------------------
(* The lists of the music. *)

\* What the lists are made of.
Items == [piece : {"item"}, album : Nat, track : Nat, number : Nat]
Tracks == [piece : {"track"}, track : Nat, file_num : Nat]
Albums == [name : Nat, max_track_count : Nat, tracks : Seq(Tracks)]
Lists == [items : Seq(Items), albums : Seq(Albums), radios : Nat, radio_count : Nat]

\* An album has some of the files, each of its name and with its number, in order.
AlbumFits(items, album) ==
    LET tracks == album.tracks IN
    /\ Len(tracks) <= album.max_track_count
    /\ \A t \in 1..Len(tracks) :
         /\ tracks[t].file_num < Len(items)
         /\ items[tracks[t].file_num + 1].album = album.name
         /\ items[tracks[t].file_num + 1].track = tracks[t].track
    /\ \A t, u \in 1..Len(tracks) :
         t < u => \/ tracks[t].track < tracks[u].track
                  \/ tracks[t].track = tracks[u].track /\ tracks[t].file_num < tracks[u].file_num

\* Lists of n files, each of them in an album; no two albums have one name, and none is empty.
ListsFit(items, albums, n) ==
    /\ \A a \in 1..Len(albums) : AlbumFits(items, albums[a]) /\ Len(albums[a].tracks) > 0
    /\ \A a, b \in 1..Len(albums) : albums[a].name = albums[b].name => a = b
    /\ \A i \in 1..n : \E a \in 1..Len(albums) : \E t \in 1..Len(albums[a].tracks) :
         albums[a].tracks[t].file_num = i - 1

\* Lists that hold all the files they have found.
GoodLists == {l \in Lists : ListsFit(l.items, l.albums, Len(l.items))}

\* What is in a file: the pieces of the lists, and their CRC.
Heads == [piece : {"album"}, name : Nat, max : Nat, count : Nat]
ListPieces == [piece : {"number"}, n : Nat] \cup Items \cup Heads \cup Tracks \cup [piece : {"radio"}]
FilePieces == ListPieces \cup [piece : {"crc"}, of : Seq(ListPieces)]

\* An album behind what is written.
WithAlbum(w, album) == w \o <<AlbumPiece(album)>> \o album.tracks

\* w tells the albums' pieces after each album.
IsWrittenBy(w, albums) ==
    w = [n \in 0..Len(albums) |->
           IF n = 0 THEN <<>> ELSE WithAlbum(w[n - 1], albums[n])]

\* What AlbumPieces() writes step by step.
WrittenBy(albums) == CHOOSE w : IsWrittenBy(w, albums)

\* f runs g from b, n times.
Runs(f, b, g, n) == f[0] = b /\ \A k \in 1..n : f[k] = g[<<f[k - 1], k>>]

\* What a step leads on from S to S can be done any number of times.
LEMMA RunsExist ==
    ASSUME NEW S, NEW b \in S, NEW N \in Nat, NEW g \in [S \X (1..N) -> S]
    PROVE  \E f \in [0..N -> S] : Runs(f, b, g, N)
<1> DEFINE stuck == {n \in 0..N : ~ \E f \in [0..n -> S] : Runs(f, b, g, n)}
<1>1. ASSUME stuck # {}
      PROVE  FALSE
  <2>1. stuck \subseteq Nat
    OBVIOUS
  <2>2. PICK n \in stuck : \A m \in stuck : n <= m
    <3> HIDE DEF stuck
    <3> QED
      BY <1>1, <2>1, MinOfNaturals
  <2>3. n \in 0..N /\ ~ \E f \in [0..n -> S] : Runs(f, b, g, n)
    OBVIOUS
  <2>4. CASE n = 0
    <3> DEFINE f == [k \in 0..0 |-> b]
    <3>1. f \in [0..0 -> S] /\ f[0] = b
      OBVIOUS
    <3>2. Runs(f, b, g, 0)
      BY <3>1 DEF Runs
    <3> QED
      BY <2>3, <2>4, <3>1, <3>2
  <2>5. CASE n # 0
    <3>1. PICK m \in Nat : m = n - 1 /\ n = m + 1 /\ m \in 0..N /\ n \in 1..N
      BY <2>3, <2>5
    <3>2. m \notin stuck
      BY <2>2, <3>1
    <3>3. PICK f \in [0..m -> S] : Runs(f, b, g, m)
      BY <3>1, <3>2
    <3>4. <<f[m], n>> \in S \X (1..N)
      BY <3>1
    <3> DEFINE h == [k \in 0..n |-> IF k = n THEN g[<<f[m], n>>] ELSE f[k]]
    <3>5. h \in [0..n -> S]
      BY <3>1, <3>4
    <3>6. h[n] = g[<<f[m], n>>] /\ \A k \in 0..m : h[k] = f[k]
      BY <3>1
    <3> HIDE DEF h
    <3>7. h[0] = b
      BY <3>1, <3>3, <3>6 DEF Runs
    <3>8. ASSUME NEW k \in 1..n
          PROVE  h[k] = g[<<h[k - 1], k>>]
      <4>1. CASE k = n
        BY <3>1, <3>6, <4>1
      <4>2. CASE k # n
        <5>1. k \in 1..m /\ k \in 0..m /\ k - 1 \in 0..m
          BY <3>1, <4>2
        <5> QED
          BY <3>3, <3>6, <5>1 DEF Runs
      <4> QED
        BY <4>1, <4>2
    <3> QED
      BY <2>3, <3>5, <3>7, <3>8 DEF Runs
  <2> QED
    BY <2>4, <2>5
<1>2. N \in 0..N /\ N \notin stuck
  <2> HIDE DEF stuck
  <2> QED
    BY <1>1
<1> QED
  BY <1>2

\* What a run is at each step, it is when it is done.
LEMMA RunsStay ==
    ASSUME NEW S, NEW N \in Nat, NEW f, f[0] \in S,
           \A n \in 1..N : f[n - 1] \in S => f[n] \in S
    PROVE  \A n \in 0..N : f[n] \in S
<1> DEFINE out == {n \in 0..N : f[n] \notin S}
<1>1. ASSUME out # {}
      PROVE  FALSE
  <2>1. out \subseteq Nat
    OBVIOUS
  <2>2. PICK n \in out : \A m \in out : n <= m
    <3> HIDE DEF out
    <3> QED
      BY <1>1, <2>1, MinOfNaturals
  <2>3. n \in 1..N /\ f[n] \notin S
    OBVIOUS
  <2>4. n - 1 \in 0..N /\ n - 1 \notin out
    BY <2>2, <2>3
  <2> QED
    BY <2>3, <2>4
<1> QED
  BY <1>1

\* A song is put into an album behind those that come before it.
LEMMA AddItemFits ==
    ASSUME NEW items \in Seq(Items), NEW item \in Items, NEW album \in Albums,
           AlbumFits(items, album), item.album = album.name, item.number = Len(items)
    PROVE  LET new == AddItem(album, item) IN
           /\ new \in Albums /\ new.name = album.name /\ AlbumFits(Append(items, item), new)
           /\ Len(new.tracks) = Len(album.tracks) + 1
           /\ \A t \in 1..Len(album.tracks) : \E u \in 1..Len(new.tracks) : new.tracks[u] = album.tracks[t]
           /\ \E u \in 1..Len(new.tracks) : new.tracks[u].file_num = Len(items)
<1>1. PICK n \in Nat, m \in Nat, s \in Seq(Tracks) :
        n = Len(s) /\ m = Len(items) /\ s = album.tracks
  <2>1. album.tracks \in Seq(Tracks)
    BY DEF Albums
  <2> QED
    BY <2>1
<1>2. PICK x \in Tracks : x = Track(item) /\ x.track = item.track /\ x.file_num = m
  <2>1. item.track \in Nat /\ item.number = m /\ m \in Nat
    BY <1>1 DEF Items
  <2>2. Track(item) = [piece |-> "track", track |-> item.track, file_num |-> m]
    BY <2>1 DEF Track
  <2> QED
    BY <2>1, <2>2 DEF Tracks
<1>3. \A t \in 1..n : s[t] \in Tracks /\ s[t].track \in Nat /\ s[t].file_num \in Nat
  <2>1. \A t \in 1..n : s[t] \in Tracks
    BY <1>1, ElementOfSeq
  <2> QED
    BY <2>1 DEF Tracks
<1>a. /\ n <= album.max_track_count
      /\ \A t \in 1..n : /\ s[t].file_num < m
                         /\ items[s[t].file_num + 1].album = album.name
                         /\ items[s[t].file_num + 1].track = s[t].track
      /\ \A t, u \in 1..n :
           t < u => s[t].track < s[u].track \/ (s[t].track = s[u].track /\ s[t].file_num < s[u].file_num)
  BY <1>1, SMTT(40) DEF AlbumFits
<1>4. item.track \in Nat
  BY DEF Items
<1> DEFINE behind == Later(s, item)
           place == IF behind = {} THEN n + 1 ELSE Min(behind)
<1>5. behind = {i \in 1..n : item.track < s[i].track}
  BY <1>1 DEF Later
<1>6. /\ place \in 1..(n + 1)
      /\ \A t \in 1..n : t < place => s[t].track <= item.track
      /\ \A t \in 1..n : t >= place => s[t].track > item.track
  <2>1. CASE behind = {}
    <3>1. place = n + 1
      BY <2>1
    <3> HIDE DEF behind, place
    <3> QED
      BY <1>1, <1>3, <1>4, <1>5, <2>1, <3>1, SMTT(30)
  <2>2. CASE behind # {}
    <3>1. place = Min(behind)
      BY <2>2
    <3> HIDE DEF place
    <3>2. behind \subseteq Nat
      BY <1>5
    <3> HIDE DEF behind
    <3>3. place \in behind /\ \A t \in behind : place <= t
      BY <2>2, <3>1, <3>2, MinOfNaturals
    <3>4. place \in 1..n /\ item.track < s[place].track
      BY <1>5, <3>3
    <3>5. ASSUME NEW t \in 1..n, t < place
          PROVE  s[t].track <= item.track
      <4>1. t \notin behind
        BY <3>3, <3>4, <3>5
      <4> QED
        BY <1>3, <1>4, <1>5, <4>1
    <3>6. ASSUME NEW t \in 1..n, t >= place
          PROVE  s[t].track > item.track
      <4>1. t = place \/ s[place].track <= s[t].track
        BY <1>a, <3>4, <3>6, <1>3, SMTT(30)
      <4> QED
        BY <1>3, <1>4, <3>4, <4>1
    <3> QED
      BY <1>1, <3>4, <3>5, <3>6
  <2> QED
    BY <2>1, <2>2
<1> DEFINE r == InsertAt(s, place, x)
           new == AddItem(album, item)
           longer == Append(items, item)
<1>7. /\ new.tracks = r /\ new.name = album.name
      /\ new.max_track_count = IF n < album.max_track_count THEN album.max_track_count
                               ELSE album.max_track_count + INIT_ALBUM_MUSIC_NUM
      /\ new = [name |-> new.name, max_track_count |-> new.max_track_count, tracks |-> new.tracks]
  <2>1. album = [name |-> album.name, max_track_count |-> album.max_track_count, tracks |-> album.tracks]
    BY DEF Albums
  <2>2. new = [album EXCEPT
           !.max_track_count = IF n < album.max_track_count THEN album.max_track_count
                               ELSE album.max_track_count + INIT_ALBUM_MUSIC_NUM,
           !.tracks = r]
    BY <1>1, <1>2 DEF AddItem
  <2> HIDE DEF new, r
  <2> QED
    BY <2>1, <2>2
<1> HIDE DEF new, place, behind
<1>8. /\ r \in Seq(Tracks) /\ Len(r) = n + 1
      /\ \A j \in 1..(n + 1) : r[j] = IF j < place THEN s[j] ELSE IF j = place THEN x ELSE s[j - 1]
  <2>1. place \in 1..(Len(s) + 1)
    BY <1>1, <1>6
  <2>2. /\ r \in Seq(Tracks) /\ Len(r) = Len(s) + 1
        /\ \A j \in 1..(Len(s) + 1) : r[j] = IF j < place THEN s[j] ELSE IF j = place THEN x ELSE s[j - 1]
    BY <2>1, InsertAtEntries
  <2> QED
    BY <1>1, <2>2
<1> HIDE DEF r
<1>9. new \in Albums
  <2>1. album.name \in Nat /\ album.max_track_count \in Nat /\ INIT_ALBUM_MUSIC_NUM \in Nat
    BY MusicListAssumption DEF Albums
  <2> QED
    BY <1>7, <1>8, <2>1 DEF Albums
<1>10. /\ longer \in Seq(Items) /\ Len(longer) = m + 1 /\ longer[m + 1] = item
       /\ \A i \in 1..m : longer[i] = items[i]
  BY <1>1
<1> HIDE DEF longer
<1>11. Len(new.tracks) <= new.max_track_count
  <2>1. album.max_track_count \in Nat /\ INIT_ALBUM_MUSIC_NUM \in Nat /\ INIT_ALBUM_MUSIC_NUM >= 1
        /\ n <= album.max_track_count
    BY <1>a, MusicListAssumption DEF Albums
  <2> QED
    BY <1>1, <1>7, <1>8, <2>1
<1>12. ASSUME NEW t \in 1..(n + 1)
       PROVE  /\ r[t].file_num < m + 1
              /\ longer[r[t].file_num + 1].album = album.name
              /\ longer[r[t].file_num + 1].track = r[t].track
  <2>1. CASE t = place
    <3>1. r[t] = x
      BY <1>8, <2>1
    <3> QED
      BY <1>2, <1>10, <3>1
  <2>2. ASSUME NEW u \in 1..n, r[t] = s[u]
        PROVE  /\ r[t].file_num < m + 1
               /\ longer[r[t].file_num + 1].album = album.name
               /\ longer[r[t].file_num + 1].track = r[t].track
    <3>1. PICK k \in Nat : k = s[u].file_num
      BY <1>3
    <3>2. k < m /\ items[k + 1].album = album.name /\ items[k + 1].track = s[u].track
      BY <1>a, <3>1
    <3>3. longer[k + 1] = items[k + 1]
      BY <1>10, <3>2
    <3> QED
      BY <2>2, <3>1, <3>2, <3>3
  <2>3. CASE t < place
    <3>1. t \in 1..n /\ r[t] = s[t]
      BY <1>6, <1>8, <2>3
    <3> QED
      BY <2>2, <3>1
  <2>4. CASE t > place
    <3>1. t - 1 \in 1..n /\ r[t] = s[t - 1]
      BY <1>6, <1>8, <2>4
    <3> QED
      BY <2>2, <3>1
  <2> QED
    BY <1>6, <2>1, <2>3, <2>4
<1>13. ASSUME NEW t \in 1..(n + 1), NEW u \in 1..(n + 1), t < u
       PROVE  \/ r[t].track < r[u].track
              \/ r[t].track = r[u].track /\ r[t].file_num < r[u].file_num
  <2>1. \A i, j \in 1..n :
           i < j => s[i].track < s[j].track \/ (s[i].track = s[j].track /\ s[i].file_num < s[j].file_num)
    BY <1>a
  <2>2. \A i \in 1..n : s[i].file_num < m
    BY <1>a
  <2>3. CASE t = place
    <3>1. u - 1 \in 1..n /\ u - 1 >= place /\ r[u] = s[u - 1] /\ r[t] = x
      BY <1>6, <1>8, <1>13, <2>3
    <3> QED
      BY <1>2, <1>6, <3>1
  <2>4. CASE u = place
    <3>1. t \in 1..n /\ t < place /\ r[t] = s[t] /\ r[u] = x
      BY <1>6, <1>8, <1>13, <2>4
    <3> QED
      BY <1>2, <1>3, <1>4, <1>6, <2>2, <3>1
  <2>5. CASE t # place /\ u # place
    <3>1. PICK i \in 1..n, j \in 1..n : i < j /\ r[t] = s[i] /\ r[u] = s[j]
      <4>1. CASE u < place
        <5>1. t \in 1..n /\ u \in 1..n /\ r[t] = s[t] /\ r[u] = s[u]
          BY <1>6, <1>8, <1>13, <4>1
        <5> QED
          BY <1>13, <5>1
      <4>2. CASE t > place
        <5>1. t - 1 \in 1..n /\ u - 1 \in 1..n /\ t - 1 < u - 1 /\ r[t] = s[t - 1] /\ r[u] = s[u - 1]
          BY <1>6, <1>8, <1>13, <4>2
        <5> QED
          BY <5>1
      <4>3. CASE t < place /\ u > place
        <5>1. t \in 1..n /\ u - 1 \in 1..n /\ t < u - 1 /\ r[t] = s[t] /\ r[u] = s[u - 1]
          BY <1>6, <1>8, <1>13, <4>3
        <5> QED
          BY <5>1
      <4> QED
        BY <1>6, <2>5, <4>1, <4>2, <4>3
    <3> QED
      BY <2>1, <3>1
  <2> QED
    BY <2>3, <2>4, <2>5
<1>14. AlbumFits(longer, new)
  BY <1>7, <1>8, <1>10, <1>11, <1>12, <1>13 DEF AlbumFits
<1>15. ASSUME NEW t \in 1..n
       PROVE  \E u \in 1..(n + 1) : r[u] = s[t]
  <2>1. CASE t < place
    BY <1>8, <2>1
  <2>2. CASE t >= place
    <3>1. t + 1 \in 1..(n + 1) /\ r[t + 1] = s[t]
      BY <1>6, <1>8, <2>2
    <3> QED
      BY <3>1
  <2> QED
    BY <1>6, <2>1, <2>2
<1>16. r[place] = x /\ place \in 1..(n + 1)
  BY <1>6, <1>8
<1> QED
  BY <1>1, <1>2, <1>7, <1>8, <1>9, <1>14, <1>15, <1>16 DEF new, longer

\* What an album has of the files it has of more files.
LEMMA AlbumStillFits ==
    ASSUME NEW items \in Seq(Items), NEW item \in Items, NEW album \in Albums, AlbumFits(items, album)
    PROVE  AlbumFits(Append(items, item), album)
<1>1. PICK m \in Nat, longer \in Seq(Items) :
        m = Len(items) /\ longer = Append(items, item) /\ Len(longer) = m + 1
        /\ \A i \in 1..m : longer[i] = items[i]
  <2>1. Len(items) \in Nat
    OBVIOUS
  <2>2. /\ Append(items, item) \in Seq(Items) /\ Len(Append(items, item)) = Len(items) + 1
        /\ \A i \in 1..Len(items) : Append(items, item)[i] = items[i]
    BY AppendProperties
  <2> QED
    BY <2>1, <2>2
<1>2. \A t \in 1..Len(album.tracks) : album.tracks[t].file_num \in Nat
  <2>1. album.tracks \in Seq(Tracks)
    BY DEF Albums
  <2>2. \A t \in 1..Len(album.tracks) : album.tracks[t] \in Tracks
    BY <2>1, ElementOfSeq
  <2> QED
    BY <2>2 DEF Tracks
<1>3. ASSUME NEW t \in 1..Len(album.tracks)
      PROVE  /\ album.tracks[t].file_num < Len(longer)
             /\ longer[album.tracks[t].file_num + 1].album = album.name
             /\ longer[album.tracks[t].file_num + 1].track = album.tracks[t].track
  <2>1. PICK k \in Nat : k = album.tracks[t].file_num
    BY <1>2
  <2>2. k < m /\ items[k + 1].album = album.name /\ items[k + 1].track = album.tracks[t].track
    BY <1>1, <2>1 DEF AlbumFits
  <2> QED
    BY <1>1, <2>1, <2>2
<1> QED
  BY <1>1, <1>3 DEF AlbumFits

\* A song goes into the album it names, which is made if there is none.
LEMMA AddAlbumFits ==
    ASSUME NEW items \in Seq(Items), NEW albums \in Seq(Albums), NEW item \in Items,
           item.number = Len(items), ListsFit(items, albums, Len(items))
    PROVE  /\ AddAlbum(albums, item) \in Seq(Albums)
           /\ ListsFit(Append(items, item), AddAlbum(albums, item), Len(items) + 1)
<1>1. PICK N \in Nat, m \in Nat, longer \in Seq(Items) :
        N = Len(albums) /\ m = Len(items) /\ longer = Append(items, item) /\ DOMAIN albums = 1..N
  <2>1. Len(items) \in Nat /\ Len(albums) \in Nat /\ DOMAIN albums = 1..Len(albums)
    OBVIOUS
  <2> QED
    BY <2>1, AppendProperties
<1>2. /\ \A a \in 1..N : albums[a] \in Albums /\ AlbumFits(items, albums[a]) /\ Len(albums[a].tracks) > 0
      /\ \A a, b \in 1..N : albums[a].name = albums[b].name => a = b
      /\ \A i \in 1..m : \E a \in 1..N : \E t \in 1..Len(albums[a].tracks) :
           albums[a].tracks[t].file_num = i - 1
  BY <1>1 DEF ListsFit
<1>3. \A a \in 1..N : AlbumFits(longer, albums[a])
  BY <1>1, <1>2, AlbumStillFits
<1>4. \A a \in 1..N : Len(albums[a].tracks) \in Nat
  BY <1>2, SMTT(30) DEF Albums
<1> DEFINE r == AddAlbum(albums, item)
<1>5. CASE \E a \in 1..N : albums[a].name = item.album
  <2>1. PICK a \in 1..N : albums[a].name = item.album
    BY <1>5
  <2>2. PICK new : new = AddItem(albums[a], item)
    OBVIOUS
  <2>3. /\ new \in Albums /\ new.name = albums[a].name /\ AlbumFits(longer, new)
        /\ Len(new.tracks) = Len(albums[a].tracks) + 1
        /\ \A t \in 1..Len(albums[a].tracks) : \E u \in 1..Len(new.tracks) : new.tracks[u] = albums[a].tracks[t]
        /\ \E u \in 1..Len(new.tracks) : new.tracks[u].file_num = m
    <3>1. PICK album \in Albums : album = albums[a]
      BY <1>2
    <3>2. AlbumFits(items, album) /\ item.album = album.name /\ item.number = Len(items)
      BY <1>2, <2>1, <3>1
    <3>3. new = AddItem(album, item)
      BY <2>2, <3>1
    <3> QED
      BY <1>1, <3>1, <3>2, <3>3, AddItemFits, ZenonT(40)
  <2>4. r = [i \in 1..N |-> IF albums[i].name = item.album THEN AddItem(albums[i], item) ELSE albums[i]]
    BY <1>1, <1>5 DEF AddAlbum
  <2> HIDE DEF r
  <2>5. \A i \in 1..N : r[i] = IF i = a THEN new ELSE albums[i]
    <3>1. \A i \in 1..N : albums[i].name = item.album <=> i = a
      BY <1>2, <2>1
    <3> QED
      BY <2>2, <2>4, <3>1
  <2>6. r \in Seq(Albums) /\ Len(r) = N
    <3>1. \A i \in 1..N : r[i] \in Albums
      BY <1>2, <2>3, <2>5
    <3>2. r \in [1..N -> Albums]
      BY <2>4, <3>1
    <3> QED
      BY <3>2
  <2>7. \A i \in 1..N : AlbumFits(longer, r[i]) /\ Len(r[i].tracks) > 0
    <3>1. Len(new.tracks) > 0
      BY <1>4, <2>3
    <3> QED
      BY <1>2, <1>3, <2>3, <2>5, <3>1
  <2>8. \A i \in 1..N : r[i].name = albums[i].name
    BY <2>3, <2>5
  <2>9. ASSUME NEW i \in 1..(m + 1)
        PROVE  \E b \in 1..N : \E t \in 1..Len(r[b].tracks) : r[b].tracks[t].file_num = i - 1
    <3>1. CASE i = m + 1
      <4>1. r[a] = new /\ i - 1 = m
        BY <2>5, <3>1
      <4> QED
        BY <2>3, <4>1
    <3>2. CASE i # m + 1
      <4>1. i \in 1..m
        BY <3>2
      <4>a. PICK b \in 1..N : \E t \in 1..Len(albums[b].tracks) : albums[b].tracks[t].file_num = i - 1
        BY <1>2, <4>1
      <4>2. PICK t \in 1..Len(albums[b].tracks) : albums[b].tracks[t].file_num = i - 1
        BY <4>a
      <4>3. CASE b = a
        <5>1. PICK u \in 1..Len(new.tracks) : new.tracks[u] = albums[a].tracks[t]
          BY <2>3, <4>2, <4>3
        <5>2. r[a] = new
          BY <2>5
        <5> QED
          BY <4>2, <4>3, <5>1, <5>2
      <4>4. CASE b # a
        BY <2>5, <4>2, <4>4
      <4> QED
        BY <4>3, <4>4
    <3> QED
      BY <3>1, <3>2
  <2> QED
    BY <1>1, <1>2, <2>6, <2>7, <2>8, <2>9 DEF ListsFit, r
<1>6. CASE ~ \E a \in 1..N : albums[a].name = item.album
  <2>1. PICK album : album = NewAlbum(item.album)
    OBVIOUS
  <2>2. /\ album \in Albums /\ album.name = item.album /\ album.tracks = <<>>
        /\ album.max_track_count = INIT_ALBUM_MUSIC_NUM
    <3>1. item.album \in Nat /\ INIT_ALBUM_MUSIC_NUM \in Nat
      BY MusicListAssumption DEF Items
    <3> QED
      BY <2>1, <3>1 DEF NewAlbum, Albums
  <2>3. AlbumFits(items, album)
    <3>1. Len(album.tracks) = 0
      BY <2>2
    <3>2. album.max_track_count >= 0
      BY <2>2, MusicListAssumption
    <3> QED
      BY <3>1, <3>2 DEF AlbumFits
  <2>4. PICK new : new = AddItem(album, item)
    OBVIOUS
  <2>5. /\ new \in Albums /\ new.name = item.album /\ AlbumFits(longer, new)
        /\ Len(new.tracks) = Len(album.tracks) + 1
        /\ \E u \in 1..Len(new.tracks) : new.tracks[u].file_num = m
    BY <1>1, <2>2, <2>3, <2>4, AddItemFits
  <2>6. Len(new.tracks) > 0
    BY <2>2, <2>5
  <2>7. r = Append(albums, new)
    BY <1>1, <1>6, <2>1, <2>4 DEF AddAlbum
  <2> HIDE DEF r
  <2>8. /\ r \in Seq(Albums) /\ Len(r) = N + 1 /\ r[N + 1] = new
        /\ \A i \in 1..N : r[i] = albums[i]
    BY <1>1, <2>5, <2>7
  <2>9. \A i \in 1..(N + 1) : AlbumFits(longer, r[i]) /\ Len(r[i].tracks) > 0
    <3>1. \A i \in 1..(N + 1) : i \in 1..N \/ i = N + 1
      OBVIOUS
    <3> QED
      BY <1>2, <1>3, <2>5, <2>6, <2>8, <3>1
  <2>10. ASSUME NEW i \in 1..(N + 1), NEW j \in 1..(N + 1), r[i].name = r[j].name
         PROVE  i = j
    <3>1. \A k \in 1..N : r[k].name # item.album
      BY <1>6, <2>8
    <3>2. r[N + 1].name = item.album
      BY <2>5, <2>8
    <3>3. (i \in 1..N \/ i = N + 1) /\ (j \in 1..N \/ j = N + 1)
      OBVIOUS
    <3>4. i \in 1..N /\ j \in 1..N => i = j
      BY <1>2, <2>8, <2>10
    <3> QED
      BY <2>10, <3>1, <3>2, <3>3, <3>4
  <2>11. ASSUME NEW i \in 1..(m + 1)
         PROVE  \E b \in 1..(N + 1) : \E t \in 1..Len(r[b].tracks) : r[b].tracks[t].file_num = i - 1
    <3>1. CASE i = m + 1
      <4>1. i - 1 = m /\ N + 1 \in 1..(N + 1)
        BY <3>1
      <4> QED
        BY <2>5, <2>8, <4>1
    <3>2. CASE i # m + 1
      <4>1. i \in 1..m
        BY <3>2
      <4>a. PICK b \in 1..N : \E t \in 1..Len(albums[b].tracks) : albums[b].tracks[t].file_num = i - 1
        BY <1>2, <4>1
      <4>2. PICK t \in 1..Len(albums[b].tracks) : albums[b].tracks[t].file_num = i - 1
        BY <4>a
      <4>3. b \in 1..(N + 1) /\ r[b] = albums[b]
        BY <2>8
      <4> QED
        BY <4>2, <4>3
    <3> QED
      BY <3>1, <3>2
  <2> QED
    BY <1>1, <2>8, <2>9, <2>10, <2>11 DEF ListsFit, r
<1> QED
  BY <1>5, <1>6

\* The files of the card.
Files == [kind : STRING, album : Nat, track : Nat]

\* A file is found.
LEMMA AddFileFits ==
    ASSUME NEW l \in GoodLists, NEW f \in Files
    PROVE  AddFile(l, f) \in GoodLists
<1>1. /\ l \in Lists /\ ListsFit(l.items, l.albums, Len(l.items))
      /\ l.items \in Seq(Items) /\ l.albums \in Seq(Albums) /\ l.radios \in Nat /\ l.radio_count \in Nat
      /\ l = [items |-> l.items, albums |-> l.albums, radios |-> l.radios, radio_count |-> l.radio_count]
  BY DEF GoodLists, Lists
<1>2. CASE f.kind = "music"
  <2>1. PICK item : item = Item(f, Len(l.items))
    OBVIOUS
  <2>2. item \in Items /\ item.number = Len(l.items)
    <3>1. Len(l.items) \in Nat /\ f.album \in Nat /\ f.track \in Nat
      BY <1>1 DEF Files
    <3> QED
      BY <2>1, <3>1 DEF Item, Items
  <2>3. PICK i, a : i = Append(l.items, item) /\ a = AddAlbum(l.albums, item)
    OBVIOUS
  <2>4. /\ i \in Seq(Items) /\ Len(i) = Len(l.items) + 1 /\ a \in Seq(Albums)
        /\ ListsFit(i, a, Len(l.items) + 1)
    BY <1>1, <2>2, <2>3, AddAlbumFits
  <2>5. AddFile(l, f) = [l EXCEPT !.items = i, !.albums = a]
    BY <1>2, <2>1, <2>3 DEF AddFile
  <2>6. AddFile(l, f) = [items |-> i, albums |-> a, radios |-> l.radios, radio_count |-> l.radio_count]
    BY <1>1, <2>5
  <2> QED
    BY <1>1, <2>4, <2>6 DEF GoodLists, Lists
<1>3. CASE f.kind # "music"
  <2>1. AddFile(l, f) = l \/ AddFile(l, f) = [items |-> l.items, albums |-> l.albums,
                                              radios |-> l.radios + 1, radio_count |-> l.radio_count + 1]
    BY <1>1, <1>3 DEF AddFile
  <2> QED
    BY <1>1, <2>1 DEF GoodLists, Lists
<1> QED
  BY <1>2, <1>3

\* f tells the lists after each file.
IsFoundBy(f, b) ==
    f = [n \in 0..Len(files) |-> IF n = 0 THEN b ELSE AddFile(f[n - 1], files[n])]

\* What a search finds are lists of what there is.
LEMMA FoundFits ==
    ASSUME files \in CardContents, lists.radio_count \in Nat
    PROVE  CreateFilelist \in GoodLists
<1> DEFINE b == [NoLists EXCEPT !.radio_count = lists.radio_count]
           found == CHOOSE f : IsFoundBy(f, b)
<1>1. CreateFilelist = found[Len(files)]
  BY DEF CreateFilelist, IsFoundBy
<1>2. PICK N \in Nat : N = Len(files) /\ \A n \in 1..N : files[n] \in Files
  <2>1. files \in Seq(Files)
    BY MusicListAssumption DEF Files
  <2> QED
    BY <2>1
<1>3. b \in GoodLists
  <2>1. b = [items |-> <<>>, albums |-> <<>>, radios |-> 0, radio_count |-> lists.radio_count]
    BY DEF NoLists
  <2>a. Len(<<>>) = 0 /\ <<>> \in Seq(Items) /\ <<>> \in Seq(Albums)
    OBVIOUS
  <2>2. PICK s : s = <<>>
    OBVIOUS
  <2>b. Len(s) = 0 /\ s \in Seq(Items) /\ s \in Seq(Albums)
    BY <2>a, <2>2
  <2>3. ListsFit(s, s, 0)
    BY <2>b DEF ListsFit
  <2>4. PICK l : l = [items |-> s, albums |-> s, radios |-> 0, radio_count |-> lists.radio_count]
    OBVIOUS
  <2>5. l \in Lists /\ l.items = s /\ l.albums = s
    BY <2>4, <2>b DEF Lists
  <2>6. l \in GoodLists
    BY <2>b, <2>3, <2>5 DEF GoodLists
  <2> QED
    BY <2>1, <2>2, <2>4, <2>6
<1> HIDE DEF b
<1> DEFINE g == [p \in GoodLists \X (1..N) |-> AddFile(p[1], files[p[2]])]
<1>4. g \in [GoodLists \X (1..N) -> GoodLists]
  <2>1. \A l \in GoodLists, n \in 1..N : AddFile(l, files[n]) \in GoodLists
    BY <1>2, AddFileFits
  <2> QED
    BY <2>1
<1>5. \A l \in GoodLists, n \in 1..N : g[<<l, n>>] = AddFile(l, files[n])
  OBVIOUS
<1> HIDE DEF g
<1>6. PICK f \in [0..N -> GoodLists] : Runs(f, b, g, N)
  BY <1>3, <1>4, RunsExist
<1>7. IsFoundBy(f, b)
  <2>1. ASSUME NEW n \in 0..N
        PROVE  f[n] = IF n = 0 THEN b ELSE AddFile(f[n - 1], files[n])
    <3>1. CASE n = 0
      BY <1>6, <3>1 DEF Runs
    <3>2. CASE n # 0
      <4>1. n \in 1..N /\ n - 1 \in 0..N
        BY <3>2
      <4>2. f[n] = g[<<f[n - 1], n>>] /\ f[n - 1] \in GoodLists
        BY <1>6, <4>1 DEF Runs
      <4> QED
        BY <1>5, <3>2, <4>1, <4>2
    <3> QED
      BY <3>1, <3>2
  <2>2. f = [n \in 0..N |-> f[n]]
    OBVIOUS
  <2>3. [n \in 0..N |-> f[n]] = [n \in 0..N |-> IF n = 0 THEN b ELSE AddFile(f[n - 1], files[n])]
    BY <2>1, Zenon
  <2> QED
    BY <1>2, <2>2, <2>3, Zenon DEF IsFoundBy
<1>8. IsFoundBy(found, b)
  BY <1>7
<1> HIDE DEF found
<1>9. \A n \in 0..N : found[n] = IF n = 0 THEN b ELSE AddFile(found[n - 1], files[n])
  BY <1>2, <1>8, Zenon DEF IsFoundBy
<1>10. found[0] \in GoodLists
  <2>1. 0 \in 0..N
    OBVIOUS
  <2>2. found[0] = b
    BY <1>9, <2>1
  <2> QED
    BY <1>3, <2>2
<1>11. ASSUME NEW n \in 1..N, found[n - 1] \in GoodLists
       PROVE  found[n] \in GoodLists
  <2>1. n \in 0..N /\ n # 0
    OBVIOUS
  <2>2. found[n] = AddFile(found[n - 1], files[n])
    BY <1>9, <2>1
  <2> QED
    BY <1>2, <1>11, <2>2, AddFileFits
<1>12. \A n \in 0..N : found[n] \in GoodLists
  BY <1>10, <1>11, RunsStay
<1>13. N \in 0..N
  OBVIOUS
<1> QED
  BY <1>1, <1>2, <1>12, <1>13

\* The songs of an album.
LEMMA AlbumsAre ==
    ASSUME NEW l \in GoodLists
    PROVE  /\ l \in Lists /\ l.items \in Seq(Items) /\ l.albums \in Seq(Albums)
           /\ Len(l.items) \in Nat /\ Len(l.albums) \in Nat
           /\ DOMAIN l.items = 1..Len(l.items) /\ DOMAIN l.albums = 1..Len(l.albums)
           /\ \A a \in 1..Len(l.albums) :
                /\ l.albums[a] \in Albums /\ l.albums[a].tracks \in Seq(Tracks)
                /\ AlbumFits(l.items, l.albums[a])
                /\ Len(l.albums[a].tracks) \in Nat \ {0}
                /\ DOMAIN l.albums[a].tracks = 1..Len(l.albums[a].tracks)
                /\ \A t \in 1..Len(l.albums[a].tracks) :
                     l.albums[a].tracks[t].track \in Nat /\ l.albums[a].tracks[t].file_num \in Nat
<1>1. l \in Lists /\ l.items \in Seq(Items) /\ l.albums \in Seq(Albums)
  BY DEF GoodLists, Lists
<1>2. /\ Len(l.items) \in Nat /\ Len(l.albums) \in Nat
      /\ DOMAIN l.items = 1..Len(l.items) /\ DOMAIN l.albums = 1..Len(l.albums)
  BY <1>1
<1>3. ASSUME NEW a \in 1..Len(l.albums)
      PROVE  /\ l.albums[a] \in Albums /\ l.albums[a].tracks \in Seq(Tracks)
             /\ AlbumFits(l.items, l.albums[a])
             /\ Len(l.albums[a].tracks) \in Nat \ {0}
             /\ DOMAIN l.albums[a].tracks = 1..Len(l.albums[a].tracks)
             /\ \A t \in 1..Len(l.albums[a].tracks) :
                  l.albums[a].tracks[t].track \in Nat /\ l.albums[a].tracks[t].file_num \in Nat
  <2>1. PICK album \in Albums, s \in Seq(Tracks) : album = l.albums[a] /\ s = album.tracks
    <3>1. l.albums[a] \in Albums
      BY <1>1, ElementOfSeq
    <3> QED
      BY <3>1 DEF Albums
  <2>2. AlbumFits(l.items, album) /\ Len(s) > 0
    BY <2>1 DEF GoodLists, ListsFit
  <2>3. \A t \in 1..Len(s) : s[t].track \in Nat /\ s[t].file_num \in Nat
    <3>1. \A t \in 1..Len(s) : s[t] \in Tracks
      BY ElementOfSeq
    <3> QED
      BY <3>1 DEF Tracks
  <2>4. Len(s) \in Nat /\ DOMAIN s = 1..Len(s)
    OBVIOUS
  <2> QED
    BY <2>1, <2>2, <2>3, <2>4
<1> QED
  BY <1>1, <1>2, <1>3

\* The places are those of the songs in their albums.
IsOfASong(l, p) ==
    \E a \in 1..Len(l.albums) : \E t \in 1..Len(l.albums[a].tracks) : p = Place(a - 1, t - 1)

LEMMA PlacesAre ==
    ASSUME NEW l \in GoodLists, NEW p
    PROVE  p \in Places(l) <=> IsOfASong(l, p)
<1>1. PICK N \in Nat, s \in {l.albums} : N = Len(l.albums) /\ \A a \in 1..N : Len(s[a].tracks) \in Nat
  BY AlbumsAre
<1>2. p \in Places(l) <=> \E n \in 0..(N - 1) : \E t \in 0..(Len(s[n + 1].tracks) - 1) : p = Place(n, t)
  <2>1. p \in Places(l) <=> \E n \in 0..(Len(l.albums) - 1) :
                            \E t \in 0..(Len(l.albums[n + 1].tracks) - 1) : p = Place(n, t)
    BY DEF Places, TracksOf
  <2> QED
    BY <1>1, <2>1
<1>3. ASSUME NEW n \in 0..(N - 1), NEW t \in 0..(Len(s[n + 1].tracks) - 1), p = Place(n, t)
      PROVE  \E a \in 1..N : \E u \in 1..Len(s[a].tracks) : p = Place(a - 1, u - 1)
  <2>1. PICK a \in 1..N : a = n + 1 /\ a - 1 = n
    OBVIOUS
  <2>2. PICK m \in Nat : m = Len(s[a].tracks)
    BY <1>1
  <2>3. t + 1 \in 1..m /\ (t + 1) - 1 = t
    BY <2>1, <2>2
  <2> QED
    BY <1>3, <2>1, <2>2, <2>3
<1>4. ASSUME NEW a \in 1..N, NEW u \in 1..Len(s[a].tracks), p = Place(a - 1, u - 1)
      PROVE  \E n \in 0..(N - 1) : \E t \in 0..(Len(s[n + 1].tracks) - 1) : p = Place(n, t)
  <2>1. PICK n \in 0..(N - 1) : n = a - 1 /\ n + 1 = a
    OBVIOUS
  <2>2. PICK m \in Nat : m = Len(s[a].tracks)
    BY <1>1
  <2>3. u - 1 \in 0..(m - 1)
    BY <2>2
  <2> QED
    BY <1>4, <2>1, <2>2, <2>3
<1> QED
  BY <1>1, <1>2, <1>3, <1>4 DEF IsOfASong

\* A song is at one place only.
LEMMA SongsArePlacedOnce ==
    ASSUME NEW l \in GoodLists, NEW i \in 1..Len(l.items),
           NEW a \in 1..Len(l.albums), NEW t \in 1..Len(l.albums[a].tracks),
           NEW b \in 1..Len(l.albums), NEW u \in 1..Len(l.albums[b].tracks),
           l.albums[a].tracks[t].file_num = i - 1, l.albums[b].tracks[u].file_num = i - 1
    PROVE  a = b /\ t = u
<1>1. a = b
  <2>1. AlbumFits(l.items, l.albums[a]) /\ AlbumFits(l.items, l.albums[b])
    BY AlbumsAre
  <2>2. i \in Nat /\ (i - 1) + 1 = i
    BY AlbumsAre
  <2>3. l.items[i].album = l.albums[a].name
    <3>1. l.items[l.albums[a].tracks[t].file_num + 1].album = l.albums[a].name
      BY <2>1, Zenon DEF AlbumFits
    <3> QED
      BY <2>2, <3>1
  <2>4. l.items[i].album = l.albums[b].name
    <3>1. l.items[l.albums[b].tracks[u].file_num + 1].album = l.albums[b].name
      BY <2>1, Zenon DEF AlbumFits
    <3> QED
      BY <2>2, <3>1
  <2> QED
    BY <2>3, <2>4 DEF GoodLists, ListsFit
<1>2. PICK s : s = l.albums[a].tracks
  OBVIOUS
<1>3. /\ t \in 1..Len(s) /\ u \in 1..Len(s) /\ Len(s) \in Nat
      /\ s[t].file_num = i - 1 /\ s[u].file_num = i - 1 /\ i - 1 \in Nat /\ (i - 1) + 1 = i
      /\ \A v \in 1..Len(s) : s[v].track \in Nat
  <2>1. i \in 1..Len(l.items) /\ Len(l.items) \in Nat
    BY AlbumsAre
  <2>2. i - 1 \in Nat /\ (i - 1) + 1 = i
    BY <2>1
  <2> QED
    BY <1>1, <1>2, <2>2, AlbumsAre
<1>4. AlbumFits(l.items, l.albums[a])
  BY AlbumsAre
<1>5. s[t].track = s[u].track
  <2>1. l.items[s[t].file_num + 1].track = s[t].track /\ l.items[s[u].file_num + 1].track = s[u].track
    BY <1>2, <1>3, <1>4, Zenon DEF AlbumFits
  <2> QED
    BY <1>3, <2>1
<1>6. ~ t < u /\ ~ u < t
  <2>1. \A v, w \in 1..Len(s) :
           v < w => s[v].track < s[w].track \/ (s[v].track = s[w].track /\ s[v].file_num < s[w].file_num)
    <3>1. \A v, w \in 1..Len(l.albums[a].tracks) :
            v < w => \/ l.albums[a].tracks[v].track < l.albums[a].tracks[w].track
                     \/ /\ l.albums[a].tracks[v].track = l.albums[a].tracks[w].track
                        /\ l.albums[a].tracks[v].file_num < l.albums[a].tracks[w].file_num
      BY <1>4, Zenon DEF AlbumFits
    <3> QED
      BY <1>2, <3>1, SMTT(30)
  <2> QED
    BY <1>3, <1>5, <2>1, SMTT(30)
<1> QED
  BY <1>1, <1>3, <1>6

\* Each song is in one album, and albums are in order.
LEMMA AlbumsHold == ASSUME lists \in GoodLists PROVE AlbumsHoldTheFiles
<1>1. ASSUME NEW i \in 1..Len(lists.items)
      PROVE  Cardinality({p \in Places(lists) :
                            lists.albums[p.album + 1].tracks[p.track + 1].file_num = i - 1}) = 1
  <2> DEFINE S == {p \in Places(lists) :
                     lists.albums[p.album + 1].tracks[p.track + 1].file_num = i - 1}
  <2>1. PICK a \in 1..Len(lists.albums) : \E t \in 1..Len(lists.albums[a].tracks) :
           lists.albums[a].tracks[t].file_num = i - 1
    BY DEF GoodLists, ListsFit
  <2>2. PICK t \in 1..Len(lists.albums[a].tracks) : lists.albums[a].tracks[t].file_num = i - 1
    BY <2>1
  <2>3. Len(lists.albums) \in Nat /\ \A b \in 1..Len(lists.albums) : Len(lists.albums[b].tracks) \in Nat
    BY AlbumsAre
  <2>4. ASSUME NEW b \in 1..Len(lists.albums), NEW u \in 1..Len(lists.albums[b].tracks)
        PROVE  Place(b - 1, u - 1).album + 1 = b /\ Place(b - 1, u - 1).track + 1 = u
    <3>1. b \in Nat /\ u \in Nat
      BY <2>3
    <3> QED
      BY <3>1 DEF Place
  <2>5. Place(a - 1, t - 1) \in S
    <3>1. Place(a - 1, t - 1) \in Places(lists)
      <4>1. IsOfASong(lists, Place(a - 1, t - 1))
        BY DEF IsOfASong
      <4> QED
        BY <4>1, PlacesAre
    <3> QED
      BY <2>2, <2>4, <3>1
  <2>6. ASSUME NEW p \in S
        PROVE  p = Place(a - 1, t - 1)
    <3>1. PICK b \in 1..Len(lists.albums) : \E u \in 1..Len(lists.albums[b].tracks) : p = Place(b - 1, u - 1)
      <4>1. p \in Places(lists)
        OBVIOUS
      <4> HIDE DEF S
      <4>2. IsOfASong(lists, p)
        BY <4>1, PlacesAre
      <4> QED
        BY <4>2, Zenon DEF IsOfASong
    <3>2. PICK u \in 1..Len(lists.albums[b].tracks) : p = Place(b - 1, u - 1)
      BY <3>1
    <3>3. lists.albums[b].tracks[u].file_num = i - 1
      BY <2>4, <3>2
    <3>4. b = a /\ u = t
      BY <2>2, <3>3, SongsArePlacedOnce
    <3> QED
      BY <3>2, <3>4
  <2>7. S = {Place(a - 1, t - 1)}
    BY <2>5, <2>6
  <2> QED
    BY <2>7, FS_Singleton
<1>2. ASSUME NEW a \in 1..Len(lists.albums)
      PROVE  LET tracks == lists.albums[a].tracks IN
             /\ Len(tracks) <= lists.albums[a].max_track_count
             /\ \A j \in DOMAIN tracks :
                  lists.items[tracks[j].file_num + 1].album = lists.albums[a].name
             /\ \A j, k \in DOMAIN tracks :
                  j < k => \/ tracks[j].track < tracks[k].track
                           \/ tracks[j].track = tracks[k].track /\ tracks[j].file_num < tracks[k].file_num
  <2>1. AlbumFits(lists.items, lists.albums[a])
        /\ DOMAIN lists.albums[a].tracks = 1..Len(lists.albums[a].tracks)
    BY AlbumsAre
  <2> QED
    BY <2>1 DEF AlbumFits
<1>3. DOMAIN lists.items = 1..Len(lists.items) /\ DOMAIN lists.albums = 1..Len(lists.albums)
  BY AlbumsAre
<1> QED
  BY <1>1, <1>2, <1>3 DEF AlbumsHoldTheFiles

\* A place that a player may be at.
PlaceFits(l, p) == p = Start \/ IsPlace(l, p)

\* There are albums where there is music, and every place is one of them.
LEMMA PlacesOfLists ==
    ASSUME NEW l \in GoodLists
    PROVE  /\ l.items = <<>> <=> l.albums = <<>>
           /\ Len(l.albums) \in Nat /\ (l.albums = <<>> <=> Len(l.albums) = 0)
           /\ \A n \in 0..(Len(l.albums) - 1) : TracksOf(l, n) \in Nat \ {0}
           /\ \A p : PlaceFits(l, p) /\ l.albums # <<>> => IsPlace(l, p)
           /\ \A p \in Places(l) : IsPlace(l, p) /\ p = Place(p.album, p.track)
           /\ \A n \in 0..(Len(l.albums) - 1) : \A t \in 0..(TracksOf(l, n) - 1) :
                Place(n, t) \in Places(l) /\ IsPlace(l, Place(n, t))
<1>1. PICK N \in Nat, M \in Nat : N = Len(l.albums) /\ M = Len(l.items)
  BY AlbumsAre
<1>2. /\ l.albums = <<>> <=> N = 0
      /\ l.items = <<>> <=> M = 0
  BY <1>1, AlbumsAre, EmptySeq
<1>3. N = 0 => M = 0
  <2>1. SUFFICES ASSUME N = 0, M # 0 PROVE FALSE
    OBVIOUS
  <2>2. 1 \in 1..M
    BY <2>1
  <2>3. PICK a \in 1..N : TRUE
    BY <1>1, <2>2 DEF GoodLists, ListsFit
  <2> QED
    BY <2>1
<1>4. M = 0 => N = 0
  <2>1. SUFFICES ASSUME M = 0, N # 0 PROVE FALSE
    OBVIOUS
  <2>2. 1 \in 1..N
    BY <2>1
  <2>3. 1 \in 1..Len(l.albums[1].tracks) /\ AlbumFits(l.items, l.albums[1])
        /\ \A t \in 1..Len(l.albums[1].tracks) : l.albums[1].tracks[t].file_num \in Nat
    <3>1. 1 \in 1..Len(l.albums)
      BY <1>1, <2>2
    <3>2. AlbumFits(l.items, l.albums[1]) /\ Len(l.albums[1].tracks) \in Nat \ {0}
          /\ \A t \in 1..Len(l.albums[1].tracks) : l.albums[1].tracks[t].file_num \in Nat
      BY <3>1, AlbumsAre
    <3> QED
      BY <3>2
  <2>4. l.albums[1].tracks[1].file_num < M
    BY <1>1, <2>3 DEF AlbumFits
  <2> QED
    BY <2>1, <2>3, <2>4
<1>5. ASSUME NEW n \in 0..(N - 1)
      PROVE  TracksOf(l, n) = Len(l.albums[n + 1].tracks) /\ TracksOf(l, n) \in Nat \ {0}
  <2>1. n + 1 \in 1..N
    BY <1>1
  <2> QED
    BY <1>1, <2>1, AlbumsAre DEF TracksOf
<1>6. ASSUME NEW n \in 0..(N - 1), NEW t \in 0..(TracksOf(l, n) - 1)
      PROVE  /\ Place(n, t) \in Places(l) /\ IsPlace(l, Place(n, t))
  <2>1. Place(n, t).album = n /\ Place(n, t).track = t
    BY DEF Place
  <2>2. IsPlace(l, Place(n, t))
    BY <1>1, <1>5, <2>1 DEF IsPlace, IsAlbum
  <2>3. Place(n, t) \in Places(l)
    BY <1>1 DEF Places
  <2> QED
    BY <2>2, <2>3
<1>7. ASSUME NEW p, PlaceFits(l, p), l.albums # <<>>
      PROVE  IsPlace(l, p)
  <2>1. CASE p = Start
    <3>1. 0 \in 0..(N - 1)
      BY <1>2, <1>7
    <3>2. 0 \in 0..(TracksOf(l, 0) - 1)
      BY <1>5, <3>1
    <3> QED
      BY <1>6, <2>1, <3>1, <3>2 DEF Start
  <2> QED
    BY <1>7, <2>1 DEF PlaceFits
<1>8. ASSUME NEW p \in Places(l)
      PROVE  IsPlace(l, p) /\ p = Place(p.album, p.track)
  <2>1. PICK n \in 0..(N - 1) : \E t \in 0..(TracksOf(l, n) - 1) : p = Place(n, t)
    BY <1>1 DEF Places
  <2>2. PICK t \in 0..(TracksOf(l, n) - 1) : p = Place(n, t)
    BY <2>1
  <2>3. p.album = n /\ p.track = t
    BY <2>2 DEF Place
  <2> QED
    BY <1>6, <2>2, <2>3
<1> QED
  BY <1>1, <1>2, <1>3, <1>4, <1>5, <1>6, <1>7, <1>8

\* The album behind the last is the first.
LEMMA AlbumBehind ==
    ASSUME NEW N \in Nat \ {0}, NEW n \in 0..(N - 1)
    PROVE  (n + 1) % N = IF n + 1 = N THEN 0 ELSE n + 1
<1>1. CASE n + 1 = N
  BY <1>1
<1>2. CASE n + 1 # N
  BY <1>2
<1> QED
  BY <1>1, <1>2

\* Forward in order, and back.
LEMMA GoingOn ==
    ASSUME NEW l \in GoodLists, NEW n \in 0..(Len(l.albums) - 1), NEW t \in 0..(TracksOf(l, n) - 1)
    PROVE  LET p == Place(n, t) IN
           /\ IsPlace(l, FfInOrder(l, p)) /\ IsPlace(l, Fr(l, p)) /\ Fr(l, FfInOrder(l, p)) = p
<1> DEFINE p == Place(n, t)
<1>1. p.album = n /\ p.track = t
  BY DEF Place
<1> HIDE DEF p
<1>2. PICK N \in Nat \ {0} : N = Len(l.albums)
  BY PlacesOfLists
<1>3. PICK T \in Nat \ {0} : T = TracksOf(l, n)
  BY PlacesOfLists
<1>4. \A m \in 0..(N - 1) : TracksOf(l, m) \in Nat \ {0}
  BY <1>2, PlacesOfLists
<1>5. \A m \in 0..(N - 1) : \A u \in 0..(TracksOf(l, m) - 1) : IsPlace(l, Place(m, u))
  BY <1>2, PlacesOfLists
<1>6. IsPlace(l, Fr(l, p))
  <2>1. CASE t > 0
    <3>1. Fr(l, p) = Place(n, t - 1)
      BY <1>1, <2>1 DEF Fr
    <3>2. t - 1 \in 0..(TracksOf(l, n) - 1)
      BY <1>3, <2>1
    <3> QED
      BY <1>2, <1>5, <3>1, <3>2
  <2>2. CASE t = 0
    <3>1. PICK m \in 0..(N - 1) : m = IF n = 0 THEN N - 1 ELSE n - 1
      <4>1. (IF n = 0 THEN N - 1 ELSE n - 1) \in 0..(N - 1)
        BY <1>2
      <4> QED
        BY <4>1
    <3>2. Fr(l, p) = Place(m, TracksOf(l, m) - 1)
      BY <1>1, <1>2, <2>2, <3>1 DEF Fr
    <3>3. TracksOf(l, m) - 1 \in 0..(TracksOf(l, m) - 1)
      BY <1>4
    <3> QED
      BY <1>5, <3>2, <3>3
  <2> QED
    BY <2>1, <2>2
<1>7. CASE t + 1 < T
  <2>1. FfInOrder(l, p) = Place(n, t + 1)
    BY <1>1, <1>3, <1>7 DEF FfInOrder
  <2>2. IsPlace(l, Place(n, t + 1))
    <3>1. t + 1 \in 0..(TracksOf(l, n) - 1)
      BY <1>3, <1>7
    <3> QED
      BY <1>2, <1>5, <3>1
  <2>3. Fr(l, Place(n, t + 1)) = p
    <3>1. Place(n, t + 1).album = n /\ Place(n, t + 1).track = t + 1 /\ t + 1 > 0 /\ (t + 1) - 1 = t
      BY <1>3 DEF Place
    <3> QED
      BY <3>1 DEF Fr, p
  <2> QED
    BY <1>6, <2>1, <2>2, <2>3 DEF p
<1>8. CASE ~ t + 1 < T
  <2>1. t = T - 1
    BY <1>3, <1>8
  <2>2. PICK m \in 0..(N - 1) : m = IF n + 1 = N THEN 0 ELSE n + 1
    BY <1>2
  <2>3. FfInOrder(l, p) = Place(m, 0)
    <3>1. NextAlbum(l, n) = m
      BY <1>2, <2>2, AlbumBehind DEF NextAlbum
    <3> QED
      BY <1>1, <1>3, <1>8, <3>1 DEF FfInOrder
  <2>4. IsPlace(l, Place(m, 0))
    <3>1. 0 \in 0..(TracksOf(l, m) - 1)
      BY <1>4
    <3> QED
      BY <1>5, <3>1
  <2>5. Fr(l, Place(m, 0)) = Place(n, TracksOf(l, n) - 1)
    <3>1. Place(m, 0).album = m /\ Place(m, 0).track = 0
      BY DEF Place
    <3>2. (IF m = 0 THEN N - 1 ELSE m - 1) = n
      BY <1>2, <2>2
    <3> QED
      BY <1>2, <3>1, <3>2 DEF Fr
  <2> QED
    BY <1>3, <1>6, <2>1, <2>3, <2>4, <2>5 DEF p
<1> QED
  BY <1>7, <1>8

\* Going back undoes going forward.
LEMMA BackUndoesForward == ASSUME lists \in GoodLists PROVE FrUndoesFf
<1>1. ASSUME NEW p \in Places(lists)
      PROVE  Fr(lists, FfInOrder(lists, p)) = p
  <2>1. p = Place(p.album, p.track) /\ p.album \in 0..(Len(lists.albums) - 1)
        /\ p.track \in 0..(TracksOf(lists, p.album) - 1)
    BY PlacesOfLists DEF IsPlace, IsAlbum, TracksOf
  <2> QED
    BY <2>1, GoingOn
<1> QED
  BY <1>1 DEF FrUndoesFf

\* A piece tells what it is.
LEMMA PieceKinds ==
    ASSUME NEW x \in FilePieces
    PROVE  /\ x.piece = "album" => x \in Heads
           /\ x.piece = "item" => x \in Items
           /\ x.piece = "track" => x \in Tracks
           /\ x.piece = "crc" <=> x \notin ListPieces
BY DEF FilePieces, ListPieces, Heads, Items, Tracks

\* An album behind what is written.
LEMMA AlbumIsWritten ==
    ASSUME NEW w \in Seq(ListPieces), NEW album \in Albums
    PROVE  LET u == WithAlbum(w, album)
               m == Len(w)
               T == Len(album.tracks) IN
           /\ u \in Seq(ListPieces) /\ m \in Nat /\ T \in Nat /\ Len(u) = m + 1 + T
           /\ \A j \in 1..m : u[j] = w[j]
           /\ u[m + 1] = AlbumPiece(album)
           /\ \A t \in 1..T : u[m + 1 + t] = album.tracks[t]
<1>0. PICK m \in Nat, T \in Nat : m = Len(w) /\ T = Len(album.tracks)
  <2>1. album.tracks \in Seq(Tracks)
    BY DEF Albums
  <2> QED
    BY <2>1
<1>1. PICK s \in Seq(Tracks) : s = album.tracks /\ T = Len(s)
  <2>1. album.tracks \in Seq(Tracks)
    BY DEF Albums
  <2> QED
    BY <1>0, <2>1
<1>2. PICK x \in ListPieces : x = AlbumPiece(album)
  <2>1. AlbumPiece(album) \in Heads
    BY <1>1 DEF AlbumPiece, Heads, Albums
  <2> QED
    BY <2>1 DEF ListPieces
<1>3. s \in Seq(ListPieces)
  <2>1. \A i \in 1..T : s[i] \in ListPieces
    <3>1. \A i \in 1..T : s[i] \in Tracks
      BY <1>1, ElementOfSeq
    <3> QED
      BY <3>1 DEF ListPieces
  <2>2. s \in [1..T -> ListPieces]
    BY <1>1, <2>1
  <2> QED
    BY <2>2
<1>4. PICK v \in Seq(ListPieces) : v = Append(w, x)
  BY AppendProperties
<1>4a. w \o <<x>> = v
  BY <1>4, AppendIsConcat
<1>5. Len(v) = m + 1 /\ v[m + 1] = x /\ \A j \in 1..m : v[j] = w[j]
  BY <1>0, <1>4, AppendProperties
<1>6. PICK u \in Seq(ListPieces) : u = WithAlbum(w, album) /\ u = v \o s
  <2>1. WithAlbum(w, album) = v \o s
    BY <1>1, <1>2, <1>4a DEF WithAlbum
  <2>2. v \o s \in Seq(ListPieces)
    BY <1>3, ConcatProperties
  <2> QED
    BY <2>1, <2>2
<1>7. Len(u) = m + 1 + T /\ \A j \in 1..(m + 1 + T) : u[j] = IF j <= m + 1 THEN v[j] ELSE s[j - (m + 1)]
  <2>1. PICK k \in Nat, r \in Nat : k = Len(v) /\ r = Len(s) /\ k = m + 1 /\ r = T
    BY <1>0, <1>1, <1>5
  <2>2. Len(u) = k + r /\ \A j \in 1..(k + r) : u[j] = IF j <= k THEN v[j] ELSE s[j - k]
    <3>1. /\ Len(v \o s) = Len(v) + Len(s)
          /\ \A j \in 1..(Len(v) + Len(s)) : (v \o s)[j] = IF j <= Len(v) THEN v[j] ELSE s[j - Len(v)]
      BY <1>3, ConcatProperties
    <3> QED
      BY <1>6, <2>1, <3>1, Zenon
  <2> QED
    BY <2>1, <2>2
<1>8. u[m + 1] = x /\ \A j \in 1..m : u[j] = w[j]
  <2>1. m + 1 \in 1..(m + 1 + T) /\ \A j \in 1..m : j \in 1..(m + 1 + T) /\ j <= m + 1
    OBVIOUS
  <2>2. u[m + 1] = v[m + 1] /\ \A j \in 1..m : u[j] = v[j]
    BY <1>7, <2>1
  <2> QED
    BY <1>5, <2>2
<1>9. \A t \in 1..T : u[m + 1 + t] = s[t]
  <2>1. ASSUME NEW t \in 1..T
        PROVE  u[m + 1 + t] = s[t]
    <3>1. m + 1 + t \in 1..(m + 1 + T) /\ ~ m + 1 + t <= m + 1 /\ (m + 1 + t) - (m + 1) = t
      OBVIOUS
    <3> QED
      BY <1>7, <3>1
  <2> QED
    BY <2>1
<1> QED
  BY <1>0, <1>1, <1>2, <1>6, <1>7, <1>8, <1>9

\* The albums are written one after the other.
LEMMA AlbumsAreWritten ==
    ASSUME NEW albums \in Seq(Albums)
    PROVE  LET w == WrittenBy(albums) IN
           /\ AlbumPieces(albums) = w[Len(albums)]
           /\ w[0] = <<>>
           /\ \A n \in 0..Len(albums) : w[n] \in Seq(ListPieces)
           /\ \A n \in 1..Len(albums) : w[n] = WithAlbum(w[n - 1], albums[n])
<1> DEFINE w == WrittenBy(albums)
           add(v, n) == WithAlbum(v, albums[n])
<1>1. AlbumPieces(albums) = w[Len(albums)]
  BY DEF AlbumPieces, WrittenBy, IsWrittenBy, WithAlbum
<1>2. PICK N \in Nat : N = Len(albums) /\ \A n \in 1..N : albums[n] \in Albums
  BY ElementOfSeq
<1> DEFINE g == [p \in Seq(ListPieces) \X (1..N) |-> add(p[1], p[2])]
<1>3. \A v \in Seq(ListPieces), n \in 1..N : add(v, n) \in Seq(ListPieces)
  BY <1>2, AlbumIsWritten
<1>4. g \in [Seq(ListPieces) \X (1..N) -> Seq(ListPieces)]
  <2> HIDE DEF add
  <2> QED
    BY <1>3
<1>5. \A v \in Seq(ListPieces), n \in 1..N : g[<<v, n>>] = add(v, n)
  <2> HIDE DEF add
  <2> QED
    OBVIOUS
<1> HIDE DEF g, add
<1>6. PICK b \in Seq(ListPieces) : b = <<>>
  <2>1. <<>> \in Seq(ListPieces)
    OBVIOUS
  <2> QED
    BY <2>1
<1>7. PICK f \in [0..N -> Seq(ListPieces)] : Runs(f, b, g, N)
  BY <1>4, RunsExist
<1>8. IsWrittenBy(f, albums)
  <2>1. ASSUME NEW n \in 0..N
        PROVE  f[n] = IF n = 0 THEN <<>> ELSE add(f[n - 1], n)
    <3>1. CASE n = 0
      BY <1>6, <1>7, <3>1 DEF Runs
    <3>2. CASE n # 0
      <4>1. n \in 1..N /\ n - 1 \in 0..N
        BY <3>2
      <4>2. f[n] = g[<<f[n - 1], n>>] /\ f[n - 1] \in Seq(ListPieces)
        BY <1>7, <4>1 DEF Runs
      <4> QED
        BY <1>5, <3>2, <4>1, <4>2
    <3> QED
      BY <3>1, <3>2
  <2>2. f = [n \in 0..N |-> f[n]]
    OBVIOUS
  <2>3. [n \in 0..N |-> f[n]] = [n \in 0..N |-> IF n = 0 THEN <<>> ELSE add(f[n - 1], n)]
    BY <2>1, Zenon
  <2> QED
    BY <1>2, <2>2, <2>3, Zenon DEF IsWrittenBy, add
<1>9. IsWrittenBy(w, albums)
  BY <1>8 DEF WrittenBy
<1> HIDE DEF w
<1>10. \A n \in 0..N : w[n] = IF n = 0 THEN <<>> ELSE add(w[n - 1], n)
  BY <1>2, <1>9, Zenon DEF IsWrittenBy, add
<1>11. w[0] = b
  <2>1. 0 \in 0..N
    OBVIOUS
  <2> QED
    BY <1>6, <1>10, <2>1
<1>12. \A n \in 1..N : w[n] = add(w[n - 1], n)
  <2>1. \A n \in 1..N : n \in 0..N /\ n # 0
    OBVIOUS
  <2> QED
    BY <1>10, <2>1
<1>13. \A n \in 0..N : w[n] \in Seq(ListPieces)
  <2>1. \A n \in 1..N : w[n - 1] \in Seq(ListPieces) => w[n] \in Seq(ListPieces)
    BY <1>3, <1>12
  <2> QED
    BY <1>11, <2>1, RunsStay
<1> QED
  BY <1>1, <1>2, <1>6, <1>11, <1>12, <1>13 DEF w, add

\* What is written with an album.
LEMMA WrittenNext ==
    ASSUME NEW albums \in Seq(Albums), NEW n \in 1..Len(albums)
    PROVE  LET w == WrittenBy(albums)
               m == Len(w[n - 1])
               T == Len(albums[n].tracks) IN
           /\ albums[n] \in Albums /\ m \in Nat /\ T \in Nat /\ Len(w[n]) = m + 1 + T
           /\ \A j \in 1..m : w[n][j] = w[n - 1][j]
           /\ w[n][m + 1] = AlbumPiece(albums[n])
           /\ \A t \in 1..T : w[n][m + 1 + t] = albums[n].tracks[t]
<1>1. albums[n] \in Albums /\ Len(albums[n].tracks) \in Nat /\ n - 1 \in 0..Len(albums)
  <2>1. albums[n] \in Albums
    BY ElementOfSeq
  <2> QED
    BY <2>1 DEF Albums
<1>2. PICK w \in {WrittenBy(albums)} : TRUE
  OBVIOUS
<1>3. w[n - 1] \in Seq(ListPieces) /\ w[n] = WithAlbum(w[n - 1], albums[n])
  BY <1>1, <1>2, AlbumsAreWritten
<1>4. PICK v \in Seq(ListPieces), album \in Albums : v = w[n - 1] /\ album = albums[n]
  BY <1>1, <1>3
<1>5. PICK u, m, T : u = WithAlbum(v, album) /\ m = Len(v) /\ T = Len(album.tracks)
  OBVIOUS
<1>6. /\ m \in Nat /\ T \in Nat /\ Len(u) = m + 1 + T
      /\ \A j \in 1..m : u[j] = v[j]
      /\ u[m + 1] = AlbumPiece(album)
      /\ \A t \in 1..T : u[m + 1 + t] = album.tracks[t]
  BY <1>5, AlbumIsWritten
<1>7. u = w[n] /\ m = Len(w[n - 1]) /\ T = Len(albums[n].tracks) /\ w = WrittenBy(albums)
  BY <1>2, <1>3, <1>4, <1>5
<1>8. /\ Len(w[n]) = m + 1 + T
      /\ \A j \in 1..m : w[n][j] = w[n - 1][j]
      /\ w[n][m + 1] = AlbumPiece(albums[n])
      /\ \A t \in 1..T : w[n][m + 1 + t] = albums[n].tracks[t]
  BY <1>4, <1>6, <1>7, Zenon
<1> QED
  BY <1>1, <1>6, <1>7, <1>8

\* What is written stays as it is.
LEMMA WrittenStays ==
    ASSUME NEW albums \in Seq(Albums), NEW n \in 0..Len(albums)
    PROVE  LET w == WrittenBy(albums)
               all == AlbumPieces(albums) IN
           /\ Len(w[n]) \in Nat /\ Len(all) \in Nat /\ Len(w[n]) <= Len(all)
           /\ \A j \in 1..Len(w[n]) : all[j] = w[n][j]
<1> DEFINE w == WrittenBy(albums)
<1>1. PICK N \in Nat : N = Len(albums)
  OBVIOUS
<1>2. /\ AlbumPieces(albums) = w[N]
      /\ \A m \in 0..N : w[m] \in Seq(ListPieces) /\ Len(w[m]) \in Nat
  BY <1>1, AlbumsAreWritten
<1>3. \A m \in 1..N : /\ Len(w[m - 1]) \in Nat /\ Len(w[m]) \in Nat /\ Len(w[m - 1]) <= Len(w[m])
                      /\ \A j \in 1..Len(w[m - 1]) : w[m][j] = w[m - 1][j]
  <2>1. ASSUME NEW m \in 1..N
        PROVE  /\ Len(w[m - 1]) \in Nat /\ Len(w[m]) \in Nat /\ Len(w[m - 1]) <= Len(w[m])
               /\ \A j \in 1..Len(w[m - 1]) : w[m][j] = w[m - 1][j]
    <3>1. PICK k \in Nat, T \in Nat : k = Len(w[m - 1]) /\ T = Len(albums[m].tracks)
      BY <1>1, WrittenNext
    <3>2. /\ Len(w[m]) = Len(w[m - 1]) + 1 + Len(albums[m].tracks)
          /\ \A j \in 1..Len(w[m - 1]) : w[m][j] = w[m - 1][j]
      BY <1>1, WrittenNext
    <3>3. Len(w[m]) = k + 1 + T
      BY <3>1, <3>2
    <3>4. k <= k + 1 + T /\ k + 1 + T \in Nat
      OBVIOUS
    <3> QED
      BY <3>1, <3>2, <3>3, <3>4, Zenon
  <2> QED
    BY <2>1
<1>a. n \in 0..N
  BY <1>1
<1> DEFINE Stays(m) == n <= m => /\ Len(w[n]) <= Len(w[m])
                                 /\ \A j \in 1..Len(w[n]) : w[m][j] = w[n][j]
           S == {m \in 0..N : Stays(m)}
           f == [m \in 0..N |-> m]
<1>b. \A m \in 0..N : f[m] = m
  OBVIOUS
<1>c. \A m \in S : m \in 0..N /\ Stays(m)
  OBVIOUS
<1>d. \A m \in 0..N : Stays(m) => m \in S
  OBVIOUS
<1> HIDE DEF S, f
<1>4. f[0] \in S
  <2>1. 0 \in 0..N
    BY <1>1
  <2>2. Stays(0)
    <3>1. CASE n = 0
      BY <1>2, <2>1, <3>1
    <3>2. CASE n # 0
      BY <1>a, <3>2
    <3> QED
      BY <3>1, <3>2
  <2> QED
    BY <1>b, <1>d, <2>1, <2>2
<1>5. ASSUME NEW m \in 1..N, f[m - 1] \in S
      PROVE  f[m] \in S
  <2>1. m \in 0..N /\ m - 1 \in 0..N
    BY <1>1
  <2>2. Stays(m - 1)
    <3>1. f[m - 1] = m - 1
      BY <1>b, <2>1
    <3> QED
      BY <1>5, <1>c, <3>1
  <2>3. Stays(m)
    <3>1. CASE n <= m - 1
      BY <1>2, <1>3, <1>a, <2>1, <2>2, <3>1
    <3>2. CASE n = m
      BY <1>2, <2>1, <3>2
    <3>3. CASE n > m
      BY <1>a, <3>3
    <3> QED
      BY <1>a, <3>1, <3>2, <3>3
  <2> HIDE DEF Stays
  <2> QED
    BY <1>b, <1>d, <2>1, <2>3
<1>6. \A m \in 0..N : f[m] \in S
  BY <1>1, <1>4, <1>5, RunsStay
<1>7. Stays(N)
  <2>1. N \in 0..N
    BY <1>1
  <2> HIDE DEF Stays
  <2> QED
    BY <1>6, <1>b, <1>c, <2>1
<1>8. N \in 0..N
  BY <1>1
<1> QED
  BY <1>1, <1>2, <1>7, <1>8, <1>a

\* Where an album is among the albums' pieces.
LEMMA AlbumIsAt ==
    ASSUME NEW albums \in Seq(Albums), NEW n \in 1..Len(albums)
    PROVE  LET w == WrittenBy(albums)
               all == AlbumPieces(albums)
               m == Len(w[n - 1])
               T == Len(albums[n].tracks) IN
           /\ m \in Nat /\ T \in Nat /\ Len(w[n]) = m + 1 + T /\ m + 1 + T <= Len(all)
           /\ all[m + 1] = AlbumPiece(albums[n])
           /\ \A t \in 1..T : all[m + 1 + t] = albums[n].tracks[t]
<1> DEFINE w == WrittenBy(albums)
           all == AlbumPieces(albums)
<1>1. PICK N \in Nat : N = Len(albums)
  OBVIOUS
<1>2. n \in 0..N
  BY <1>1
<1>3. PICK m \in Nat, T \in Nat : m = Len(w[n - 1]) /\ T = Len(albums[n].tracks)
  BY <1>1, WrittenNext
<1>4. /\ Len(w[n]) = m + 1 + T
      /\ w[n][m + 1] = AlbumPiece(albums[n])
      /\ \A t \in 1..T : w[n][m + 1 + t] = albums[n].tracks[t]
  <2>1. /\ Len(w[n]) = Len(w[n - 1]) + 1 + Len(albums[n].tracks)
        /\ w[n][Len(w[n - 1]) + 1] = AlbumPiece(albums[n])
        /\ \A t \in 1..Len(albums[n].tracks) : w[n][Len(w[n - 1]) + 1 + t] = albums[n].tracks[t]
    BY <1>1, WrittenNext
  <2> QED
    BY <1>3, <2>1, Zenon
<1>5. Len(w[n]) <= Len(all) /\ \A j \in 1..Len(w[n]) : all[j] = w[n][j]
  BY <1>1, <1>2, WrittenStays
<1>6. m + 1 \in 1..(m + 1 + T) /\ \A t \in 1..T : m + 1 + t \in 1..(m + 1 + T)
  OBVIOUS
<1> QED
  BY <1>1, <1>3, <1>4, <1>5, <1>6

\* One sequence behind another.
Behind(s, t) == s \o t

\* One sequence behind another.
LEMMA BehindIs ==
    ASSUME NEW s \in Seq(ListPieces), NEW t \in Seq(ListPieces)
    PROVE  LET u == Behind(s, t) IN
           /\ u \in Seq(ListPieces) /\ Len(s) \in Nat /\ Len(t) \in Nat /\ Len(u) = Len(s) + Len(t)
           /\ \A j \in 1..Len(s) : u[j] = s[j]
           /\ \A j \in 1..Len(t) : u[Len(s) + j] = t[j]
<1>1. /\ s \o t \in Seq(ListPieces) /\ Len(s \o t) = Len(s) + Len(t)
      /\ \A j \in 1..(Len(s) + Len(t)) : (s \o t)[j] = IF j <= Len(s) THEN s[j] ELSE t[j - Len(s)]
  BY ConcatProperties
<1>2. PICK m \in Nat, n \in Nat, u \in Seq(ListPieces) : m = Len(s) /\ n = Len(t) /\ u = Behind(s, t) /\ u = s \o t
  <2>1. Behind(s, t) = s \o t
    BY DEF Behind
  <2>2. Behind(s, t) \in Seq(ListPieces)
    BY <1>1, <2>1, Zenon
  <2>3. Len(s) \in Nat /\ Len(t) \in Nat
    OBVIOUS
  <2> QED
    BY <2>1, <2>2, <2>3, Zenon
<1>3. Len(u) = m + n /\ \A j \in 1..(m + n) : u[j] = IF j <= m THEN s[j] ELSE t[j - m]
  BY <1>1, <1>2, Zenon
<1>4. ASSUME NEW j \in 1..n
      PROVE  u[m + j] = t[j]
  <2>1. m + j \in 1..(m + n) /\ ~ m + j <= m /\ (m + j) - m = j
    OBVIOUS
  <2> QED
    BY <1>3, <2>1
<1>5. \A j \in 1..m : u[j] = s[j]
  <2>1. \A j \in 1..m : j \in 1..(m + n) /\ j <= m
    OBVIOUS
  <2> QED
    BY <1>3, <2>1
<1> QED
  BY <1>2, <1>3, <1>4, <1>5

\* The pieces of the radios.
Radios(n) == [i \in 1..n |-> [piece |-> "radio"]]

\* What the pieces of lists are.
LEMMA PiecesAre ==
    ASSUME NEW l \in Lists
    PROVE  LET P == Pieces(l)
               W == AlbumPieces(l.albums)
               I == Len(l.items) IN
           /\ P \in Seq(ListPieces) /\ I \in Nat /\ Len(W) \in Nat /\ l.radios \in Nat /\ Len(P) \in Nat
           /\ Len(P) = 3 + I + Len(W) + l.radios
           /\ P[1].n = I /\ P[2].n = Len(l.albums) /\ P[3].n = l.radio_count
           /\ \A i \in 1..I : P[3 + i] = l.items[i]
           /\ \A j \in 1..Len(W) : P[3 + I + j] = W[j]
           /\ \A r \in 1..l.radios : P[3 + I + Len(W) + r] = [piece |-> "radio"]
<1>1. /\ l.items \in Seq(Items) /\ l.albums \in Seq(Albums)
      /\ l.radios \in Nat /\ l.radio_count \in Nat
  BY DEF Lists
<1>2. PICK s \in Seq(ListPieces) : s = l.items
  <2>1. \A i \in 1..Len(l.items) : l.items[i] \in ListPieces
    <3>1. \A i \in 1..Len(l.items) : l.items[i] \in Items
      BY <1>1, ElementOfSeq
    <3> QED
      BY <3>1 DEF ListPieces
  <2>2. l.items \in [1..Len(l.items) -> ListPieces] /\ Len(l.items) \in Nat
    BY <1>1, <2>1
  <2> QED
    BY <2>2
<1>3. PICK W \in Seq(ListPieces) : W = AlbumPieces(l.albums)
  <2>1. Len(l.albums) \in 0..Len(l.albums)
    BY <1>1
  <2> QED
    BY <1>1, <2>1, AlbumsAreWritten
<1>4. PICK r \in Seq(ListPieces) : r = Radios(l.radios) /\ Len(r) = l.radios
                                   /\ \A i \in 1..l.radios : r[i] = [piece |-> "radio"]
  <2>1. [piece |-> "radio"] \in ListPieces
    BY DEF ListPieces
  <2>2. PICK n \in Nat, x \in ListPieces : n = l.radios /\ x = [piece |-> "radio"]
    BY <1>1, <2>1
  <2>3. PICK f : f = [i \in 1..n |-> x]
    OBVIOUS
  <2>4. f \in [1..n -> ListPieces] /\ \A i \in 1..n : f[i] = x
    BY <2>3
  <2>5. f \in Seq(ListPieces) /\ Len(f) = n
    BY <2>4
  <2>6. f = Radios(l.radios)
    BY <2>2, <2>3, Zenon DEF Radios
  <2> QED
    BY <2>2, <2>4, <2>5, <2>6, Zenon
<1>5. PICK h \in Seq(ListPieces) : h = <<Number(Len(l.items)), Number(Len(l.albums)), Number(l.radio_count)>>
                                   /\ Len(h) = 3 /\ h[1].n = Len(l.items) /\ h[2].n = Len(l.albums)
                                   /\ h[3].n = l.radio_count
  <2>1. \A n \in Nat : Number(n) \in ListPieces /\ Number(n).n = n
    BY DEF ListPieces, Number
  <2>2. PICK a \in ListPieces, b \in ListPieces, c \in ListPieces :
           a = Number(Len(l.items)) /\ b = Number(Len(l.albums)) /\ c = Number(l.radio_count)
    <3>1. Len(l.items) \in Nat /\ Len(l.albums) \in Nat
      BY <1>1
    <3> QED
      BY <1>1, <2>1, <3>1
  <2>3. <<a, b, c>> \in Seq(ListPieces) /\ Len(<<a, b, c>>) = 3
        /\ <<a, b, c>>[1] = a /\ <<a, b, c>>[2] = b /\ <<a, b, c>>[3] = c
    OBVIOUS
  <2>4. PICK t : t = <<a, b, c>>
    OBVIOUS
  <2>5. a.n = Len(l.items) /\ b.n = Len(l.albums) /\ c.n = l.radio_count
    <3>1. Len(l.items) \in Nat /\ Len(l.albums) \in Nat
      BY <1>1
    <3> QED
      BY <1>1, <2>1, <2>2, <3>1
  <2>6. t \in Seq(ListPieces) /\ Len(t) = 3 /\ t[1] = a /\ t[2] = b /\ t[3] = c
    BY <2>3, <2>4, Zenon
  <2>7. t = <<Number(Len(l.items)), Number(Len(l.albums)), Number(l.radio_count)>>
    BY <2>2, <2>4, Zenon
  <2> QED
    BY <2>5, <2>6, <2>7, Zenon
<1>6. PICK I \in Nat, w \in Nat, R \in Nat : I = Len(s) /\ w = Len(W) /\ R = l.radios
  BY <1>1
<1>7. PICK u \in Seq(ListPieces), v \in Seq(ListPieces), P \in Seq(ListPieces) :
         u = Behind(h, s) /\ v = Behind(u, W) /\ P = Behind(v, r)
  BY BehindIs
<1>8. P = Pieces(l)
  BY <1>2, <1>3, <1>4, <1>5, <1>7, Zenon DEF Pieces, Behind, Radios
<1>9. Len(u) = 3 + I /\ (\A j \in 1..3 : u[j] = h[j]) /\ \A j \in 1..I : u[3 + j] = s[j]
  <2>0. /\ Len(Behind(h, s)) = Len(h) + Len(s)
        /\ \A j \in 1..Len(h) : Behind(h, s)[j] = h[j]
        /\ \A j \in 1..Len(s) : Behind(h, s)[Len(h) + j] = s[j]
    BY BehindIs, Zenon
  <2>1. /\ Len(u) = Len(h) + Len(s)
        /\ \A j \in 1..Len(h) : u[j] = h[j]
        /\ \A j \in 1..Len(s) : u[Len(h) + j] = s[j]
    BY <1>7, <2>0, Zenon
  <2> QED
    BY <1>5, <1>6, <2>1, Zenon
<1>10. Len(v) = 3 + I + w /\ (\A j \in 1..(3 + I) : v[j] = u[j]) /\ \A j \in 1..w : v[3 + I + j] = W[j]
  <2>0. /\ Len(Behind(u, W)) = Len(u) + Len(W)
        /\ \A j \in 1..Len(u) : Behind(u, W)[j] = u[j]
        /\ \A j \in 1..Len(W) : Behind(u, W)[Len(u) + j] = W[j]
    BY BehindIs, Zenon
  <2>1. /\ Len(v) = Len(u) + Len(W)
        /\ \A j \in 1..Len(u) : v[j] = u[j]
        /\ \A j \in 1..Len(W) : v[Len(u) + j] = W[j]
    BY <1>7, <2>0, Zenon
  <2> QED
    BY <1>6, <1>9, <2>1, Zenon
<1>11. /\ Len(P) = 3 + I + w + R
       /\ \A j \in 1..(3 + I + w) : P[j] = v[j]
       /\ \A j \in 1..R : P[3 + I + w + j] = r[j]
  <2>0. /\ Len(Behind(v, r)) = Len(v) + Len(r)
        /\ \A j \in 1..Len(v) : Behind(v, r)[j] = v[j]
        /\ \A j \in 1..Len(r) : Behind(v, r)[Len(v) + j] = r[j]
    BY BehindIs, Zenon
  <2>1. /\ Len(P) = Len(v) + Len(r)
        /\ \A j \in 1..Len(v) : P[j] = v[j]
        /\ \A j \in 1..Len(r) : P[Len(v) + j] = r[j]
    BY <1>7, <2>0, Zenon
  <2> QED
    BY <1>4, <1>6, <1>10, <2>1, Zenon
<1>12. \A j \in 1..3 : P[j] = h[j]
  <2>1. \A j \in 1..3 : j \in 1..(3 + I) /\ j \in 1..(3 + I + w)
    OBVIOUS
  <2> QED
    BY <1>9, <1>10, <1>11, <2>1
<1>13. P[1].n = h[1].n /\ P[2].n = h[2].n /\ P[3].n = h[3].n
  <2>1. 1 \in 1..3 /\ 2 \in 1..3 /\ 3 \in 1..3
    OBVIOUS
  <2> QED
    BY <1>12, <2>1, Zenon
<1>14. \A i \in 1..I : P[3 + i] = s[i]
  <2>1. \A i \in 1..I : 3 + i \in 1..(3 + I) /\ 3 + i \in 1..(3 + I + w)
    OBVIOUS
  <2> QED
    BY <1>9, <1>10, <1>11, <2>1
<1>15. \A j \in 1..w : P[3 + I + j] = W[j]
  <2>1. \A j \in 1..w : 3 + I + j \in 1..(3 + I + w)
    OBVIOUS
  <2> QED
    BY <1>10, <1>11, <2>1
<1>16. \A j \in 1..R : P[3 + I + w + j] = [piece |-> "radio"]
  BY <1>4, <1>6, <1>11, Zenon
<1>17. 3 + I + w + R \in Nat
  OBVIOUS
<1> QED
  BY <1>2, <1>3, <1>5, <1>6, <1>8, <1>11, <1>13, <1>14, <1>15, <1>16, <1>17, Zenon

\* The T pieces behind m.
AreThere(S, f, m, T) == \A t \in 1..T : f[m + t] \in S
IsPart(s, f, m, T) ==
    s = SubSeq(f, m + 1, m + T) /\ Len(s) = T /\ \A t \in 1..T : s[t] = f[m + t]

\* A part of a file.
LEMMA PartIs ==
    ASSUME NEW S, NEW f, NEW m \in Nat, NEW T \in Nat, AreThere(S, f, m, T)
    PROVE  \E s \in Seq(S) : IsPart(s, f, m, T)
<1>0. \A t \in 1..T : f[m + t] \in S
  BY DEF AreThere
<1>1. \A i \in (m + 1)..(m + T) : f[i] \in S
  <2>1. ASSUME NEW i \in (m + 1)..(m + T)
        PROVE  f[i] \in S
    <3>1. PICK t \in 1..T : t = i - m /\ i = m + t
      OBVIOUS
    <3> QED
      BY <1>0, <3>1
  <2> QED
    BY <2>1
<1>2. m + 1 \in Int /\ m + T \in Int
  OBVIOUS
<1>3. /\ SubSeq(f, m + 1, m + T) \in Seq(S)
      /\ Len(SubSeq(f, m + 1, m + T)) = IF m + 1 <= m + T THEN (m + T) - (m + 1) + 1 ELSE 0
      /\ \A t \in 1..((m + T) - (m + 1) + 1) : SubSeq(f, m + 1, m + T)[t] = f[(m + 1) + t - 1]
  BY <1>1, <1>2, SubSeqProperties
<1>4. PICK s \in Seq(S) : s = SubSeq(f, m + 1, m + T)
  BY <1>3
<1>5. Len(s) = IF m + 1 <= m + T THEN (m + T) - (m + 1) + 1 ELSE 0
  BY <1>3, <1>4, Zenon
<1>6. \A t \in 1..((m + T) - (m + 1) + 1) : s[t] = f[(m + 1) + t - 1]
  BY <1>3, <1>4, Zenon
<1>7. Len(s) = T
  BY <1>5
<1>8. \A t \in 1..T : s[t] = f[m + t]
  <2>1. \A t \in 1..T : t \in 1..((m + T) - (m + 1) + 1) /\ (m + 1) + t - 1 = m + t
    OBVIOUS
  <2> QED
    BY <1>6, <2>1
<1> QED
  BY <1>4, <1>7, <1>8, Zenon DEF IsPart

\* What is read of the albums, and where.
PartReads == [ok : BOOLEAN, at : Nat \ {0}, albums : Seq(Albums)]

\* A file with an album next.
AlbumIsNext(f, r) == /\ r.ok /\ AreAll(f, r.at, r.at, "album")
                     /\ AreAll(f, r.at + 1, TracksEnd(f, r.at), "track")

\* What an album in a file is.
LEMMA AlbumRead ==
    ASSUME NEW f \in Seq(FilePieces), NEW r \in PartReads, AlbumIsNext(f, r)
    PROVE  \E album \in Albums :
             LET T == Len(album.tracks) IN
             /\ r.at <= Len(f) /\ r.at + T <= Len(f) /\ f[r.at] \in Heads /\ T = f[r.at].count
             /\ album.name = f[r.at].name /\ album.max_track_count = f[r.at].max
             /\ \A t \in 1..T : album.tracks[t] = f[r.at + t]
             /\ ReadAlbum(f, r) = [ok |-> TRUE, at |-> r.at + T + 1, albums |-> Append(r.albums, album)]
<1>1. PICK m \in Nat \ {0}, N \in Nat : m = r.at /\ N = Len(f)
  BY DEF PartReads
<1>2. m <= N /\ f[m].piece = "album"
  BY <1>1 DEF AlbumIsNext, AreAll
<1>3. f[m] \in Heads
  <2>1. f[m] \in FilePieces
    BY <1>1, <1>2, ElementOfSeq
  <2> QED
    BY <1>2, <2>1, PieceKinds
<1>4. PICK T \in Nat : T = f[m].count
  BY <1>3 DEF Heads
<1>5. TracksEnd(f, m) = m + T
  BY <1>4 DEF TracksEnd
<1>6. \A i \in (m + 1)..(m + T) : i <= N /\ f[i].piece = "track"
  BY <1>1, <1>5 DEF AlbumIsNext, AreAll
<1>7. m + T <= N
  <2>1. CASE T = 0
    BY <1>2, <2>1
  <2>2. CASE T # 0
    <3>1. m + T \in (m + 1)..(m + T)
      BY <2>2
    <3> QED
      BY <1>6, <3>1
  <2> QED
    BY <2>1, <2>2
<1>8. \A t \in 1..T : f[m + t] \in Tracks
  <2>1. ASSUME NEW t \in 1..T
        PROVE  f[m + t] \in Tracks
    <3>1. m + t \in (m + 1)..(m + T) /\ m + t \in 1..N
      BY <1>7
    <3>2. f[m + t] \in FilePieces /\ f[m + t].piece = "track"
      BY <1>1, <1>6, <3>1, ElementOfSeq
    <3> QED
      BY <3>2, PieceKinds
  <2> QED
    BY <2>1
<1>9. PICK s \in Seq(Tracks) : /\ s = SubSeq(f, m + 1, m + T) /\ Len(s) = T
                               /\ \A t \in 1..T : s[t] = f[m + t]
  <2>1. m \in Nat
    OBVIOUS
  <2>2. AreThere(Tracks, f, m, T)
    BY <1>8 DEF AreThere
  <2>3. \E s \in Seq(Tracks) : IsPart(s, f, m, T)
    BY <2>1, <2>2, PartIs
  <2> QED
    BY <2>3, Zenon DEF IsPart
<1>10. PICK album : album = [name |-> f[m].name, max_track_count |-> f[m].max, tracks |-> s]
  OBVIOUS
<1>11. /\ album \in Albums /\ album.name = f[m].name /\ album.max_track_count = f[m].max
       /\ album.tracks = s
  BY <1>3, <1>10 DEF Albums, Heads
<1>12. ReadAlbum(f, r) = [r EXCEPT !.at = m + T + 1, !.albums = Append(r.albums, album)]
  <2>1. album = [name |-> f[r.at].name, max_track_count |-> f[r.at].max,
                 tracks |-> SubSeq(f, r.at + 1, TracksEnd(f, r.at))]
    BY <1>1, <1>5, <1>9, <1>10, Zenon
  <2>2. TracksEnd(f, r.at) + 1 = m + T + 1
    BY <1>1, <1>5
  <2> QED
    BY <2>1, <2>2, Zenon DEF ReadAlbum, AlbumIsNext
<1>13. [r EXCEPT !.at = m + T + 1, !.albums = Append(r.albums, album)]
         = [ok |-> TRUE, at |-> m + T + 1, albums |-> Append(r.albums, album)]
  <2>1. r = [ok |-> r.ok, at |-> r.at, albums |-> r.albums] /\ r.ok = TRUE
    BY DEF AlbumIsNext, PartReads
  <2>2. PICK k, u : k = m + T + 1 /\ u = Append(r.albums, album)
    OBVIOUS
  <2>3. PICK x : x = [r EXCEPT !.at = k, !.albums = u]
    OBVIOUS
  <2>4. x = [ok |-> r.ok, at |-> k, albums |-> u]
    BY <2>1, <2>3
  <2> QED
    BY <2>1, <2>2, <2>3, <2>4, Zenon
<1>14. ReadAlbum(f, r) = [ok |-> TRUE, at |-> m + T + 1, albums |-> Append(r.albums, album)]
  BY <1>12, <1>13, Zenon
<1> QED
  BY <1>1, <1>2, <1>3, <1>4, <1>7, <1>9, <1>11, <1>14, Zenon

\* An album is read, or it is told that it is not.
LEMMA ReadsStay ==
    ASSUME NEW f \in Seq(FilePieces), NEW r \in PartReads
    PROVE  /\ ReadAlbum(f, r) \in PartReads
           /\ ~ AlbumIsNext(f, r) => ReadAlbum(f, r).ok = FALSE
<1>1. CASE AlbumIsNext(f, r)
  <2>1. PICK album \in Albums : LET T == Len(album.tracks) IN
           ReadAlbum(f, r) = [ok |-> TRUE, at |-> r.at + T + 1, albums |-> Append(r.albums, album)]
    BY <1>1, AlbumRead
  <2>2. Len(album.tracks) \in Nat /\ r.at \in Nat \ {0} /\ r.albums \in Seq(Albums)
    BY DEF Albums, PartReads
  <2>3. r.at + Len(album.tracks) + 1 \in Nat \ {0}
    BY <2>2
  <2>4. Append(r.albums, album) \in Seq(Albums)
    BY <2>2, AppendProperties
  <2>5. PICK a \in Nat \ {0}, u \in Seq(Albums) :
           a = r.at + Len(album.tracks) + 1 /\ u = Append(r.albums, album)
    BY <2>3, <2>4
  <2>6. ReadAlbum(f, r) = [ok |-> TRUE, at |-> a, albums |-> u]
    BY <2>1, <2>5, Zenon
  <2>7. ReadAlbum(f, r) \in PartReads
    BY <2>6 DEF PartReads
  <2> QED
    BY <1>1, <2>7
<1>2. CASE ~ AlbumIsNext(f, r)
  <2>1. ReadAlbum(f, r) = [r EXCEPT !.ok = FALSE]
    BY <1>2, Zenon DEF ReadAlbum, AlbumIsNext
  <2> QED
    BY <1>2, <2>1 DEF PartReads
<1> QED
  BY <1>1, <1>2

\* read tells what is read after each album.
FirstRead(f, items) == [ok |-> AreAll(f, 4, 3 + items, "item"), at |-> 4 + items, albums |-> <<>>]
IsReadBy(read, f, items, count) ==
    read = [n \in 0..count |-> IF n = 0 THEN FirstRead(f, items) ELSE ReadAlbum(f, read[n - 1])]

\* The reading of that many albums.
ReadBy(f, items, count) == CHOOSE read : IsReadBy(read, f, items, count)

\* The albums are read one after the other.
LEMMA AlbumsAreRead ==
    ASSUME NEW f \in Seq(FilePieces), NEW items \in Nat, NEW count \in Nat
    PROVE  LET read == ReadBy(f, items, count) IN
           /\ ReadAlbums(f, items, count) = read[count]
           /\ read[0] = FirstRead(f, items)
           /\ \A n \in 0..count : read[n] \in PartReads
           /\ \A n \in 1..count : read[n] = ReadAlbum(f, read[n - 1])
<1> DEFINE read == ReadBy(f, items, count)
<1>1. ReadAlbums(f, items, count) = read[count]
  BY DEF ReadAlbums, ReadBy, IsReadBy, FirstRead
<1> DEFINE g == [p \in PartReads \X (1..count) |-> ReadAlbum(f, p[1])]
<1>2. \A r \in PartReads : ReadAlbum(f, r) \in PartReads
  BY ReadsStay
<1>3. g \in [PartReads \X (1..count) -> PartReads] /\ \A r \in PartReads, n \in 1..count : g[<<r, n>>] = ReadAlbum(f, r)
  BY <1>2
<1> HIDE DEF g
<1>4. PICK b \in PartReads : b = FirstRead(f, items)
  <2>1. PICK s \in Seq(Albums) : s = <<>>
    <3>1. <<>> \in Seq(Albums)
      OBVIOUS
    <3> QED
      BY <3>1
  <2>2. PICK o \in BOOLEAN : o = AreAll(f, 4, 3 + items, "item")
    BY DEF AreAll
  <2>3. [ok |-> o, at |-> 4 + items, albums |-> s] \in PartReads
    BY DEF PartReads
  <2>4. FirstRead(f, items) = [ok |-> o, at |-> 4 + items, albums |-> s]
    BY <2>1, <2>2, Zenon DEF FirstRead
  <2> QED
    BY <2>3, <2>4
<1>5. PICK h \in [0..count -> PartReads] : Runs(h, b, g, count)
  BY <1>3, RunsExist
<1>6. IsReadBy(h, f, items, count)
  <2>1. ASSUME NEW n \in 0..count
        PROVE  h[n] = IF n = 0 THEN FirstRead(f, items) ELSE ReadAlbum(f, h[n - 1])
    <3>1. CASE n = 0
      BY <1>4, <1>5, <3>1 DEF Runs
    <3>2. CASE n # 0
      <4>1. n \in 1..count /\ n - 1 \in 0..count
        BY <3>2
      <4>2. h[n] = g[<<h[n - 1], n>>] /\ h[n - 1] \in PartReads
        BY <1>5, <4>1 DEF Runs
      <4> QED
        BY <1>3, <3>2, <4>1, <4>2
    <3> QED
      BY <3>1, <3>2
  <2>2. h = [n \in 0..count |-> h[n]]
    OBVIOUS
  <2>3. [n \in 0..count |-> h[n]]
          = [n \in 0..count |-> IF n = 0 THEN FirstRead(f, items) ELSE ReadAlbum(f, h[n - 1])]
    BY <2>1, Zenon
  <2> QED
    BY <2>2, <2>3, Zenon DEF IsReadBy
<1>7. IsReadBy(read, f, items, count)
  BY <1>6 DEF ReadBy
<1> HIDE DEF read
<1>8. \A n \in 0..count : read[n] = IF n = 0 THEN FirstRead(f, items) ELSE ReadAlbum(f, read[n - 1])
  BY <1>7, Zenon DEF IsReadBy
<1>9. read[0] = b
  <2>1. 0 \in 0..count
    OBVIOUS
  <2> QED
    BY <1>4, <1>8, <2>1
<1>10. \A n \in 1..count : read[n] = ReadAlbum(f, read[n - 1])
  <2>1. \A n \in 1..count : n \in 0..count /\ n # 0
    OBVIOUS
  <2> QED
    BY <1>8, <2>1
<1>11. \A n \in 0..count : read[n] \in PartReads
  <2>1. \A n \in 1..count : read[n - 1] \in PartReads => read[n] \in PartReads
    BY <1>2, <1>10
  <2> QED
    BY <1>9, <2>1, RunsStay
<1> QED
  BY <1>1, <1>4, <1>9, <1>10, <1>11, Zenon DEF read

\* f starts as the file of the lists does, and has n of its pieces.
IsCut(f, l, n) ==
    /\ f \in Seq(FilePieces) /\ Len(f) = n
    /\ \A j \in 1..n : j <= Len(Pieces(l)) => f[j] = Pieces(l)[j]
    /\ n > Len(Pieces(l)) => f[n].piece = "crc" /\ f[n].of = Pieces(l)

\* How far an album is read.
IsRead(r, l, k) ==
    /\ r.at = 4 + Len(l.items) + Len(WrittenBy(l.albums)[k])
    /\ Len(r.albums) = k /\ \A i \in 1..k : r.albums[i] = l.albums[i]

\* In a file of lists the next album is what was written, if it is still in the file.
LEMMA NextIsRead ==
    ASSUME NEW l \in Lists, NEW n \in 0..(Len(Pieces(l)) + 1), NEW f, IsCut(f, l, n),
           NEW k \in 1..Len(l.albums), NEW r \in PartReads, r.ok, IsRead(r, l, k - 1)
    PROVE  LET next == ReadAlbum(f, r) IN
           /\ next.ok => IsRead(next, l, k)
           /\ n > Len(Pieces(l)) => next.ok
<1>1. l.albums \in Seq(Albums) /\ l.items \in Seq(Items)
  BY DEF Lists
<1> DEFINE w == WrittenBy(l.albums)
           W == AlbumPieces(l.albums)
           P == Pieces(l)
<1>2. PICK m \in Nat, T \in Nat, I \in Nat, N \in Nat, L \in Nat, R \in Nat :
         /\ m = Len(w[k - 1]) /\ T = Len(l.albums[k].tracks) /\ I = Len(l.items) /\ N = Len(P)
         /\ L = Len(W) /\ R = l.radios /\ N = 3 + I + L + R
  <2>1. Len(w[k - 1]) \in Nat /\ Len(l.albums[k].tracks) \in Nat
    BY <1>1, AlbumIsAt
  <2>2. /\ P \in Seq(ListPieces) /\ Len(l.items) \in Nat /\ Len(W) \in Nat /\ l.radios \in Nat
        /\ Len(P) = 3 + Len(l.items) + Len(W) + l.radios /\ Len(P) \in Nat
    BY PiecesAre
  <2> QED
    BY <2>1, <2>2
<1>3. /\ Len(w[k]) = m + 1 + T /\ m + 1 + T <= L
      /\ W[m + 1] = AlbumPiece(l.albums[k])
      /\ \A t \in 1..T : W[m + 1 + t] = l.albums[k].tracks[t]
  <2>1. /\ Len(w[k]) = Len(w[k - 1]) + 1 + Len(l.albums[k].tracks)
        /\ Len(w[k - 1]) + 1 + Len(l.albums[k].tracks) <= Len(W)
        /\ W[Len(w[k - 1]) + 1] = AlbumPiece(l.albums[k])
        /\ \A t \in 1..Len(l.albums[k].tracks) :
             W[Len(w[k - 1]) + 1 + t] = l.albums[k].tracks[t]
    BY <1>1, AlbumIsAt
  <2> QED
    BY <1>2, <2>1, Zenon
<1>4. PICK a \in Nat \ {0} : a = r.at /\ a = 4 + I + m
  <2>1. r.at = 4 + I + m
    BY <1>2, Zenon DEF IsRead
  <2>2. r.at \in Nat \ {0}
    BY DEF PartReads
  <2> QED
    BY <2>1, <2>2
<1>5. P[a] = AlbumPiece(l.albums[k]) /\ \A t \in 1..T : P[a + t] = l.albums[k].tracks[t]
  <2>1. \A j \in 1..L : P[3 + I + j] = W[j]
    <3>1. \A j \in 1..Len(W) : P[3 + Len(l.items) + j] = W[j]
      BY PiecesAre
    <3> QED
      BY <1>2, <3>1, Zenon
  <2>2. m + 1 \in 1..L /\ 3 + I + (m + 1) = a
    BY <1>3, <1>4
  <2>3. ASSUME NEW t \in 1..T
        PROVE  P[a + t] = l.albums[k].tracks[t]
    <3>1. m + 1 + t \in 1..L /\ 3 + I + (m + 1 + t) = a + t
      BY <1>3, <1>4
    <3>2. P[3 + I + (m + 1 + t)] = W[m + 1 + t]
      BY <2>1, <3>1, Zenon
    <3> QED
      BY <1>3, <3>1, <3>2, Zenon
  <2>4. P[3 + I + (m + 1)] = W[m + 1]
    BY <2>1, <2>2, Zenon
  <2> QED
    BY <1>3, <2>2, <2>3, <2>4, Zenon
<1>6. a + T <= N
  <2>1. m + 1 + T <= L
    BY <1>3
  <2>2. N = 3 + I + L + R
    BY <1>2, Zenon
  <2>3. a = 4 + I + m
    BY <1>4
  <2> QED
    BY <2>1, <2>2, <2>3
<1>8. f \in Seq(FilePieces) /\ Len(f) = n /\ n \in Nat
  BY <1>2 DEF IsCut
<1>7. \A j \in 1..N : j <= n => f[j] = P[j]
  <2>1. \A j \in 1..n : j <= N => f[j] = P[j]
    BY <1>2, Zenon DEF IsCut
  <2>2. \A j \in 1..N : j <= n => j \in 1..n /\ j <= N
    BY <1>8
  <2> QED
    BY <2>1, <2>2, Zenon
<1>9. ASSUME AlbumIsNext(f, r)
      PROVE  ReadAlbum(f, r).ok /\ IsRead(ReadAlbum(f, r), l, k)
  <2>1. PICK album \in Albums :
             LET U == Len(album.tracks) IN
             /\ r.at <= Len(f) /\ r.at + U <= Len(f) /\ f[r.at] \in Heads /\ U = f[r.at].count
             /\ album.name = f[r.at].name /\ album.max_track_count = f[r.at].max
             /\ \A t \in 1..U : album.tracks[t] = f[r.at + t]
             /\ ReadAlbum(f, r) = [ok |-> TRUE, at |-> r.at + U + 1, albums |-> Append(r.albums, album)]
    BY <1>8, <1>9, AlbumRead
  <2>2. a \in 1..N /\ a <= n
    BY <1>4, <1>6, <1>8, <2>1
  <2>3. f[a] = AlbumPiece(l.albums[k])
    BY <1>5, <1>7, <2>2
  <2>a. PICK b : b = l.albums[k] /\ Len(b.tracks) = T
    BY <1>2, Zenon
  <2>b. f[a].count = T /\ f[a].name = b.name /\ f[a].max = b.max_track_count
    <3>1. f[a] = [piece |-> "album", name |-> b.name, max |-> b.max_track_count, count |-> Len(b.tracks)]
      BY <2>3, <2>a, Zenon DEF AlbumPiece
    <3> QED
      BY <2>a, <3>1
  <2>4. Len(album.tracks) = T
    BY <1>4, <2>1, <2>b, Zenon
  <2>5. album.name = l.albums[k].name /\ album.max_track_count = l.albums[k].max_track_count
    BY <1>4, <2>1, <2>a, <2>b, Zenon
  <2>6. \A t \in 1..T : album.tracks[t] = l.albums[k].tracks[t]
    <3>1. ASSUME NEW t \in 1..T
          PROVE  album.tracks[t] = l.albums[k].tracks[t]
      <4>1. a + t \in 1..N /\ a + t <= n
        BY <1>4, <1>6, <1>8, <2>1, <2>4
      <4>2. f[a + t] = P[a + t]
        BY <1>7, <4>1
      <4> QED
        BY <1>4, <1>5, <2>1, <2>4, <4>2, Zenon
    <3> QED
      BY <3>1
  <2>7. album = l.albums[k]
    <3>1. PICK c \in Albums : c = l.albums[k]
      BY <1>1, ElementOfSeq
    <3>2. album.tracks = c.tracks
      <4>1. album.tracks \in Seq(Tracks) /\ c.tracks \in Seq(Tracks)
        BY DEF Albums
      <4> QED
        BY <1>2, <2>4, <2>6, <3>1, <4>1, SeqEqual
    <3> QED
      BY <2>5, <3>1, <3>2, SMTT(40) DEF Albums
  <2>8. PICK u, x : u = Append(r.albums, album) /\ x = a + T + 1
                    /\ ReadAlbum(f, r) = [ok |-> TRUE, at |-> x, albums |-> u]
    BY <1>4, <2>1, <2>4, Zenon
  <2>9. Len(u) = k /\ \A i \in 1..k : u[i] = l.albums[i]
    <3>1. r.albums \in Seq(Albums) /\ Len(r.albums) = k - 1 /\ \A i \in 1..(k - 1) : r.albums[i] = l.albums[i]
      BY DEF PartReads, IsRead
    <3>2. Len(Append(r.albums, album)) = k /\ Append(r.albums, album)[k] = album
          /\ \A i \in 1..(k - 1) : Append(r.albums, album)[i] = r.albums[i]
      <4>1. /\ Len(Append(r.albums, album)) = Len(r.albums) + 1
            /\ \A i \in 1..Len(r.albums) : Append(r.albums, album)[i] = r.albums[i]
            /\ Append(r.albums, album)[Len(r.albums) + 1] = album
        BY <3>1, AppendProperties
      <4>2. Len(r.albums) + 1 = k
        BY <1>1, <3>1
      <4> QED
        BY <3>1, <4>1, <4>2, Zenon
    <3>3. Len(u) = k /\ u[k] = album /\ \A i \in 1..(k - 1) : u[i] = r.albums[i]
      BY <2>8, <3>2, Zenon
    <3>4. \A i \in 1..k : i = k \/ i \in 1..(k - 1)
      BY <1>1
    <3> QED
      BY <2>7, <3>1, <3>3, <3>4, Zenon
  <2>10. x = 4 + I + Len(w[k])
    BY <1>3, <1>4, <2>8, SMTT(30)
  <2>11. PICK y : y = ReadAlbum(f, r) /\ y.ok /\ y.at = x /\ y.albums = u
    BY <2>8
  <2> QED
    BY <1>2, <2>9, <2>10, <2>11, Zenon DEF IsRead
<1>10. ASSUME ~ AlbumIsNext(f, r)
       PROVE  ReadAlbum(f, r).ok = FALSE /\ ~ n > N
  <2>1. ReadAlbum(f, r).ok = FALSE
    BY <1>8, <1>10, ReadsStay
  <2>2. ASSUME n > N
        PROVE  FALSE
    <3>1. PICK album \in Albums : album = l.albums[k] /\ Len(album.tracks) = T
      <4>1. l.albums[k] \in Albums
        BY <1>1, ElementOfSeq
      <4> QED
        BY <1>2, <4>1
    <3>2. f[a] = AlbumPiece(album)
      <4>1. a \in 1..N /\ a <= n
        BY <1>6, <1>8, <2>2
      <4> QED
        BY <1>5, <1>7, <3>1, <4>1
    <3>3. f[a].piece = "album" /\ f[a].count = T
      BY <3>1, <3>2 DEF AlbumPiece
    <3>4. \A i \in (a + 1)..(a + T) : i <= n /\ f[i].piece = "track"
      <4>1. ASSUME NEW i \in (a + 1)..(a + T)
            PROVE  i <= n /\ f[i].piece = "track"
        <5>1. PICK t \in 1..T : t = i - a /\ i = a + t
          OBVIOUS
        <5>2. i \in 1..N /\ i <= n
          BY <1>6, <1>8, <2>2, <5>1
        <5>3. f[i] = album.tracks[t]
          BY <1>5, <1>7, <3>1, <5>1, <5>2, Zenon
        <5>4. album.tracks[t] \in Tracks
          <6>1. album.tracks \in Seq(Tracks)
            BY DEF Albums
          <6> QED
            BY <3>1, <6>1, ElementOfSeq
        <5> QED
          BY <5>2, <5>3, <5>4 DEF Tracks
      <4> QED
        BY <4>1
    <3>5. AreAll(f, r.at, r.at, "album")
      <4>1. \A i \in a..a : i = a
        OBVIOUS
      <4>2. a <= n
        BY <1>6, <1>8, <2>2
      <4> QED
        BY <1>4, <1>8, <3>3, <4>1, <4>2 DEF AreAll
    <3>6. AreAll(f, r.at + 1, TracksEnd(f, r.at), "track")
      BY <1>4, <1>8, <3>3, <3>4, Zenon DEF AreAll, TracksEnd
    <3> QED
      BY <1>10, <3>5, <3>6 DEF AlbumIsNext
  <2> QED
    BY <2>1, <2>2
<1> QED
  BY <1>2, <1>9, <1>10, Zenon

\* The albums of a file of lists are those that were written.
LEMMA CutReads ==
    ASSUME NEW l \in Lists, NEW n \in 3..(Len(Pieces(l)) + 1), NEW f, IsCut(f, l, n)
    PROVE  LET read == ReadAlbums(f, Len(l.items), Len(l.albums)) IN
           /\ read \in PartReads
           /\ read.ok => IsRead(read, l, Len(l.albums))
           /\ n > Len(Pieces(l)) => read.ok
<1>1. PICK I \in Nat, A \in Nat, N \in Nat : I = Len(l.items) /\ A = Len(l.albums) /\ N = Len(Pieces(l))
  <2>1. Len(l.items) \in Nat /\ Len(l.albums) \in Nat /\ Len(Pieces(l)) \in Nat
    BY PiecesAre DEF Lists
  <2> QED
    BY <2>1
<1>2. f \in Seq(FilePieces) /\ l.albums \in Seq(Albums) /\ n \in 0..(N + 1) /\ n \in Nat
      /\ n \in 0..(Len(Pieces(l)) + 1)
  BY <1>1 DEF IsCut, Lists
<1> DEFINE read == ReadBy(f, I, A)
           Good(k) == /\ read[k].ok => IsRead(read[k], l, k)
                      /\ n > N => read[k].ok
           S == {k \in 0..A : Good(k)}
           g == [k \in 0..A |-> k]
<1>3. /\ ReadAlbums(f, I, A) = read[A]
      /\ read[0] = FirstRead(f, I)
      /\ \A k \in 0..A : read[k] \in PartReads
      /\ \A k \in 1..A : read[k] = ReadAlbum(f, read[k - 1])
  BY <1>2, AlbumsAreRead
<1>4. /\ \A k \in 0..A : g[k] = k
      /\ \A k \in S : k \in 0..A /\ Good(k)
      /\ \A k \in 0..A : Good(k) => k \in S
  OBVIOUS
<1> HIDE DEF S, g, read
<1>5. Good(0)
  <2>1. read[0].ok = AreAll(f, 4, 3 + I, "item") /\ read[0].at = 4 + I /\ read[0].albums = <<>>
    BY <1>3 DEF FirstRead
  <2>2. IsRead(read[0], l, 0)
    <3>1. PICK v : v = WrittenBy(l.albums)[0] /\ v = <<>>
      BY <1>2, AlbumsAreWritten
    <3>2. Len(v) = 0
      BY <3>1
    <3>3. Len(read[0].albums) = 0
      BY <2>1
    <3>4. 4 + I = 4 + Len(l.items) + Len(WrittenBy(l.albums)[0])
      BY <1>1, <3>1, <3>2
    <3>5. \A i \in 1..0 : read[0].albums[i] = l.albums[i]
      OBVIOUS
    <3> QED
      BY <2>1, <3>3, <3>4, <3>5, Zenon DEF IsRead
  <2>3. ASSUME n > N
        PROVE  AreAll(f, 4, 3 + I, "item")
    <3>1. ASSUME NEW i \in 4..(3 + I)
          PROVE  i <= Len(f) /\ f[i].piece = "item"
      <4>1. PICK k \in 1..I : k = i - 3 /\ i = 3 + k
        OBVIOUS
      <4>2. Pieces(l)[3 + k] = l.items[k]
        BY <1>1, PiecesAre
      <4>3. l.items[k] \in Items
        <5>1. l.items \in Seq(Items)
          BY DEF Lists
        <5> QED
          BY <1>1, <5>1, ElementOfSeq
      <4>4. N >= 3 + I
        <5>1. PICK L \in Nat, R \in Nat : N = 3 + I + L + R
          <6>1. /\ Len(Pieces(l)) = 3 + Len(l.items) + Len(AlbumPieces(l.albums)) + l.radios
                /\ Len(AlbumPieces(l.albums)) \in Nat /\ l.radios \in Nat
            BY PiecesAre
          <6> QED
            BY <1>1, <6>1
        <5> QED
          BY <5>1
      <4>5. i \in 1..n /\ i <= N
        BY <1>2, <2>3, <4>1, <4>4
      <4>6. f[i] = Pieces(l)[i] /\ Len(f) = n
        BY <1>1, <4>5, Zenon DEF IsCut
      <4>7. f[i] \in Items
        BY <4>1, <4>2, <4>3, <4>6, Zenon
      <4> QED
        BY <4>5, <4>6, <4>7 DEF Items
    <3> QED
      BY <3>1, Zenon DEF AreAll
  <2> QED
    BY <2>1, <2>2, <2>3
<1>6. ASSUME NEW k \in 1..A, Good(k - 1)
      PROVE  Good(k)
  <2>1. k - 1 \in 0..A /\ k \in 1..Len(l.albums)
    BY <1>1
  <2>2. PICK r \in PartReads : r = read[k - 1] /\ read[k] = ReadAlbum(f, r)
    BY <1>3, <2>1
  <2>3. CASE r.ok
    <3>1. IsRead(r, l, k - 1)
      BY <1>6, <2>2, <2>3
    <3>2. /\ ReadAlbum(f, r).ok => IsRead(ReadAlbum(f, r), l, k)
          /\ n > Len(Pieces(l)) => ReadAlbum(f, r).ok
      BY <1>2, <2>1, <2>3, <3>1, NextIsRead
    <3> QED
      BY <1>1, <2>2, <3>2, Zenon
  <2>4. CASE ~ r.ok
    <3>1. ReadAlbum(f, r).ok = FALSE
      <4>1. ~ AlbumIsNext(f, r)
        BY <2>4 DEF AlbumIsNext
      <4> QED
        BY <1>2, <4>1, ReadsStay
    <3>2. ~ n > N
      BY <1>6, <2>2, <2>4
    <3> QED
      BY <2>2, <3>1, <3>2, Zenon
  <2> QED
    BY <2>3, <2>4
<1>7. \A k \in 0..A : g[k] \in S
  <2>1. g[0] \in S
    <3>1. 0 \in 0..A
      OBVIOUS
    <3> QED
      BY <1>4, <1>5, <3>1, Zenon
  <2>2. ASSUME NEW k \in 1..A, g[k - 1] \in S
        PROVE  g[k] \in S
    <3>1. k \in 0..A /\ k - 1 \in 0..A
      OBVIOUS
    <3> QED
      BY <1>4, <1>6, <2>2, <3>1, Zenon
  <2> QED
    BY <2>1, <2>2, RunsStay
<1>8. A \in 0..A
  OBVIOUS
<1>9. Good(A)
  BY <1>4, <1>7, <1>8, Zenon
<1> QED
  BY <1>1, <1>3, <1>8, <1>9, Zenon

\* What is loaded of a file of lists: the lists, if it is whole and no radios were counted
\* before, or nothing.
LEMMA CutsLoad ==
    ASSUME NEW l \in Lists, NEW n \in 0..(Len(Pieces(l)) + 1), NEW f, IsCut(f, l, n)
    PROVE  LET loaded == LoadFilelist(f)
               whole == n = Len(Pieces(l)) + 1 /\ l.radio_count = l.radios IN
           loaded = [ok |-> whole, lists |-> IF whole THEN l ELSE NoLists]
<1> DEFINE P == Pieces(l)
<1>1. PICK I \in Nat, L \in Nat, R \in Nat, N \in Nat :
         /\ I = Len(l.items) /\ L = Len(AlbumPieces(l.albums)) /\ R = l.radios /\ N = Len(P)
         /\ N = 3 + I + L + R
  <2>1. /\ Len(l.items) \in Nat /\ Len(AlbumPieces(l.albums)) \in Nat /\ l.radios \in Nat
        /\ Len(P) = 3 + Len(l.items) + Len(AlbumPieces(l.albums)) + l.radios /\ Len(P) \in Nat
    BY PiecesAre
  <2> QED
    BY <2>1
<1>2. f \in Seq(FilePieces) /\ Len(f) = n /\ n \in 0..(N + 1) /\ P \in Seq(ListPieces)
      /\ l.albums \in Seq(Albums) /\ l.items \in Seq(Items) /\ l.radio_count \in Nat
  BY <1>1, PiecesAre DEF IsCut, Lists
<1>a. N = 3 + I + L + R
  BY <1>1, Zenon
<1>b. n \in 0..(N + 1)
  BY <1>2, Zenon
<1>3. \A j \in 1..N : j <= n => f[j] = P[j]
  <2>1. \A j \in 1..n : j <= N => f[j] = P[j]
    BY <1>1, Zenon DEF IsCut
  <2>2. \A j \in 1..N : j <= n => j \in 1..n /\ j <= N
    BY <1>2
  <2> QED
    BY <2>1, <2>2, Zenon
<1>4. CASE n < 3
  <2>1. ~ n = N + 1
    BY <1>a, <1>b, <1>4
  <2> QED
    BY <1>1, <1>2, <1>4, <2>1, Zenon DEF LoadFilelist
<1>5. CASE n >= 3
  <2>1. PICK C \in Nat, A \in Nat : C = l.radio_count /\ A = Len(l.albums)
    BY <1>2
  <2>2. f[1].n = I /\ f[2].n = A /\ f[3].n = C
    <3>1. 1 \in 1..N /\ 2 \in 1..N /\ 3 \in 1..N /\ 1 <= n /\ 2 <= n /\ 3 <= n
      BY <1>a, <1>b, <1>5
    <3>2. f[1] = P[1] /\ f[2] = P[2] /\ f[3] = P[3]
      BY <1>3, <3>1, Zenon
    <3>3. P[1].n = Len(l.items) /\ P[2].n = Len(l.albums) /\ P[3].n = l.radio_count
      BY PiecesAre
    <3> QED
      BY <1>1, <2>1, <3>2, <3>3, Zenon
  <2>3. PICK read \in PartReads : /\ read = ReadAlbums(f, I, A)
                                  /\ read.ok => IsRead(read, l, A)
                                  /\ n > N => read.ok
    <3>0. n \in 3..(N + 1)
      BY <1>b, <1>5
    <3>1. n \in 3..(Len(P) + 1)
      BY <1>1, <3>0, Zenon
    <3>2. /\ ReadAlbums(f, Len(l.items), Len(l.albums)) \in PartReads
          /\ ReadAlbums(f, Len(l.items), Len(l.albums)).ok
               => IsRead(ReadAlbums(f, Len(l.items), Len(l.albums)), l, Len(l.albums))
          /\ n > Len(Pieces(l)) => ReadAlbums(f, Len(l.items), Len(l.albums)).ok
      BY <3>1, CutReads
    <3> QED
      BY <1>1, <2>1, <3>2, Zenon
  <2> DEFINE end == read.at + C
             ok == /\ read.ok /\ AreAll(f, read.at, end - 1, "radio") /\ AreAll(f, end, end, "crc")
                   /\ f[end].of = SubSeq(f, 1, end - 1)
             made == [items |-> SubSeq(f, 4, 3 + I), albums |-> read.albums, radios |-> C, radio_count |-> C]
  <2>4. LoadFilelist(f) = [ok |-> ok, lists |-> IF ~ ok THEN NoLists ELSE made]
    <3>1. ~ Len(f) < 3
      BY <1>2, <1>5
    <3> QED
      BY <2>2, <2>3, <3>1, Zenon DEF LoadFilelist
  <2>5. read.ok => read.at = 4 + I + L
    <3>1. l.albums \in Seq(Albums)
      BY <1>2
    <3>2. AlbumPieces(l.albums) = WrittenBy(l.albums)[Len(l.albums)]
      BY <3>1, AlbumsAreWritten
    <3> QED
      BY <1>1, <2>1, <2>3, <3>2, Zenon DEF IsRead
  <2>6. ASSUME ok
        PROVE  n = N + 1 /\ C = R
    <3>1. PICK e \in Nat : e = end /\ e = 4 + I + L + C
      BY <2>5, <2>6
    <3>2. e <= n /\ f[e].piece = "crc"
      <4>1. AreAll(f, e, e, "crc") /\ e \in e..e
        BY <2>6, <3>1
      <4> QED
        BY <1>2, <4>1, Zenon DEF AreAll
    <3>3. ASSUME e <= N
          PROVE  FALSE
      <4>1. e \in 1..N
        BY <3>1, <3>3
      <4>2. f[e] = P[e]
        BY <1>3, <3>2, <4>1, Zenon
      <4>3. f[e] \in ListPieces
        BY <1>1, <1>2, <4>1, <4>2, ElementOfSeq
      <4>4. f[e] \in FilePieces
        BY <4>3 DEF FilePieces
      <4> QED
        BY <3>2, <4>3, <4>4, PieceKinds
    <3>a. e <= n
      BY <3>2
    <3>4. e = N + 1 /\ n = N + 1
      BY <1>b, <3>3, <3>a
    <3>b. e = 4 + I + L + C
      BY <3>1
    <3>5. C = R
      BY <1>a, <3>4, <3>b
    <3> QED
      BY <3>4, <3>5
  <2>7. ASSUME n = N + 1, C = R
        PROVE  ok /\ made = l
    <3>1. n > N
      BY <2>7
    <3>2. read.ok /\ IsRead(read, l, A) /\ read.at = 4 + I + L
      BY <2>3, <2>5, <3>1
    <3>3. PICK a \in Nat : a = read.at /\ a = 4 + I + L
      BY <3>2
    <3>a. a = 4 + I + L
      BY <3>3
    <3>b. a + C = N + 1 /\ (N + 1) - 1 = N
      BY <1>a, <2>7, <3>a
    <3>4. end = N + 1 /\ end - 1 = N
      BY <3>3, <3>b, Zenon
    <3>5. AreAll(f, a, N, "radio")
      <4>1. ASSUME NEW i \in a..N
            PROVE  i <= Len(f) /\ f[i].piece = "radio"
        <5>1. PICK r \in 1..R : r = i - (3 + I + L) /\ i = 3 + I + L + r
          BY <1>a, <3>a
        <5>2. i \in 1..N /\ i <= n
          BY <1>a, <2>7, <3>a
        <5>3. f[i] = P[i]
          BY <1>3, <5>2, Zenon
        <5>4. P[3 + I + L + r] = [piece |-> "radio"]
          <6>1. \A j \in 1..l.radios : P[3 + Len(l.items) + Len(AlbumPieces(l.albums)) + j] = [piece |-> "radio"]
            BY PiecesAre
          <6> QED
            BY <1>1, <6>1, Zenon
        <5>5. f[i] = [piece |-> "radio"]
          BY <5>1, <5>3, <5>4, Zenon
        <5> QED
          BY <1>2, <5>2, <5>5
      <4> QED
        BY <4>1, Zenon DEF AreAll
    <3>6. f[N + 1].piece = "crc" /\ f[N + 1].of = P
      BY <1>1, <2>7, <3>1, Zenon DEF IsCut
    <3>7. AreAll(f, N + 1, N + 1, "crc")
      <4>1. \A i \in (N + 1)..(N + 1) : i = N + 1 /\ i <= n
        BY <2>7
      <4> QED
        BY <1>2, <3>6, <4>1, Zenon DEF AreAll
    <3>8. SubSeq(f, 1, N) = P
      <4>1. AreThere(ListPieces, f, 0, N)
        <5>1. ASSUME NEW t \in 1..N
              PROVE  f[0 + t] \in ListPieces
          <6>1. 0 + t = t /\ t <= n
            BY <2>7
          <6>2. f[t] = P[t] /\ P[t] \in ListPieces
            BY <1>1, <1>2, <1>3, <6>1, ElementOfSeq
          <6> QED
            BY <6>1, <6>2
        <5> QED
          BY <5>1, Zenon DEF AreThere
      <4>2. PICK s \in Seq(ListPieces) : IsPart(s, f, 0, N)
        <5>1. 0 \in Nat
          OBVIOUS
        <5> QED
          BY <4>1, <5>1, PartIs
      <4>3. s = SubSeq(f, 1, N)
        <5>1. 0 + 1 = 1 /\ 0 + N = N
          OBVIOUS
        <5> QED
          BY <4>2, <5>1, Zenon DEF IsPart
      <4>4. Len(s) = N /\ \A t \in 1..N : s[t] = P[t]
        <5>1. \A t \in 1..N : 0 + t = t /\ t <= n
          BY <2>7
        <5> QED
          BY <1>3, <4>2, <5>1, Zenon DEF IsPart
      <4>5. s = P
        BY <1>1, <1>2, <4>4, SeqEqual
      <4> QED
        BY <4>3, <4>5, Zenon
    <3>9. ok
      BY <3>2, <3>3, <3>4, <3>5, <3>6, <3>7, <3>8, Zenon
    <3>10. SubSeq(f, 4, 3 + I) = l.items
      <4>0. \A t \in 1..I : f[3 + t] = l.items[t] /\ l.items[t] \in Items
        <5>1. ASSUME NEW t \in 1..I
              PROVE  f[3 + t] = l.items[t] /\ l.items[t] \in Items
          <6>1. 3 + t \in 1..N /\ 3 + t <= n
            BY <1>a, <2>7
          <6>2. P[3 + t] = l.items[t]
            BY <1>1, PiecesAre
          <6>3. f[3 + t] = P[3 + t]
            BY <1>3, <6>1, Zenon
          <6>4. l.items[t] \in Items
            BY <1>1, <1>2, ElementOfSeq
          <6> QED
            BY <6>2, <6>3, <6>4, Zenon
        <5> QED
          BY <5>1
      <4>1. AreThere(Items, f, 3, I)
        BY <4>0, Zenon DEF AreThere
      <4>2. PICK s \in Seq(Items) : IsPart(s, f, 3, I)
        <5>1. 3 \in Nat
          OBVIOUS
        <5> QED
          BY <4>1, <5>1, PartIs
      <4>3. s = SubSeq(f, 4, 3 + I)
        <5>1. 3 + 1 = 4
          OBVIOUS
        <5> QED
          BY <4>2, <5>1, Zenon DEF IsPart
      <4>4. Len(s) = I /\ \A t \in 1..I : s[t] = l.items[t]
        BY <4>0, <4>2, Zenon DEF IsPart
      <4>5. s = l.items
        BY <1>1, <1>2, <4>4, SeqEqual
      <4> QED
        BY <4>3, <4>5, Zenon
    <3>11. read.albums = l.albums
      <4>1. read.albums \in Seq(Albums) /\ Len(read.albums) = A
            /\ \A i \in 1..A : read.albums[i] = l.albums[i]
        BY <3>2 DEF IsRead, PartReads
      <4> QED
        BY <1>2, <2>1, <4>1, SeqEqual
    <3>12. l = [items |-> l.items, albums |-> l.albums, radios |-> R, radio_count |-> C]
      BY <1>1, <2>1 DEF Lists
    <3>13. made = [items |-> l.items, albums |-> l.albums, radios |-> R, radio_count |-> C]
      BY <2>7, <3>10, <3>11, Zenon
    <3> QED
      BY <3>9, <3>12, <3>13, Zenon
  <2> HIDE DEF ok, made
  <2>8. CASE n = N + 1 /\ C = R
    <3>1. ok /\ made = l
      BY <2>7, <2>8
    <3>2. ok = TRUE
      BY <2>4, <3>1 DEF ok
    <3> QED
      BY <1>1, <2>1, <2>4, <2>8, <3>1, <3>2, Zenon
  <2>9. CASE ~ (n = N + 1 /\ C = R)
    <3>1. ~ ok
      BY <2>6, <2>9
    <3>2. ok = FALSE
      BY <3>1 DEF ok
    <3> QED
      BY <1>1, <2>1, <2>4, <2>9, <3>1, <3>2, Zenon
  <2> QED
    BY <2>8, <2>9
<1> QED
  BY <1>2, <1>4, <1>5

\* What the saving of lists may leave.
LEMMA CutsAreLeft ==
    ASSUME NEW l \in Lists
    PROVE  /\ Len(Pieces(l)) \in Nat /\ Len(Pieces(l)) >= 3
           /\ Len(Whole(l)) = Len(Pieces(l)) + 1
           /\ IsCut(Whole(l), l, Len(Pieces(l)) + 1)
           /\ IsCut(<<>>, l, 0)
           /\ \A n \in 0..Len(Pieces(l)) :
                /\ IsCut(SubSeq(Whole(l), 1, n), l, n) /\ IsCut(SubSeq(Pieces(l), 1, n), l, n)
                /\ Len(SubSeq(Pieces(l), 1, n)) = n
           /\ SubSeq(Pieces(l), 1, Len(Pieces(l))) = Pieces(l)
<1> DEFINE P == Pieces(l)
<1>1. PICK N \in Nat : N = Len(P) /\ N >= 3
  <2>1. PICK I \in Nat, L \in Nat, R \in Nat, M \in Nat : M = Len(P) /\ M = 3 + I + L + R
    <3>1. /\ Len(l.items) \in Nat /\ Len(AlbumPieces(l.albums)) \in Nat /\ l.radios \in Nat
          /\ Len(P) = 3 + Len(l.items) + Len(AlbumPieces(l.albums)) + l.radios /\ Len(P) \in Nat
      BY PiecesAre
    <3> QED
      BY <3>1
  <2>2. M = 3 + I + L + R
    BY <2>1, Zenon
  <2>3. M >= 3
    BY <2>2
  <2> QED
    BY <2>1, <2>3
<1>2. P \in Seq(ListPieces) /\ \A j \in 1..N : P[j] \in ListPieces /\ P[j] \in FilePieces
  <2>1. P \in Seq(ListPieces)
    BY PiecesAre
  <2>2. \A j \in 1..N : P[j] \in ListPieces
    BY <1>1, <2>1, ElementOfSeq
  <2>3. \A x \in ListPieces : x \in FilePieces
    BY DEF FilePieces
  <2> QED
    BY <2>1, <2>2, <2>3, Zenon
<1>3. PICK c \in FilePieces : c = [piece |-> "crc", of |-> P] /\ c.piece = "crc" /\ c.of = P
  <2>1. [piece |-> "crc", of |-> P] \in [piece : {"crc"}, of : Seq(ListPieces)]
    BY <1>2
  <2> HIDE DEF P
  <2>2. PICK c : c = [piece |-> "crc", of |-> P]
    OBVIOUS
  <2>3. c.piece = "crc" /\ c.of = P
    BY <2>2
  <2>4. c \in FilePieces
    BY <2>1, <2>2, Zenon DEF FilePieces
  <2> QED
    BY <2>2, <2>3, <2>4
<1>4. P \in Seq(FilePieces)
  <2>1. P \in [1..N -> ListPieces]
    BY <1>1, <1>2
  <2>2. P \in [1..N -> FilePieces]
    BY <1>2, <2>1
  <2> HIDE DEF P
  <2> QED
    BY <2>2
<1>5. PICK f \in Seq(FilePieces) : /\ f = Whole(l) /\ Len(f) = N + 1
                                   /\ f[N + 1] = c /\ \A j \in 1..N : f[j] = P[j]
  <2>1. Whole(l) = Append(P, c)
    BY <1>3, Zenon DEF Whole
  <2>2. /\ Append(P, c) \in Seq(FilePieces) /\ Len(Append(P, c)) = Len(P) + 1
        /\ \A j \in 1..Len(P) : Append(P, c)[j] = P[j]
        /\ Append(P, c)[Len(P) + 1] = c
    BY <1>4, AppendProperties
  <2> QED
    BY <1>1, <2>1, <2>2, Zenon
<1>6. IsCut(f, l, N + 1)
  <2>1. \A j \in 1..(N + 1) : j <= N => f[j] = P[j]
    BY <1>5
  <2> QED
    BY <1>1, <1>3, <1>5, <2>1, Zenon DEF IsCut
<1>7. IsCut(<<>>, l, 0)
  <2>1. PICK s \in Seq(FilePieces) : s = <<>> /\ Len(s) = 0
    <3>1. <<>> \in Seq(FilePieces)
      OBVIOUS
    <3> QED
      BY <3>1
  <2>2. ~ 0 > N /\ \A j \in 1..0 : j <= N => s[j] = P[j]
    OBVIOUS
  <2> QED
    BY <1>1, <2>1, <2>2, Zenon DEF IsCut
<1>8. ASSUME NEW n \in 0..N, NEW g, \A j \in 1..N : g[j] = P[j]
      PROVE  IsCut(SubSeq(g, 1, n), l, n) /\ Len(SubSeq(g, 1, n)) = n
  <2>1. AreThere(FilePieces, g, 0, n)
    <3>1. \A t \in 1..n : 0 + t = t /\ t \in 1..N
      OBVIOUS
    <3> QED
      BY <1>2, <1>8, <3>1, Zenon DEF AreThere
  <2>2. PICK s \in Seq(FilePieces) : IsPart(s, g, 0, n)
    <3>1. 0 \in Nat /\ n \in Nat
      OBVIOUS
    <3> QED
      BY <2>1, <3>1, PartIs
  <2>3. s = SubSeq(g, 1, n)
    <3>1. 0 + 1 = 1 /\ 0 + n = n
      OBVIOUS
    <3> QED
      BY <2>2, <3>1, Zenon DEF IsPart
  <2>4. Len(s) = n /\ \A j \in 1..n : s[j] = P[j]
    <3>1. \A t \in 1..n : 0 + t = t /\ t \in 1..N
      OBVIOUS
    <3> QED
      BY <1>8, <2>2, <3>1, Zenon DEF IsPart
  <2>5. ~ n > N
    OBVIOUS
  <2>6. IsCut(s, l, n)
    BY <1>1, <2>4, <2>5, Zenon DEF IsCut
  <2> QED
    BY <2>3, <2>4, <2>6, Zenon
<1>9. \A n \in 0..N : /\ IsCut(SubSeq(f, 1, n), l, n) /\ IsCut(SubSeq(P, 1, n), l, n)
                      /\ Len(SubSeq(P, 1, n)) = n
  <2>1. ASSUME NEW n \in 0..N
        PROVE  IsCut(SubSeq(f, 1, n), l, n)
    BY <1>5, <1>8
  <2>2. ASSUME NEW n \in 0..N
        PROVE  IsCut(SubSeq(P, 1, n), l, n) /\ Len(SubSeq(P, 1, n)) = n
    <3>1. \A j \in 1..N : P[j] = P[j]
      OBVIOUS
    <3> HIDE DEF P
    <3> QED
      BY <1>8, <3>1
  <2> QED
    BY <2>1, <2>2
<1>10. SubSeq(P, 1, Len(P)) = P
  <2> HIDE DEF P
  <2> QED
    BY <1>2, SubSeqFull
<1> QED
  BY <1>1, <1>5, <1>6, <1>7, <1>9, <1>10, Zenon

\* Lists that are saved whole are loaded as they were.
LEMMA SavedLoad ==
    ASSUME lists \in GoodLists
    PROVE  SavedListsLoad
<1> DEFINE P == Pieces(lists)
<1>1. lists \in Lists
  BY DEF GoodLists
<1>2. PICK N \in Nat : /\ N = Len(P) /\ Len(Whole(lists)) = N + 1 /\ IsCut(Whole(lists), lists, N + 1)
                       /\ \A n \in 0..N : IsCut(SubSeq(Whole(lists), 1, n), lists, n)
  <2>1. /\ Len(Pieces(lists)) \in Nat
        /\ Len(Whole(lists)) = Len(Pieces(lists)) + 1
        /\ IsCut(Whole(lists), lists, Len(Pieces(lists)) + 1)
        /\ \A n \in 0..Len(Pieces(lists)) : IsCut(SubSeq(Whole(lists), 1, n), lists, n)
    BY <1>1, CutsAreLeft, Zenon
  <2> QED
    BY <2>1
<1>3. ASSUME NEW n \in 0..(N + 1), NEW f, IsCut(f, lists, n)
      PROVE  /\ LoadFilelist(f).ok <=> n = N + 1 /\ lists.radio_count = lists.radios
             /\ LoadFilelist(f).ok => LoadFilelist(f).lists = lists
  <2>1. PICK whole \in BOOLEAN : whole <=> n = N + 1 /\ lists.radio_count = lists.radios
    OBVIOUS
  <2>2. whole = (n = Len(Pieces(lists)) + 1 /\ lists.radio_count = lists.radios)
    BY <1>2, <2>1
  <2>3. n \in 0..(Len(Pieces(lists)) + 1)
    BY <1>2, Zenon
  <2>4. LoadFilelist(f) = [ok |-> whole, lists |-> IF whole THEN lists ELSE NoLists]
    <3>1. LoadFilelist(f) = [ok |-> n = Len(Pieces(lists)) + 1 /\ lists.radio_count = lists.radios,
             lists |-> IF n = Len(Pieces(lists)) + 1 /\ lists.radio_count = lists.radios THEN lists ELSE NoLists]
      BY <1>1, <1>3, <2>3, CutsLoad, Zenon
    <3> QED
      BY <2>2, <3>1, Zenon
  <2>5. LoadFilelist(f).ok = whole /\ LoadFilelist(f).lists = IF whole THEN lists ELSE NoLists
    BY <2>4
  <2> QED
    BY <2>1, <2>5, Zenon
<1>4. N + 1 \in 0..(N + 1) /\ \A n \in 0..N : n \in 0..(N + 1) /\ ~ n = N + 1
  OBVIOUS
<1>5. \A n \in 0..(Len(Whole(lists)) - 1) : n \in 0..N
  BY <1>2
<1>6. /\ LoadFilelist(Whole(lists)).ok <=> lists.radio_count = lists.radios
      /\ LoadFilelist(Whole(lists)).ok => LoadFilelist(Whole(lists)).lists = lists
  BY <1>2, <1>3, <1>4
<1>7. \A n \in 0..N : ~ LoadFilelist(SubSeq(Whole(lists), 1, n)).ok
  BY <1>2, <1>3, <1>4
<1> QED
  BY <1>5, <1>6, <1>7, Zenon DEF SavedListsLoad

\* The pieces tell the albums.
LEMMA PiecesTellAlbums ==
    ASSUME NEW l \in Lists, NEW k \in Lists, Pieces(l) = Pieces(k)
    PROVE  l.albums = k.albums
<1> DEFINE f == Whole(l)
           read(x) == ReadAlbums(f, Len(x.items), Len(x.albums))
<1>1. ASSUME NEW x \in Lists, Pieces(x) = Pieces(l)
      PROVE  /\ Len(x.items) = Pieces(l)[1].n /\ Len(x.albums) = Pieces(l)[2].n
             /\ x.albums = read(x).albums
  <2>1. PICK n \in 3..(Len(Pieces(x)) + 1) : n = Len(Pieces(x)) + 1 /\ n > Len(Pieces(x))
    <3>1. PICK N \in Nat : N = Len(Pieces(x)) /\ N >= 3
      BY CutsAreLeft
    <3>a. N >= 3
      BY <3>1
    <3>2. PICK n \in 3..(N + 1) : n = N + 1 /\ n > N
      BY <3>a
    <3> QED
      BY <3>1, <3>2, Zenon
  <2>2. IsCut(f, x, n)
    <3>1. Whole(x) = f
      BY <1>1, Zenon DEF Whole
    <3> QED
      BY <2>1, <3>1, CutsAreLeft, Zenon
  <2>3. read(x) \in PartReads /\ IsRead(read(x), x, Len(x.albums))
    BY <2>1, <2>2, CutReads, Zenon
  <2>4. x.albums = read(x).albums
    <3>1. PICK r \in PartReads : r = read(x)
      BY <2>3
    <3>2. Len(r.albums) = Len(x.albums) /\ \A i \in 1..Len(x.albums) : r.albums[i] = x.albums[i]
      BY <2>3, <3>1, Zenon DEF IsRead
    <3>3. r.albums \in Seq(Albums) /\ x.albums \in Seq(Albums)
      BY DEF PartReads, Lists
    <3> QED
      BY <3>1, <3>2, <3>3, SeqEqual
  <2>5. Len(x.items) = Pieces(x)[1].n /\ Len(x.albums) = Pieces(x)[2].n
    BY PiecesAre, Zenon
  <2> QED
    BY <1>1, <2>4, <2>5, Zenon
<1>2. Len(l.items) = Len(k.items) /\ Len(l.albums) = Len(k.albums)
  BY <1>1
<1>3. l.albums = read(l).albums /\ k.albums = read(k).albums
  BY <1>1
<1> QED
  BY <1>2, <1>3, Zenon

\* What the display shows, and what may be told of a step.
Modes == {"info", "album", "music"}
Tales == {"no", "start", "draw", "other", "play"}

\* What is told first is what is told.
LEMMA FirstIs ==
    ASSUME NEW N \in Nat, NEW reads, DOMAIN reads = 1..N
    PROVE  /\ (\A i \in 1..N : reads[i] = "no") => FirstOf(reads) = "no"
           /\ \A i \in 1..N : reads[i] # "no" /\ (\A j \in 1..N : j < i => reads[j] = "no")
                => FirstOf(reads) = reads[i]
<1> DEFINE bad == {i \in DOMAIN reads : reads[i] # "no"}
<1>1. FirstOf(reads) = IF bad = {} THEN "no" ELSE reads[Min(bad)]
  BY DEF FirstOf
<1>2. \A i \in bad : i \in 1..N /\ reads[i] # "no"
  OBVIOUS
<1>3. \A i \in 1..N : reads[i] # "no" => i \in bad
  OBVIOUS
<1> HIDE DEF bad
<1>4. ASSUME NEW i \in 1..N, reads[i] # "no", \A j \in 1..N : j < i => reads[j] = "no"
      PROVE  Min(bad) = i /\ bad # {}
  <2>1. i \in bad /\ \A j \in bad : i <= j
    <3>1. ASSUME NEW j \in bad
          PROVE  i <= j
      <4>1. j \in 1..N /\ ~ j < i
        BY <1>2, <1>4
      <4> QED
        BY <4>1
    <3> QED
      BY <1>3, <1>4, <3>1
  <2>2. \A j \in bad : (\A k \in bad : j <= k) => j = i
    <3>1. ASSUME NEW j \in bad, \A k \in bad : j <= k
          PROVE  j = i
      <4>1. j <= i /\ i <= j /\ j \in 1..N
        BY <1>2, <2>1, <3>1
      <4> QED
        BY <4>1
    <3> QED
      BY <3>1
  <2> QED
    BY <2>1, <2>2, Zenon DEF Min
<1> QED
  BY <1>1, <1>2, <1>3, <1>4, Zenon

\* The first of two.
LEMMA FirstOfTwo ==
    ASSUME NEW a, NEW b
    PROVE  FirstOf(<<a, b>>) = IF a # "no" THEN a ELSE b
<1>1. PICK r : r = <<a, b>>
  OBVIOUS
<1>2. r[1] = a /\ r[2] = b /\ DOMAIN r = 1..2
  BY <1>1
<1>3. /\ (\A i \in 1..2 : r[i] = "no") => FirstOf(r) = "no"
      /\ \A i \in 1..2 : r[i] # "no" /\ (\A j \in 1..2 : j < i => r[j] = "no") => FirstOf(r) = r[i]
  BY <1>2, FirstIs
<1>4. \A i \in 1..2 : i = 1 \/ i = 2
  OBVIOUS
<1>5. FirstOf(r) = IF a # "no" THEN a ELSE b
  BY <1>2, <1>3, <1>4
<1> QED
  BY <1>1, <1>5, Zenon

\* The first of three.
LEMMA FirstOfThree ==
    ASSUME NEW a, NEW b, NEW c
    PROVE  FirstOf(<<a, b, c>>) = IF a # "no" THEN a ELSE IF b # "no" THEN b ELSE c
<1>1. PICK r : r = <<a, b, c>>
  OBVIOUS
<1>2. r[1] = a /\ r[2] = b /\ r[3] = c /\ DOMAIN r = 1..3
  BY <1>1
<1>3. /\ (\A i \in 1..3 : r[i] = "no") => FirstOf(r) = "no"
      /\ \A i \in 1..3 : r[i] # "no" /\ (\A j \in 1..3 : j < i => r[j] = "no") => FirstOf(r) = r[i]
  BY <1>2, FirstIs
<1>4. \A i \in 1..3 : i = 1 \/ i = 2 \/ i = 3
  OBVIOUS
<1>5. FirstOf(r) = IF a # "no" THEN a ELSE IF b # "no" THEN b ELSE c
  BY <1>2, <1>3, <1>4
<1> QED
  BY <1>1, <1>5, Zenon

\* The first of four.
LEMMA FirstOfFour ==
    ASSUME NEW a, NEW b, NEW c, NEW d
    PROVE  FirstOf(<<a, b, c, d>>)
             = IF a # "no" THEN a ELSE IF b # "no" THEN b ELSE IF c # "no" THEN c ELSE d
<1>1. PICK r : r = <<a, b, c, d>>
  OBVIOUS
<1>2. r[1] = a /\ r[2] = b /\ r[3] = c /\ r[4] = d /\ DOMAIN r = 1..4
  BY <1>1
<1>3. /\ (\A i \in 1..4 : r[i] = "no") => FirstOf(r) = "no"
      /\ \A i \in 1..4 : r[i] # "no" /\ (\A j \in 1..4 : j < i => r[j] = "no") => FirstOf(r) = r[i]
  BY <1>2, FirstIs
<1>4. \A i \in 1..4 : i = 1 \/ i = 2 \/ i = 3 \/ i = 4
  OBVIOUS
<1>5. FirstOf(r) = IF a # "no" THEN a ELSE IF b # "no" THEN b ELSE IF c # "no" THEN c ELSE d
  BY <1>2, <1>3, <1>4
<1> QED
  BY <1>1, <1>5, Zenon

\* What may be told of lists that were replaced, or whose place was not saved with them.
Excused(x, l, r, u) ==
    /\ x \in Tales
    /\ x = "play" => u
    /\ x = "draw" => r \/ u
    /\ x = "start" => l.albums = <<>> \/ u

\* The list that is shown can be drawn.
ShownFits(l, disp, v) == \A n \in 0..(v.count - 1) : Drawable(l, disp, v.select, n)

\* What is drawn and opened of the lists is excused.
LEMMA ReadsAreExcused ==
    ASSUME NEW l, NEW r \in BOOLEAN, NEW u \in BOOLEAN, NEW disp \in Modes, NEW select
    PROVE  /\ Excused("no", l, r, u)
           /\ \A n : (r \/ u \/ Drawable(l, disp, select, n))
                       => Excused(DrawItem(l, disp, select, n), l, r, u)
           /\ \A v : (r \/ u \/ ShownFits(l, disp, v)) => Excused(DrawList(l, disp, v), l, r, u)
           /\ \A from, to : (r \/ u \/ (IsPlace(l, from) /\ IsPlace(l, to)))
                              => Excused(DrawPlayed(l, disp, select, from, to), l, r, u)
           /\ \A p : (u \/ l.items = <<>> \/ IsPlace(l, p)) => Excused(ReadFile(l, p), l, r, u)
<1>1. Excused("no", l, r, u)
  BY DEF Excused, Tales
<1>2. ASSUME NEW n, r \/ u \/ Drawable(l, disp, select, n)
      PROVE  Excused(DrawItem(l, disp, select, n), l, r, u)
  BY <1>2 DEF Excused, Tales, DrawItem
<1>3. ASSUME NEW v, r \/ u \/ ShownFits(l, disp, v)
      PROVE  Excused(DrawList(l, disp, v), l, r, u)
  BY <1>3 DEF Excused, Tales, DrawList, ShownFits
<1>4. ASSUME NEW p
      PROVE  /\ DrawPlaying(l, disp, select, p) \in {"no", "draw", "other"}
             /\ IsPlace(l, p) => DrawPlaying(l, disp, select, p) # "draw"
  <2>1. DrawPlaying(l, disp, select, p) \in {"no", "draw", "other"}
    BY DEF DrawPlaying
  <2>2. CASE disp = "album"
    BY <2>1, <2>2 DEF DrawPlaying, Drawable, IsPlace
  <2>3. CASE disp = "music"
    <3>1. p.album = select => (IsPlace(l, Place(select, p.track)) <=> IsPlace(l, p))
      <4>1. Place(select, p.track).album = select /\ Place(select, p.track).track = p.track
        BY DEF Place
      <4> QED
        BY <4>1 DEF IsPlace
    <3> QED
      BY <2>1, <2>3, <3>1 DEF DrawPlaying, Drawable
  <2>4. CASE disp = "info"
    BY <2>1, <2>4 DEF DrawPlaying, Drawable
  <2> QED
    BY <2>2, <2>3, <2>4 DEF Modes
<1>5. ASSUME NEW from, NEW to, r \/ u \/ (IsPlace(l, from) /\ IsPlace(l, to))
      PROVE  Excused(DrawPlayed(l, disp, select, from, to), l, r, u)
  <2>1. PICK a, b : a = DrawPlaying(l, disp, select, from) /\ b = DrawPlaying(l, disp, select, to)
    OBVIOUS
  <2>2. DrawPlayed(l, disp, select, from, to) = IF a # "no" THEN a ELSE b
    <3>1. DrawPlayed(l, disp, select, from, to) = FirstOf(<<a, b>>)
      BY <2>1, Zenon DEF DrawPlayed
    <3>2. FirstOf(<<a, b>>) = IF a # "no" THEN a ELSE b
      BY FirstOfTwo
    <3> QED
      BY <3>1, <3>2
  <2>3. a \in {"no", "draw", "other"} /\ b \in {"no", "draw", "other"}
        /\ (r \/ u \/ (a # "draw" /\ b # "draw"))
    BY <1>4, <1>5, <2>1
  <2> QED
    BY <2>2, <2>3 DEF Excused, Tales
<1>6. ASSUME NEW p, u \/ l.items = <<>> \/ IsPlace(l, p)
      PROVE  Excused(ReadFile(l, p), l, r, u)
  BY <1>6 DEF Excused, Tales, ReadFile
<1> QED
  BY <1>1, <1>2, <1>3, <1>5, <1>6

\* The first of what is excused is excused.
LEMMA FirstIsExcused ==
    ASSUME NEW l, NEW r, NEW u, NEW a, NEW b, Excused(a, l, r, u), Excused(b, l, r, u)
    PROVE  /\ Excused(FirstOf(<<a, b>>), l, r, u)
           /\ \A c : Excused(c, l, r, u) => Excused(FirstOf(<<a, b, c>>), l, r, u)
           /\ \A c, d : Excused(c, l, r, u) /\ Excused(d, l, r, u)
                          => Excused(FirstOf(<<a, b, c, d>>), l, r, u)
<1>1. Excused(FirstOf(<<a, b>>), l, r, u)
  <2>1. FirstOf(<<a, b>>) = IF a # "no" THEN a ELSE b
    BY FirstOfTwo
  <2> QED
    BY <2>1
<1>2. ASSUME NEW c, Excused(c, l, r, u)
      PROVE  Excused(FirstOf(<<a, b, c>>), l, r, u)
  <2>1. FirstOf(<<a, b, c>>) = IF a # "no" THEN a ELSE IF b # "no" THEN b ELSE c
    BY FirstOfThree
  <2> QED
    BY <1>2, <2>1
<1>3. ASSUME NEW c, NEW d, Excused(c, l, r, u), Excused(d, l, r, u)
      PROVE  Excused(FirstOf(<<a, b, c, d>>), l, r, u)
  <2>1. FirstOf(<<a, b, c, d>>)
          = IF a # "no" THEN a ELSE IF b # "no" THEN b ELSE IF c # "no" THEN c ELSE d
    BY FirstOfFour
  <2> QED
    BY <1>3, <2>1
<1> QED
  BY <1>1, <1>2, <1>3

\* The list view shows albums, or the music of one.
ViewFits(l, disp, v) ==
    IF l.albums = <<>> THEN v.count = 0 /\ v.item = 0
    ELSE /\ IsAlbum(l, v.select)
         /\ disp = "album" => v.count = Len(l.albums) /\ v.item \in 0..(v.count - 1)
         /\ disp = "music" => v.count = TracksOf(l, v.select) /\ v.item \in 0..(v.count - 1)

\* What is saved whole, or in part.
IsCutList(f) == \E l \in GoodLists : \E n \in 0..(Len(Pieces(l)) + 1) : IsCut(f, l, n)

\* A configuration that tells of a place tells of one in the lists of its CRC.
IsSaved(c) ==
    /\ c.disp \in Modes /\ c.mode \in {"sd", "radio"} /\ c.unbacked \in BOOLEAN
    /\ ~ c.unbacked =>
         c.play = Start \/ \E l \in GoodLists : c.crc = Pieces(l) /\ IsPlace(l, c.play)

\* The values that the variables have.
KindsFit ==
    /\ files \in CardContents /\ failures \in 0..MaxFailures
    /\ sdmusicplay_status \in {"notready", "opened", "play", "stop"}
    /\ musicplay_mode \in {"sd", "radio"} /\ sd_disp_mode \in Modes
    /\ song \in {"none", "opened", "ready"}
    /\ replaced \in BOOLEAN /\ unbacked \in BOOLEAN

\* The player is at a place of its lists, and what it shows is there.
StoryFits ==
    /\ Excused(astray, lists, replaced, unbacked)
    /\ unbacked \/ PlaceFits(lists, play)
    /\ unbacked \/ replaced \/ (PlaceFits(lists, last) /\ ViewFits(lists, sd_disp_mode, view))
    /\ astray = "no" /\ musicplay_mode = "sd" => ShownFits(lists, sd_disp_mode, view)
    /\ view = [select |-> view.select, count |-> view.count, item |-> view.item]
    /\ song # "none" => HasSongs

\* The inductive invariant.
MusicListFits ==
    KindsFit /\ lists \in GoodLists /\ IsCutList(info) /\ IsSaved(config) /\ StoryFits

\* What shows the lists can be drawn.
LEMMA ViewIsShown ==
    ASSUME NEW l \in GoodLists, NEW disp \in Modes, NEW v, ViewFits(l, disp, v)
    PROVE  ShownFits(l, disp, v)
<1>1. Len(l.albums) \in Nat
  BY PlacesOfLists
<1>2. ASSUME NEW n \in 0..(v.count - 1)
      PROVE  Drawable(l, disp, v.select, n)
  <2>1. CASE l.albums = <<>>
    BY <1>2, <2>1 DEF ViewFits
  <2>2. CASE l.albums # <<>> /\ disp = "album"
    BY <1>1, <1>2, <2>2 DEF ViewFits, Drawable, IsAlbum
  <2>3. CASE l.albums # <<>> /\ disp = "music"
    <3>1. v.select \in 0..(Len(l.albums) - 1) /\ n \in 0..(TracksOf(l, v.select) - 1)
      BY <1>2, <2>3 DEF ViewFits, IsAlbum
    <3>2. IsPlace(l, Place(v.select, n))
      BY <3>1, PlacesOfLists
    <3> QED
      BY <2>3, <3>2 DEF Drawable
  <2>4. CASE disp = "info"
    BY <2>4 DEF Drawable
  <2> QED
    BY <2>1, <2>2, <2>3, <2>4 DEF Modes
<1> QED
  BY <1>2 DEF ShownFits

\* What the invariant tells of the lists at any time.
LEMMA WhereItIs ==
    ASSUME MusicListFits
    PROVE  /\ HasSongs <=> lists.albums # <<>>
           /\ HasSongs => IsPlace(lists, Start)
           /\ HasSongs => unbacked \/ IsPlace(lists, play)
           /\ HasSongs => unbacked \/ replaced \/ IsPlace(lists, last)
           /\ unbacked \/ replaced \/ ShownFits(lists, sd_disp_mode, view)
           /\ Excused(DrawStop, lists, replaced, unbacked)
<1>1. lists \in GoodLists /\ sd_disp_mode \in Modes /\ replaced \in BOOLEAN /\ unbacked \in BOOLEAN
  BY DEF MusicListFits, KindsFit
<1>2. HasSongs <=> lists.albums # <<>>
  BY <1>1, PlacesOfLists DEF HasSongs
<1>3. \A p : PlaceFits(lists, p) /\ lists.albums # <<>> => IsPlace(lists, p)
  BY <1>1, PlacesOfLists
<1>4. /\ unbacked \/ PlaceFits(lists, play)
      /\ unbacked \/ replaced \/ (PlaceFits(lists, last) /\ ViewFits(lists, sd_disp_mode, view))
  BY DEF MusicListFits, StoryFits
<1>5. PlaceFits(lists, Start)
  BY DEF PlaceFits
<1>6. unbacked \/ replaced \/ ShownFits(lists, sd_disp_mode, view)
  BY <1>1, <1>4, ViewIsShown
<1>7. HasSongs => (unbacked \/ IsPlace(lists, play)) /\ (unbacked \/ replaced \/ IsPlace(lists, last))
  BY <1>2, <1>3, <1>4
<1>8. Excused(DrawStop, lists, replaced, unbacked)
  <2>1. CASE HasSongs
    <3>1. Excused(DrawPlayed(lists, sd_disp_mode, view.select, last, play), lists, replaced, unbacked)
      BY <1>1, <1>7, <2>1, ReadsAreExcused
    <3> QED
      BY <2>1, <3>1 DEF DrawStop
  <2>2. CASE ~ HasSongs
    <3>1. Excused("no", lists, replaced, unbacked)
      BY <1>1, ReadsAreExcused
    <3> QED
      BY <2>2, <3>1 DEF DrawStop
  <2> QED
    BY <2>1, <2>2
<1> QED
  BY <1>2, <1>3, <1>5, <1>6, <1>7, <1>8

\* Forward and back lead from a place of the lists to another.
LEMMA PlacesLeadOn ==
    ASSUME NEW l \in GoodLists, NEW p, IsPlace(l, p)
    PROVE  /\ \A n \in Ff(l, p) : IsPlace(l, n.to)
           /\ IsPlace(l, Fr(l, p))
<1>1. PICK N \in Nat \ {0} : N = Len(l.albums) /\ p.album \in 0..(N - 1)
                             /\ p.track \in 0..(TracksOf(l, p.album) - 1)
  BY PlacesOfLists DEF IsPlace, IsAlbum, TracksOf
<1>2. /\ \A n \in 0..(N - 1) : TracksOf(l, n) \in Nat \ {0}
      /\ \A n \in 0..(N - 1) : \A t \in 0..(TracksOf(l, n) - 1) : IsPlace(l, Place(n, t))
      /\ \A q \in Places(l) : IsPlace(l, q)
  BY <1>1, PlacesOfLists
<1>3. \A n \in 0..(N - 1) : IsPlace(l, Place(n, 0))
  <2>1. \A n \in 0..(N - 1) : 0 \in 0..(TracksOf(l, n) - 1)
    BY <1>2
  <2> QED
    BY <1>2, <2>1
<1>4. PICK T \in Nat \ {0} : T = TracksOf(l, p.album)
  BY <1>1, <1>2
<1>5. IsPlace(l, FfInOrder(l, p))
  <2>1. CASE p.track + 1 < T
    <3>1. p.track + 1 \in 0..(T - 1)
      BY <1>1, <1>4, <2>1
    <3> QED
      BY <1>1, <1>2, <1>4, <2>1, <3>1 DEF FfInOrder
  <2>2. CASE ~ p.track + 1 < T
    <3>1. NextAlbum(l, p.album) \in 0..(N - 1)
      BY <1>1, AlbumBehind DEF NextAlbum
    <3> QED
      BY <1>3, <1>4, <2>2, <3>1 DEF FfInOrder
  <2> QED
    BY <2>1, <2>2
<1>6. ASSUME NEW n \in Ff(l, p)
      PROVE  IsPlace(l, n.to)
  <2>1. n.to \in {p, Place(p.album, 0), FfInOrder(l, p)} \cup Places(l)
    BY <1>6 DEF Ff
  <2> QED
    BY <1>1, <1>2, <1>3, <1>5, <2>1
<1>7. IsPlace(l, Fr(l, p))
  <2>1. CASE p.track > 0
    <3>1. p.track - 1 \in 0..(T - 1)
      BY <1>1, <1>4, <2>1
    <3> QED
      BY <1>1, <1>2, <1>4, <2>1, <3>1 DEF Fr
  <2>2. CASE ~ p.track > 0
    <3>1. PICK n : n = IF p.album = 0 THEN Len(l.albums) - 1 ELSE p.album - 1
      OBVIOUS
    <3>2. n \in 0..(N - 1)
      BY <1>1, <3>1
    <3>3. TracksOf(l, n) - 1 \in 0..(TracksOf(l, n) - 1)
      BY <1>2, <3>2
    <3>4. IsPlace(l, Place(n, TracksOf(l, n) - 1))
      BY <1>2, <3>2, <3>3
    <3> QED
      BY <2>2, <3>1, <3>4 DEF Fr
  <2> QED
    BY <2>1, <2>2
<1> QED
  BY <1>6, <1>7

\* A song is opened.
LEMMA OpenAtFits ==
    ASSUME MusicListFits, HasSongs, astray = "no", NEW stopped, NEW from, NEW to,
           OpenAt(stopped, from, to), Excused(stopped, lists, replaced, unbacked),
           unbacked \/ IsPlace(lists, to), unbacked \/ replaced \/ IsPlace(lists, from),
           lists' = lists, sd_disp_mode' = sd_disp_mode, view' = view, replaced' = replaced,
           unbacked' = unbacked, musicplay_mode' = musicplay_mode
    PROVE  StoryFits' /\ song' = "opened"
<1>1. lists \in GoodLists /\ sd_disp_mode \in Modes /\ replaced \in BOOLEAN /\ unbacked \in BOOLEAN
  BY DEF MusicListFits, KindsFit
<1>2. play' = to /\ last' = to /\ song' = "opened"
  BY DEF OpenAt
<1>3. PICK a, b : a = DrawPlayed(lists, sd_disp_mode, view.select, from, to) /\ b = ReadFile(lists, to)
                  /\ astray' = FirstOf(<<stopped, a, b>>)
  BY DEF OpenAt
<1>4. Excused(a, lists, replaced, unbacked) /\ Excused(b, lists, replaced, unbacked)
  BY <1>1, <1>3, ReadsAreExcused
<1>5. Excused(astray', lists, replaced, unbacked)
  <2>1. Excused(FirstOf(<<stopped, a, b>>), lists, replaced, unbacked)
    BY <1>4, FirstIsExcused
  <2> QED
    BY <1>3, <2>1, Zenon
<1>6. unbacked \/ PlaceFits(lists, to)
  BY DEF PlaceFits
<1>7. /\ unbacked \/ replaced \/ ViewFits(lists, sd_disp_mode, view)
      /\ musicplay_mode = "sd" => ShownFits(lists, sd_disp_mode, view)
      /\ view = [select |-> view.select, count |-> view.count, item |-> view.item]
  BY DEF MusicListFits, StoryFits
<1>8. HasSongs'
  BY DEF HasSongs
<1> QED
  BY <1>2, <1>5, <1>6, <1>7, <1>8 DEF StoryFits

\* What is saved, or a part of it.
LEMMA SavesWhatFits ==
    ASSUME IsSaved(config), NEW before \in 0..MaxFailures, SaveConfig(before),
           lists' \in GoodLists, unbacked' \in BOOLEAN, sd_disp_mode' \in Modes,
           musicplay_mode' \in {"sd", "radio"}, unbacked' \/ PlaceFits(lists', play')
    PROVE  IsSaved(config') /\ failures' \in 0..MaxFailures
<1>1. PICK x \in BOOLEAN : x = (unbacked' \/ (play' # Start /\ backup_crc' # Pieces(lists')))
  OBVIOUS
<1>2. PICK w : w = [there |-> TRUE, disp |-> sd_disp_mode', play |-> play',
                    mode |-> musicplay_mode', crc |-> backup_crc', unbacked |-> x]
  OBVIOUS
<1>3. /\ w.disp = sd_disp_mode' /\ w.play = play' /\ w.mode = musicplay_mode'
      /\ w.crc = backup_crc' /\ w.unbacked = x
  BY <1>2
<1>4. \/ config' = w /\ failures' = before
      \/ /\ before < MaxFailures /\ failures' = before + 1
         /\ (UNCHANGED config \/ \E n \in 0..3 : config' = Lines(w, n))
  BY <1>1, <1>2, Zenon DEF SaveConfig
<1>5. IsSaved(w)
  <2>1. ASSUME ~ x
        PROVE  play' = Start \/ (backup_crc' = Pieces(lists') /\ IsPlace(lists', play'))
    BY <1>1, <2>1 DEF PlaceFits
  <2> QED
    BY <1>3, <2>1 DEF IsSaved
<1>6. ASSUME NEW n \in 0..3
      PROVE  IsSaved(Lines(w, n))
  <2>1. PICK c : c = Lines(w, n)
    OBVIOUS
  <2>2. /\ c.disp = IF n >= 1 THEN w.disp ELSE "info"
        /\ c.mode = IF n >= 3 THEN w.mode ELSE "sd"
        /\ c.unbacked = TRUE
    <3>1. n < 4
      OBVIOUS
    <3>2. c = [there |-> TRUE, disp |-> IF n >= 1 THEN w.disp ELSE NoConfig.disp,
               play |-> IF n >= 2 THEN w.play ELSE NoConfig.play,
               mode |-> IF n >= 3 THEN w.mode ELSE NoConfig.mode,
               crc |-> IF n >= 4 THEN w.crc ELSE NoConfig.crc,
               unbacked |-> w.unbacked \/ n < 4]
      BY <1>2, <2>1 DEF Lines
    <3>3. NoConfig.disp = "info" /\ NoConfig.mode = "sd"
      BY DEF NoConfig
    <3> QED
      BY <3>1, <3>2, <3>3
  <2> QED
    BY <1>3, <2>1, <2>2 DEF IsSaved, Modes
<1>7. failures' \in 0..MaxFailures
  BY <1>4, MusicListAssumption
<1> QED
  BY <1>4, <1>5, <1>6, <1>7

\* Lists of nothing.
LEMMA NoListsFit == NoLists \in GoodLists
<1>1. NoLists = [items |-> <<>>, albums |-> <<>>, radios |-> 0, radio_count |-> 0]
  BY DEF NoLists
<1>2. Len(<<>>) = 0 /\ <<>> \in Seq(Items) /\ <<>> \in Seq(Albums)
  OBVIOUS
<1>3. PICK s : s = <<>>
  OBVIOUS
<1>4. Len(s) = 0 /\ s \in Seq(Items) /\ s \in Seq(Albums)
  BY <1>2, <1>3
<1>5. ListsFit(s, s, 0)
  BY <1>4 DEF ListsFit
<1>6. PICK l : l = [items |-> s, albums |-> s, radios |-> 0, radio_count |-> 0]
  OBVIOUS
<1>7. l \in Lists /\ l.items = s /\ l.albums = s
  BY <1>4, <1>6 DEF Lists
<1>8. l \in GoodLists
  BY <1>4, <1>5, <1>7 DEF GoodLists
<1> QED
  BY <1>1, <1>3, <1>6, <1>8

\* What init_list_view() shows of a place of the lists.
LEMMA ListViewFits ==
    ASSUME NEW l \in GoodLists, NEW p, config.disp \in Modes
    PROVE  LET v == ListView(l, p) IN
           /\ v[1] = [select |-> v[1].select, count |-> v[1].count, item |-> v[1].item]
           /\ v[2] \in {"no", "start"}
           /\ PlaceFits(l, p) => ViewFits(l, config.disp, v[1]) /\ (v[2] = "start" => l.albums = <<>>)
<1>1. ASSUME NEW a, NEW b
      PROVE  <<a, b>>[1] = a /\ <<a, b>>[2] = b
  OBVIOUS
<1>2. ASSUME NEW a, NEW b, NEW c
      PROVE  LET r == [select |-> a, count |-> b, item |-> c] IN
             r.select = a /\ r.count = b /\ r.item = c
  OBVIOUS
<1>3. PlaceFits(l, p) => (l.albums = <<>> /\ p = Start) \/ (l.albums # <<>> /\ IsPlace(l, p))
  <2>1. l.albums # <<>> /\ PlaceFits(l, p) => IsPlace(l, p)
    BY PlacesOfLists
  <2>2. l.albums = <<>> => ~ IsPlace(l, p)
    <3>1. l.albums = <<>> => Len(l.albums) = 0
      BY PlacesOfLists
    <3> QED
      BY <3>1 DEF IsPlace, IsAlbum
  <2> QED
    BY <2>1, <2>2 DEF PlaceFits
<1>4. Len(l.albums) \in Nat /\ (l.albums = <<>> <=> Len(l.albums) = 0)
  BY PlacesOfLists
<1>5. Start.album = 0 /\ Start.track = 0
  BY DEF Start, Place
<1>6. CASE config.disp = "album"
  <2>1. PICK v : v = [select |-> p.album, count |-> Len(l.albums), item |-> p.album]
    OBVIOUS
  <2>2. v.select = p.album /\ v.count = Len(l.albums) /\ v.item = p.album
    BY <2>1
  <2>3. ListView(l, p) = <<v, "no">>
    BY <1>6, <2>1 DEF ListView
  <2>4. PlaceFits(l, p) => ViewFits(l, "album", v)
    BY <1>3, <1>4, <1>5, <2>2 DEF ViewFits, IsPlace, IsAlbum
  <2>5. ListView(l, p)[1] = v /\ ListView(l, p)[2] = "no"
    BY <2>3
  <2> QED
    BY <1>6, <2>1, <2>2, <2>4, <2>5
<1>7. CASE config.disp = "music" /\ IsAlbum(l, p.album)
  <2>1. PICK v : v = [select |-> p.album, count |-> TracksOf(l, p.album), item |-> p.track]
    OBVIOUS
  <2>2. v.select = p.album /\ v.count = TracksOf(l, p.album) /\ v.item = p.track
    BY <2>1
  <2>3. ListView(l, p) = <<v, "no">>
    BY <1>7, <2>1 DEF ListView
  <2>4. PlaceFits(l, p) => ViewFits(l, "music", v)
    BY <1>3, <1>4, <1>5, <1>7, <2>2 DEF ViewFits, IsPlace, IsAlbum, TracksOf
  <2>5. ListView(l, p)[1] = v /\ ListView(l, p)[2] = "no"
    BY <2>3
  <2> QED
    BY <1>7, <2>1, <2>2, <2>4, <2>5
<1>8. CASE config.disp = "music" /\ ~ IsAlbum(l, p.album)
  <2>1. PICK v : v = [select |-> p.album, count |-> 0, item |-> 0]
    OBVIOUS
  <2>2. v.select = p.album /\ v.count = 0 /\ v.item = 0
    BY <2>1
  <2>3. ListView(l, p) = <<v, "start">>
    BY <1>8, <2>1 DEF ListView
  <2>4. PlaceFits(l, p) => l.albums = <<>> /\ ViewFits(l, "music", v)
    BY <1>3, <1>8, <2>2 DEF ViewFits, IsPlace
  <2>5. ListView(l, p)[1] = v /\ ListView(l, p)[2] = "start"
    BY <2>3
  <2> QED
    BY <1>8, <2>1, <2>2, <2>4, <2>5
<1>9. CASE config.disp = "info"
  <2>1. PICK v : v = [select |-> p.album, count |-> 0, item |-> 0]
    OBVIOUS
  <2>2. v.select = p.album /\ v.count = 0 /\ v.item = 0
    BY <2>1
  <2>3. ListView(l, p) = <<v, "no">>
    BY <1>9, <2>1 DEF ListView, NoView
  <2>4. PlaceFits(l, p) => ViewFits(l, "info", v)
    BY <1>3, <1>4, <1>5, <2>2 DEF ViewFits, IsPlace
  <2>5. ListView(l, p)[1] = v /\ ListView(l, p)[2] = "no"
    BY <2>3
  <2> QED
    BY <1>9, <2>1, <2>2, <2>4, <2>5
<1> QED
  BY <1>6, <1>7, <1>8, <1>9 DEF Modes

\* The player starts with lists, and where it was if they are those of the place.
LEMMA StartFits ==
    ASSUME MusicListFits, NEW l \in GoodLists, NEW failed \in 0..MaxFailures, StartPlayer(l, failed),
           minfo_crc' = Pieces(l) \/ \A k \in Lists : minfo_crc' # Pieces(k), IsCutList(info')
    PROVE  MusicListFits'
<1>1. IsSaved(config) /\ replaced \in BOOLEAN /\ config.disp \in Modes
      /\ config.mode \in {"sd", "radio"} /\ config.unbacked \in BOOLEAN
  BY DEF MusicListFits, KindsFit, IsSaved
<1>2. /\ lists' = l /\ musicplay_mode' = config.mode /\ sd_disp_mode' = config.disp
      /\ unbacked' = (config.crc = minfo_crc' /\ config.unbacked)
      /\ play' = IF config.crc = minfo_crc' THEN config.play ELSE Start
      /\ files' = files /\ sdmusicplay_status' = sdmusicplay_status /\ replaced' = replaced
  BY DEF StartPlayer, Remembered
<1>3. unbacked' \in BOOLEAN /\ (unbacked' \/ PlaceFits(l, play'))
  <2>1. unbacked' \in BOOLEAN
    BY <1>2
  <2>2. CASE config.crc # minfo_crc'
    BY <1>2, <2>2 DEF PlaceFits
  <2>3. CASE config.crc = minfo_crc' /\ ~ config.unbacked
    <3>1. CASE config.play = Start
      BY <1>2, <2>3, <3>1 DEF PlaceFits
    <3>2. CASE config.play # Start
      <4>1. PICK k \in GoodLists : config.crc = Pieces(k) /\ IsPlace(k, config.play)
        BY <1>1, <2>3, <3>2 DEF IsSaved
      <4>2. k \in Lists /\ l \in Lists
        BY DEF GoodLists
      <4>3. Pieces(l) = Pieces(k)
        BY <2>3, <4>1, <4>2
      <4>4. l.albums = k.albums
        BY <4>2, <4>3, PiecesTellAlbums
      <4>5. IsPlace(l, config.play)
        BY <4>1, <4>4 DEF IsPlace, IsAlbum
      <4> QED
        BY <1>2, <2>3, <4>5 DEF PlaceFits
    <3> QED
      BY <3>1, <3>2
  <2>4. CASE config.crc = minfo_crc' /\ config.unbacked
    BY <1>2, <2>4
  <2> QED
    BY <1>1, <2>1, <2>2, <2>3, <2>4
<1>4. PICK u \in BOOLEAN, p \in {play'} : u = unbacked' /\ p = play'
  BY <1>3
<1>5. PICK v, told : /\ v = ListView(l, p)[1] /\ told = ListView(l, p)[2] /\ view' = v
                     /\ v = [select |-> v.select, count |-> v.count, item |-> v.item]
                     /\ told \in {"no", "start"}
                     /\ PlaceFits(l, p) => ViewFits(l, config.disp, v) /\ (told = "start" => l.albums = <<>>)
  <2>1. view' = ListView(l, play')[1]
    BY DEF StartPlayer
  <2> QED
    BY <1>1, <1>4, <2>1, ListViewFits
<1>6. PICK opens \in BOOLEAN : /\ opens = (config.mode = "sd" /\ l.items # <<>>)
                               /\ last' = IF opens THEN p ELSE Start
                               /\ song' = IF opens THEN "opened" ELSE "none"
  BY <1>4 DEF StartPlayer
<1>7. PICK a, b, c : /\ a = IF opens THEN DrawPlayed(l, config.disp, p.album, Start, p) ELSE "no"
                     /\ b = IF opens THEN ReadFile(l, p) ELSE "no"
                     /\ c = IF config.mode = "sd" THEN DrawList(l, config.disp, v) ELSE "no"
                     /\ astray' = FirstOf(<<told, a, b, c>>)
  BY <1>4, <1>5, <1>6, Zenon DEF StartPlayer
<1>8. u \/ PlaceFits(l, p)
  BY <1>3, <1>4
<1>9. l.items # <<>> => IsPlace(l, Start) /\ (u \/ IsPlace(l, p))
  <2>1. /\ l.items = <<>> <=> l.albums = <<>>
        /\ \A q : PlaceFits(l, q) /\ l.albums # <<>> => IsPlace(l, q)
    BY PlacesOfLists
  <2>2. PlaceFits(l, Start)
    BY DEF PlaceFits
  <2> QED
    BY <1>8, <2>1, <2>2
<1>10. Excused(astray', l, replaced, u)
  <2>1. Excused(told, l, replaced, u)
    BY <1>5, <1>8 DEF Excused, Tales
  <2>2. Excused("no", l, replaced, u)
    BY <1>1, ReadsAreExcused
  <2>3. Excused(a, l, replaced, u)
    <3>1. CASE opens
      <4>1. replaced \/ u \/ (IsPlace(l, Start) /\ IsPlace(l, p))
        BY <1>6, <1>9, <3>1
      <4>2. Excused(DrawPlayed(l, config.disp, p.album, Start, p), l, replaced, u)
        BY <1>1, <4>1, ReadsAreExcused
      <4> QED
        BY <1>7, <3>1, <4>2
    <3>2. CASE ~ opens
      BY <1>7, <2>2, <3>2
    <3> QED
      BY <3>1, <3>2
  <2>4. Excused(b, l, replaced, u)
    <3>1. CASE opens
      <4>1. u \/ l.items = <<>> \/ IsPlace(l, p)
        BY <1>9
      <4>2. Excused(ReadFile(l, p), l, replaced, u)
        BY <1>1, <4>1, ReadsAreExcused
      <4> QED
        BY <1>7, <3>1, <4>2
    <3>2. CASE ~ opens
      BY <1>7, <2>2, <3>2
    <3> QED
      BY <3>1, <3>2
  <2>5. Excused(c, l, replaced, u)
    <3>1. u \/ ShownFits(l, config.disp, v)
      BY <1>1, <1>5, <1>8, ViewIsShown
    <3>2. Excused(DrawList(l, config.disp, v), l, replaced, u)
      BY <1>1, <3>1, ReadsAreExcused
    <3> QED
      BY <1>7, <2>2, <3>2
  <2>6. Excused(FirstOf(<<told, a, b, c>>), l, replaced, u)
    BY <2>1, <2>3, <2>4, <2>5, FirstIsExcused
  <2> QED
    BY <1>7, <2>6, Zenon
<1>11. astray' = "no" /\ musicplay_mode' = "sd" => ShownFits(l, config.disp, v)
  <2>1. FirstOf(<<told, a, b, c>>)
          = IF told # "no" THEN told ELSE IF a # "no" THEN a ELSE IF b # "no" THEN b ELSE c
    BY FirstOfFour
  <2>2. astray' = "no" => c = "no"
    BY <1>7, <2>1
  <2>3. DrawList(l, config.disp, v) = "no" => ShownFits(l, config.disp, v)
    BY DEF DrawList, ShownFits
  <2> QED
    BY <1>2, <1>7, <2>2, <2>3
<1>12. StoryFits'
  <2>1. Excused(astray', lists', replaced', unbacked')
    BY <1>2, <1>4, <1>10
  <2>2. unbacked' \/ PlaceFits(lists', play')
    BY <1>2, <1>3
  <2>3. unbacked' \/ PlaceFits(lists', last')
    BY <1>2, <1>4, <1>6, <1>8 DEF PlaceFits
  <2>4. unbacked' \/ ViewFits(lists', sd_disp_mode', view')
    BY <1>2, <1>4, <1>5, <1>8
  <2>5. astray' = "no" /\ musicplay_mode' = "sd" => ShownFits(lists', sd_disp_mode', view')
    BY <1>2, <1>5, <1>11
  <2>6. view' = [select |-> view'.select, count |-> view'.count, item |-> view'.item]
    BY <1>5
  <2>7. song' # "none" => HasSongs'
    BY <1>2, <1>6 DEF HasSongs
  <2> QED
    BY <2>1, <2>2, <2>3, <2>4, <2>5, <2>6, <2>7 DEF StoryFits
<1>13. IsSaved(config') /\ failures' \in 0..MaxFailures
  <2>1. CASE config' = config /\ failures' = failed
    BY <1>1, <2>1
  <2>2. CASE SaveConfig(failed)
    BY <1>1, <1>2, <1>3, <2>2, SavesWhatFits
  <2> QED
    BY <2>1, <2>2 DEF StartPlayer
<1>14. KindsFit'
  BY <1>1, <1>2, <1>3, <1>6, <1>13 DEF MusicListFits, KindsFit
<1> QED
  BY <1>2, <1>12, <1>13, <1>14 DEF MusicListFits

\* A CRC that is not of all pieces of some lists.
IsOtherCrc(crc) == \A k \in Lists : crc # Pieces(k)

\* What save_filelist() leaves.
LEMMA SavingLeaves ==
    ASSUME KindsFit, IsCutList(info), NEW l \in GoodLists, NEW saved \in SaveFilelist(l)
    PROVE  /\ IsCutList(saved.info) /\ saved.failures \in 0..MaxFailures
           /\ saved.crc = Pieces(l) \/ IsOtherCrc(saved.crc)
<1>1. l \in Lists /\ failures \in 0..MaxFailures /\ MaxFailures \in Nat
  BY MusicListAssumption DEF GoodLists, KindsFit
<1>2. \A k \in Lists : Len(Pieces(k)) \in Nat /\ Len(Pieces(k)) >= 3
  BY CutsAreLeft
<1>3. ASSUME NEW crc, NEW n \in {0, 1}, Len(crc) = n
      PROVE  IsOtherCrc(crc)
  BY <1>2, <1>3 DEF IsOtherCrc
<1>4. PICK N \in Nat : N = Len(Pieces(l)) /\ N >= 3
  BY <1>1, <1>2
<1>5. CASE saved = [info |-> Whole(l), crc |-> Pieces(l), failures |-> failures]
  <2>1. saved.info = Whole(l) /\ saved.crc = Pieces(l) /\ saved.failures = failures
    BY <1>5
  <2>2. IsCut(Whole(l), l, N + 1) /\ N + 1 \in 0..(N + 1)
    <3>1. IsCut(Whole(l), l, Len(Pieces(l)) + 1)
      BY <1>1, CutsAreLeft
    <3>2. N + 1 \in 0..(N + 1)
      OBVIOUS
    <3> QED
      BY <1>4, <3>1, <3>2, Zenon
  <2>3. IsCutList(Whole(l))
    BY <1>4, <2>2, Zenon DEF IsCutList
  <2> QED
    BY <1>1, <2>1, <2>3
<1>6. CASE /\ failures # MaxFailures
           /\ \E left \in {info, <<>>} : saved = [info |-> left, crc |-> <<>>, failures |-> failures + 1]
  <2>1. PICK left \in {info, <<>>} : saved = [info |-> left, crc |-> <<>>, failures |-> failures + 1]
    BY <1>6
  <2>2. saved.info = left /\ saved.crc = <<>> /\ saved.failures = failures + 1
    BY <2>1
  <2>3. IsCutList(<<>>)
    <3>1. IsCut(<<>>, l, 0) /\ 0 \in 0..(N + 1)
      BY <1>1, CutsAreLeft
    <3> QED
      BY <1>4, <3>1, Zenon DEF IsCutList
  <2>4. IsOtherCrc(<<>>)
    <3>1. Len(<<>>) = 0
      OBVIOUS
    <3> QED
      BY <1>3, <3>1
  <2>5. failures + 1 \in 0..MaxFailures
    BY <1>1, <1>6
  <2>6. IsCutList(left)
    BY <2>1, <2>3
  <2> QED
    BY <2>2, <2>4, <2>5, <2>6, Zenon
<1>7. CASE /\ failures # MaxFailures
           /\ \E n \in {1, Len(Pieces(l))} :
                saved = [info |-> SubSeq(Pieces(l), 1, n), crc |-> SubSeq(Pieces(l), 1, n),
                         failures |-> failures + 1]
  <2>1. PICK n \in {1, Len(Pieces(l))} :
           saved = [info |-> SubSeq(Pieces(l), 1, n), crc |-> SubSeq(Pieces(l), 1, n),
                    failures |-> failures + 1]
    BY <1>7
  <2>2. PICK f : f = SubSeq(Pieces(l), 1, n)
    OBVIOUS
  <2>3. saved.info = f /\ saved.crc = f /\ saved.failures = failures + 1
    BY <2>1, <2>2
  <2>4. n \in 0..N /\ n \in 0..(N + 1)
    <3>1. n = 1 \/ n = N
      BY <1>4, <2>1
    <3>2. N >= 3
      BY <1>4
    <3> QED
      BY <3>1, <3>2
  <2>5. \A m \in 0..Len(Pieces(l)) : IsCut(SubSeq(Pieces(l), 1, m), l, m) /\ Len(SubSeq(Pieces(l), 1, m)) = m
    BY <1>1, CutsAreLeft
  <2>6. IsCut(f, l, n) /\ Len(f) = n
    BY <1>4, <2>2, <2>4, <2>5, Zenon
  <2>7. IsCutList(f)
    BY <1>4, <2>4, <2>6, Zenon DEF IsCutList
  <2>8. f = Pieces(l) \/ IsOtherCrc(f)
    <3>1. CASE n = 1
      BY <1>3, <2>6, <3>1
    <3>2. CASE n = Len(Pieces(l))
      <4>1. SubSeq(Pieces(l), 1, Len(Pieces(l))) = Pieces(l)
        BY <1>1, CutsAreLeft
      <4> QED
        BY <2>2, <3>2, <4>1, Zenon
    <3> QED
      BY <2>1, <3>1, <3>2
  <2>9. failures + 1 \in 0..MaxFailures
    BY <1>1, <1>7
  <2> QED
    BY <2>3, <2>7, <2>8, <2>9, Zenon
<1> QED
  BY <1>5, <1>6, <1>7 DEF SaveFilelist

\* A start that loads the lists that were saved.
LEMMA StartLoadsFits ==
    ASSUME MusicListFits, StartLoads
    PROVE  MusicListFits'
<1>1. PICK l \in GoodLists : \E n \in 0..(Len(Pieces(l)) + 1) : IsCut(info, l, n)
  BY DEF MusicListFits, IsCutList
<1>2. PICK n \in 0..(Len(Pieces(l)) + 1) : IsCut(info, l, n)
  BY <1>1
<1>3. l \in Lists
  BY DEF GoodLists
<1>4. PICK whole \in BOOLEAN : whole = (n = Len(Pieces(l)) + 1 /\ l.radio_count = l.radios)
  OBVIOUS
<1>5. PICK read : read = LoadFilelist(info) /\ read.ok = whole /\ read.lists = IF whole THEN l ELSE NoLists
  <2>1. LoadFilelist(info) = [ok |-> n = Len(Pieces(l)) + 1 /\ l.radio_count = l.radios,
             lists |-> IF n = Len(Pieces(l)) + 1 /\ l.radio_count = l.radios THEN l ELSE NoLists]
    BY <1>2, <1>3, CutsLoad, Zenon
  <2>2. LoadFilelist(info) = [ok |-> whole, lists |-> IF whole THEN l ELSE NoLists]
    BY <1>4, <2>1, Zenon
  <2>3. PICK read : read = LoadFilelist(info) /\ read = [ok |-> whole, lists |-> IF whole THEN l ELSE NoLists]
    BY <2>2
  <2>4. read.ok = whole /\ read.lists = IF whole THEN l ELSE NoLists
    BY <2>3
  <2> QED
    BY <2>3, <2>4
<1>6. /\ minfo_crc' = IF read.ok THEN Pieces(read.lists) ELSE <<>>
      /\ StartPlayer(read.lists, failures) /\ info' = info
  BY <1>5, Zenon DEF StartLoads
<1>7. read.lists \in GoodLists
  BY <1>5, NoListsFit
<1>8. minfo_crc' = Pieces(read.lists) \/ \A k \in Lists : minfo_crc' # Pieces(k)
  <2>1. \A k \in Lists : <<>> # Pieces(k)
    <3>1. ASSUME NEW k \in Lists
          PROVE  <<>> # Pieces(k)
      <4>1. Len(Pieces(k)) \in Nat /\ Len(Pieces(k)) >= 3
        BY CutsAreLeft
      <4>2. Len(<<>>) = 0
        OBVIOUS
      <4> QED
        BY <4>1, <4>2
    <3> QED
      BY <3>1
  <2> QED
    BY <1>6, <2>1, Zenon
<1>9. IsCutList(info') /\ failures \in 0..MaxFailures
  <2>1. IsCutList(info) /\ failures \in 0..MaxFailures
    BY DEF MusicListFits, KindsFit
  <2> QED
    BY <1>6, <2>1
<1> QED
  BY <1>6, <1>7, <1>8, <1>9, StartFits

\* A start that searches the card.
LEMMA StartCreatesFits ==
    ASSUME MusicListFits, StartCreates
    PROVE  MusicListFits'
<1>1. KindsFit /\ IsCutList(info) /\ lists \in GoodLists /\ files \in CardContents
  BY DEF MusicListFits, KindsFit
<1>2. PICK l \in GoodLists : l = CreateFilelist
  <2>1. lists.radio_count \in Nat
    BY <1>1 DEF GoodLists, Lists
  <2> QED
    BY <1>1, <2>1, FoundFits
<1>3. PICK saved \in SaveFilelist(l) :
         info' = saved.info /\ minfo_crc' = saved.crc /\ StartPlayer(l, saved.failures)
  BY <1>2, Zenon DEF StartCreates
<1>4. /\ IsCutList(saved.info) /\ saved.failures \in 0..MaxFailures
      /\ saved.crc = Pieces(l) \/ \A k \in Lists : saved.crc # Pieces(k)
  BY <1>1, SavingLeaves DEF IsOtherCrc
<1>5. IsCutList(info') /\ (minfo_crc' = Pieces(l) \/ \A k \in Lists : minfo_crc' # Pieces(k))
  BY <1>3, <1>4, Zenon
<1> QED
  BY <1>3, <1>4, <1>5, StartFits

\* The power goes off: what is on the card and in the other storage stays.
LEMMA PowerOffFits ==
    ASSUME MusicListFits, PowerOff
    PROVE  MusicListFits'
<1>1. /\ KindsFit /\ IsCutList(info) /\ IsSaved(config)
  BY DEF MusicListFits
<1>2. /\ lists' = NoLists /\ play' = Start /\ view' = NoView /\ last' = Start /\ song' = "none"
      /\ astray' = "no" /\ replaced' = FALSE /\ unbacked' = FALSE /\ info' = info /\ config' = config
      /\ musicplay_mode' = "sd" /\ sd_disp_mode' = "info"
  BY DEF PowerOff, cardVars
<1>3. KindsFit'
  BY <1>1 DEF KindsFit, PowerOff, cardVars, Modes
<1>4. StoryFits'
  <2>1. NoView = [select |-> 0, count |-> 0, item |-> 0]
    BY DEF NoView
  <2>2. view'.select = 0 /\ view'.count = 0 /\ view'.item = 0
        /\ view' = [select |-> view'.select, count |-> view'.count, item |-> view'.item]
    BY <1>2, <2>1
  <2>3. NoLists.albums = <<>>
    BY DEF NoLists
  <2>4. Excused(astray', lists', replaced', unbacked')
    BY <1>2 DEF Excused, Tales
  <2>5. PlaceFits(lists', play') /\ PlaceFits(lists', last')
    BY <1>2 DEF PlaceFits
  <2>6. ViewFits(lists', sd_disp_mode', view')
    BY <1>2, <2>2, <2>3 DEF ViewFits
  <2>7. ShownFits(lists', sd_disp_mode', view')
    BY <2>2 DEF ShownFits
  <2> QED
    BY <1>2, <2>2, <2>4, <2>5, <2>6, <2>7 DEF StoryFits
<1> QED
  BY <1>1, <1>2, <1>3, <1>4, NoListsFit DEF MusicListFits

\* Other files are put on the card.
LEMMA ChangeFilesFits ==
    ASSUME MusicListFits, ChangeFiles
    PROVE  MusicListFits'
<1>1. KindsFit'
  BY DEF MusicListFits, KindsFit, ChangeFiles, viewVars, listVars
<1>2. StoryFits'
  <2>1. /\ lists' = lists /\ play' = play /\ view' = view /\ last' = last /\ song' = song
        /\ astray' = astray /\ replaced' = replaced /\ unbacked' = unbacked
        /\ musicplay_mode' = musicplay_mode /\ sd_disp_mode' = sd_disp_mode
    BY DEF ChangeFiles, viewVars, listVars
  <2>2. StoryFits
    BY DEF MusicListFits
  <2> QED
    BY <2>1, <2>2 DEF StoryFits, HasSongs
<1>3. info' = info /\ config' = config /\ lists' = lists
  BY DEF ChangeFiles, listVars
<1> QED
  BY <1>1, <1>2, <1>3 DEF MusicListFits

\* A step that leaves the lists, and what it saves of the place.
LEMMA SavedFits ==
    ASSUME MusicListFits, StoryFits', files' = files, info' = info, lists' = lists,
           replaced' = replaced, unbacked' = unbacked,
           (config' = config /\ failures' = failures) \/ SaveConfig(failures),
           sdmusicplay_status' \in {"notready", "opened", "play", "stop"},
           musicplay_mode' \in {"sd", "radio"}, sd_disp_mode' \in Modes,
           song' \in {"none", "opened", "ready"}
    PROVE  MusicListFits'
<1>1. KindsFit /\ lists \in GoodLists /\ IsCutList(info) /\ IsSaved(config)
  BY DEF MusicListFits
<1>2. IsSaved(config') /\ failures' \in 0..MaxFailures
  <2>1. CASE config' = config /\ failures' = failures
    BY <1>1, <2>1 DEF KindsFit
  <2>2. CASE SaveConfig(failures)
    <3>1. unbacked' \/ PlaceFits(lists', play')
      BY DEF StoryFits
    <3>2. failures \in 0..MaxFailures /\ lists' \in GoodLists /\ unbacked' \in BOOLEAN
      BY <1>1 DEF KindsFit
    <3> QED
      BY <1>1, <2>2, <3>1, <3>2, SavesWhatFits
  <2> QED
    BY <2>1, <2>2
<1>3. KindsFit'
  BY <1>1, <1>2 DEF KindsFit
<1> QED
  BY <1>1, <1>2, <1>3 DEF MusicListFits

\* A step that leaves what is shown.
LEMMA StoryStays ==
    ASSUME MusicListFits, lists' = lists, replaced' = replaced, unbacked' = unbacked,
           view' = view, sd_disp_mode' = sd_disp_mode,
           Excused(astray', lists, replaced, unbacked), unbacked \/ PlaceFits(lists, play'),
           unbacked \/ replaced \/ PlaceFits(lists, last'), song' # "none" => HasSongs,
           astray' = "no" /\ musicplay_mode' = "sd" => ShownFits(lists, sd_disp_mode, view)
    PROVE  StoryFits'
<1>1. /\ unbacked \/ replaced \/ ViewFits(lists, sd_disp_mode, view)
      /\ view = [select |-> view.select, count |-> view.count, item |-> view.item]
  BY DEF MusicListFits, StoryFits
<1> QED
  BY <1>1 DEF StoryFits, HasSongs

\* What the invariant tells of the place, what is shown and what is played.
LEMMA PlaceIs ==
    ASSUME MusicListFits
    PROVE  /\ unbacked \/ PlaceFits(lists, play)
           /\ unbacked \/ replaced \/ PlaceFits(lists, last)
           /\ song # "none" => HasSongs
           /\ astray = "no" /\ musicplay_mode = "sd" => ShownFits(lists, sd_disp_mode, view)
           /\ lists \in GoodLists /\ sd_disp_mode \in Modes
           /\ replaced \in BOOLEAN /\ unbacked \in BOOLEAN
           /\ sdmusicplay_status \in {"notready", "opened", "play", "stop"}
           /\ musicplay_mode \in {"sd", "radio"} /\ song \in {"none", "opened", "ready"}
           /\ Excused(astray, lists, replaced, unbacked)
  BY DEF MusicListFits, KindsFit, StoryFits

\* Forward, by each way to go on.
LEMMA ForwardFits ==
    ASSUME MusicListFits, Forward
    PROVE  MusicListFits'
<1>1. PICK n \in Ff(lists, play) :
         /\ OpenAt(DrawStop, play, n.to)
         /\ sdmusicplay_status' = IF n.ends THEN "stop" ELSE sdmusicplay_status
  BY DEF Forward
<1>2. /\ astray = "no" /\ HasSongs
      /\ files' = files /\ info' = info /\ config' = config /\ failures' = failures
      /\ lists' = lists /\ musicplay_mode' = musicplay_mode /\ sd_disp_mode' = sd_disp_mode
      /\ view' = view /\ replaced' = replaced /\ unbacked' = unbacked
  BY DEF Forward, OnCard, Live, cardVars, listVars
<1>3. lists \in GoodLists /\ (unbacked \/ IsPlace(lists, play)) /\ Excused(DrawStop, lists, replaced, unbacked)
  BY <1>2, PlaceIs, WhereItIs
<1>4. unbacked \/ IsPlace(lists, n.to)
  BY <1>3, PlacesLeadOn
<1>5. StoryFits' /\ song' = "opened"
  BY <1>1, <1>2, <1>3, <1>4, OpenAtFits
<1> QED
  BY <1>1, <1>2, <1>5, PlaceIs, SavedFits

\* Back.
LEMMA BackwardFits ==
    ASSUME MusicListFits, Backward
    PROVE  MusicListFits'
<1>1. /\ astray = "no" /\ HasSongs /\ OpenAt(DrawStop, play, Fr(lists, play))
      /\ files' = files /\ info' = info /\ config' = config /\ failures' = failures
      /\ lists' = lists /\ musicplay_mode' = musicplay_mode /\ sd_disp_mode' = sd_disp_mode
      /\ view' = view /\ replaced' = replaced /\ unbacked' = unbacked
      /\ sdmusicplay_status' = sdmusicplay_status
  BY DEF Backward, OnCard, Live, cardVars, listVars
<1>2. lists \in GoodLists /\ (unbacked \/ IsPlace(lists, play)) /\ Excused(DrawStop, lists, replaced, unbacked)
  BY <1>1, PlaceIs, WhereItIs
<1>3. unbacked \/ IsPlace(lists, Fr(lists, play))
  BY <1>2, PlacesLeadOn
<1>4. StoryFits' /\ song' = "opened"
  BY <1>1, <1>2, <1>3, OpenAtFits
<1> QED
  BY <1>1, <1>4, PlaceIs, SavedFits

\* The song has ended, and the next one is opened.
LEMMA SoundEndFits ==
    ASSUME MusicListFits, SoundEnd
    PROVE  MusicListFits'
<1>1. PICK n \in Ff(lists, play) :
         /\ OpenAt("no", last, n.to)
         /\ sdmusicplay_status' = IF n.ends THEN "stop" ELSE "play"
  BY DEF SoundEnd
<1>2. /\ astray = "no" /\ song = "ready"
      /\ files' = files /\ info' = info /\ config' = config /\ failures' = failures
      /\ lists' = lists /\ musicplay_mode' = musicplay_mode /\ sd_disp_mode' = sd_disp_mode
      /\ view' = view /\ replaced' = replaced /\ unbacked' = unbacked
  BY DEF SoundEnd, OnCard, Live, cardVars, listVars
<1>3. HasSongs
  BY <1>2, PlaceIs
<1>4. /\ lists \in GoodLists /\ (unbacked \/ IsPlace(lists, play))
      /\ unbacked \/ replaced \/ IsPlace(lists, last)
      /\ Excused("no", lists, replaced, unbacked)
  BY <1>2, <1>3, PlaceIs, WhereItIs
<1>5. unbacked \/ IsPlace(lists, n.to)
  BY <1>4, PlacesLeadOn
<1>6. StoryFits' /\ song' = "opened"
  BY <1>1, <1>2, <1>3, <1>4, <1>5, OpenAtFits
<1> QED
  BY <1>1, <1>2, <1>6, PlaceIs, SavedFits

\* The song starts.
LEMMA SoundStartFits ==
    ASSUME MusicListFits, SoundStart
    PROVE  MusicListFits'
<1>1. /\ last' = play /\ astray' = DrawStop /\ astray = "no" /\ musicplay_mode = "sd"
      /\ files' = files /\ info' = info /\ config' = config /\ failures' = failures
      /\ lists' = lists /\ musicplay_mode' = musicplay_mode /\ sd_disp_mode' = sd_disp_mode
      /\ view' = view /\ replaced' = replaced /\ unbacked' = unbacked
      /\ play' = play /\ song' = song /\ sdmusicplay_status' = sdmusicplay_status
  BY DEF SoundStart, OnCard, Live, cardVars, listVars
<1>2. Excused(DrawStop, lists, replaced, unbacked)
  BY WhereItIs
<1>3. StoryFits'
  BY <1>1, <1>2, PlaceIs, StoryStays
<1> QED
  BY <1>1, <1>3, PlaceIs, SavedFits

\* The button that plays and pauses.
LEMMA PlayPauseFits ==
    ASSUME MusicListFits, PlayPause
    PROVE  MusicListFits'
<1>1. /\ astray = "no" /\ musicplay_mode = "sd"
      /\ files' = files /\ info' = info /\ SaveConfig(failures)
      /\ lists' = lists /\ musicplay_mode' = musicplay_mode /\ sd_disp_mode' = sd_disp_mode
      /\ view' = view /\ replaced' = replaced /\ unbacked' = unbacked
      /\ play' = play /\ song' = song
  BY DEF PlayPause, OnCard, Live, cardVars, listVars
<1>2. /\ sdmusicplay_status' \in {"notready", "opened", "play", "stop"}
      /\ last' \in {play, last} /\ astray' \in {DrawStop, astray}
  BY DEF PlayPause
<1>3. Excused(DrawStop, lists, replaced, unbacked)
  BY WhereItIs
<1>4. StoryFits'
  BY <1>1, <1>2, <1>3, PlaceIs, StoryStays
<1> QED
  BY <1>1, <1>2, <1>4, PlaceIs, SavedFits

\* The song is prepared.
LEMMA SoundPreparedFits ==
    ASSUME MusicListFits, SoundPrepared
    PROVE  MusicListFits'
<1>1. /\ astray = "no" /\ musicplay_mode = "sd" /\ song = "opened"
      /\ files' = files /\ info' = info /\ SaveConfig(failures)
      /\ lists' = lists /\ musicplay_mode' = musicplay_mode /\ sd_disp_mode' = sd_disp_mode
      /\ view' = view /\ replaced' = replaced /\ unbacked' = unbacked
      /\ play' = play /\ last' = last /\ astray' = astray /\ song' = "ready"
      /\ sdmusicplay_status' \in {"play", "opened"}
  BY DEF SoundPrepared, OnCard, Live, cardVars, listVars, viewVars
<1>2. StoryFits'
  BY <1>1, PlaceIs, StoryStays
<1> QED
  BY <1>1, <1>2, PlaceIs, SavedFits

\* The radio is turned on.
LEMMA ToRadioFits ==
    ASSUME MusicListFits, ToRadio
    PROVE  MusicListFits'
<1>1. /\ astray' = DrawStop /\ musicplay_mode' = "radio" /\ song' = "none" /\ last' \in {play, last}
      /\ files' = files /\ info' = info /\ SaveConfig(failures)
      /\ lists' = lists /\ sd_disp_mode' = sd_disp_mode
      /\ view' = view /\ replaced' = replaced /\ unbacked' = unbacked
      /\ play' = play /\ sdmusicplay_status' = sdmusicplay_status
  BY DEF ToRadio, cardVars, listVars
<1>2. Excused(DrawStop, lists, replaced, unbacked)
  BY WhereItIs
<1>3. StoryFits'
  BY <1>1, <1>2, PlaceIs, StoryStays
<1> QED
  BY <1>1, <1>3, PlaceIs, SavedFits

\* Back to the music of the card.
LEMMA ToCardFits ==
    ASSUME MusicListFits, ToCard
    PROVE  MusicListFits'
<1>1. /\ musicplay_mode' = "sd" /\ song' = (IF HasSongs THEN "opened" ELSE "none")
      /\ last' \in {play, last}
      /\ files' = files /\ info' = info /\ SaveConfig(failures)
      /\ lists' = lists /\ sd_disp_mode' = sd_disp_mode
      /\ view' = view /\ replaced' = replaced /\ unbacked' = unbacked
      /\ play' = play /\ sdmusicplay_status' = sdmusicplay_status
  BY DEF ToCard, cardVars, listVars
<1>2. PICK a, b, c : /\ a = DrawStop /\ b = ReadFile(lists, play)
                     /\ c = DrawList(lists, sd_disp_mode, view)
                     /\ astray' = FirstOf(<<a, b, c>>)
  BY DEF ToCard
<1>3. /\ lists \in GoodLists /\ sd_disp_mode \in Modes /\ replaced \in BOOLEAN /\ unbacked \in BOOLEAN
  BY PlaceIs
<1>4. Excused(a, lists, replaced, unbacked)
  BY <1>2, WhereItIs
<1>5. Excused(b, lists, replaced, unbacked)
  <2>1. unbacked \/ lists.items = <<>> \/ IsPlace(lists, play)
    BY WhereItIs DEF HasSongs
  <2> QED
    BY <1>2, <1>3, <2>1, ReadsAreExcused
<1>6. Excused(c, lists, replaced, unbacked)
  <2>1. replaced \/ unbacked \/ ShownFits(lists, sd_disp_mode, view)
    BY WhereItIs
  <2> QED
    BY <1>2, <1>3, <2>1, ReadsAreExcused
<1>7. Excused(astray', lists, replaced, unbacked)
  <2>1. Excused(FirstOf(<<a, b, c>>), lists, replaced, unbacked)
    BY <1>4, <1>5, <1>6, FirstIsExcused
  <2> QED
    BY <1>2, <2>1, Zenon
<1>8. astray' = "no" => ShownFits(lists, sd_disp_mode, view)
  <2>1. FirstOf(<<a, b, c>>) = IF a # "no" THEN a ELSE IF b # "no" THEN b ELSE c
    BY FirstOfThree
  <2>2. astray' = "no" => c = "no"
    BY <1>2, <2>1
  <2>3. DrawList(lists, sd_disp_mode, view) = "no" => ShownFits(lists, sd_disp_mode, view)
    BY DEF DrawList, ShownFits
  <2> QED
    BY <1>2, <2>2, <2>3
<1>9. StoryFits'
  <2>1. /\ unbacked \/ PlaceFits(lists, play')
        /\ unbacked \/ replaced \/ PlaceFits(lists, last')
    BY <1>1, PlaceIs
  <2>2. song' # "none" => HasSongs
    BY <1>1
  <2> QED
    BY <1>1, <1>7, <1>8, <2>1, <2>2, StoryStays
<1>10. song' \in {"none", "opened", "ready"} /\ sdmusicplay_status' \in {"notready", "opened", "play", "stop"}
  BY <1>1, PlaceIs
<1> QED
  BY <1>1, <1>3, <1>9, <1>10, SavedFits

\* The settings as they were at first.
LEMMA InitSettingsFits ==
    ASSUME MusicListFits, InitSettings
    PROVE  MusicListFits'
<1>1. /\ musicplay_mode' = "sd" /\ sd_disp_mode' = "info" /\ play' = Start
      /\ song' = (IF HasSongs THEN "opened" ELSE "none")
      /\ last' \in {Start, last}
      /\ files' = files /\ info' = info /\ SaveConfig(failures)
      /\ lists' = lists /\ view' = view /\ replaced' = replaced /\ unbacked' = unbacked
      /\ sdmusicplay_status' \in {"stop", sdmusicplay_status}
  BY DEF InitSettings, Reset, cardVars, listVars
<1>2. PICK a, b : /\ a = IF musicplay_mode = "sd" THEN DrawStop ELSE "no"
                  /\ b = ReadFile(lists, Start) /\ astray' = FirstOf(<<a, b>>)
  BY DEF InitSettings
<1>3. lists \in GoodLists /\ sd_disp_mode \in Modes /\ replaced \in BOOLEAN /\ unbacked \in BOOLEAN
  BY PlaceIs
<1>4. Excused(a, lists, replaced, unbacked)
  <2>1. Excused(DrawStop, lists, replaced, unbacked) /\ Excused("no", lists, replaced, unbacked)
    BY <1>3, WhereItIs, ReadsAreExcused
  <2> QED
    BY <1>2, <2>1
<1>5. Excused(b, lists, replaced, unbacked)
  <2>1. lists.items = <<>> \/ IsPlace(lists, Start)
    BY WhereItIs DEF HasSongs
  <2> QED
    BY <1>2, <1>3, <2>1, ReadsAreExcused
<1>6. Excused(astray', lists, replaced, unbacked)
  <2>1. Excused(FirstOf(<<a, b>>), lists, replaced, unbacked)
    BY <1>4, <1>5, FirstIsExcused
  <2> QED
    BY <1>2, <2>1, Zenon
<1>7. StoryFits'
  <2>1. PlaceFits(lists, Start)
    BY DEF PlaceFits
  <2>2. /\ unbacked \/ replaced \/ ViewFits(lists, sd_disp_mode, view)
        /\ view = [select |-> view.select, count |-> view.count, item |-> view.item]
    BY DEF MusicListFits, StoryFits
  <2>3. ViewFits(lists, sd_disp_mode, view) => ViewFits(lists, "info", view)
    BY DEF ViewFits
  <2>4. ShownFits(lists, "info", view)
    BY DEF ShownFits, Drawable
  <2>5. unbacked \/ replaced \/ PlaceFits(lists, last')
    BY <1>1, <2>1, PlaceIs
  <2> QED
    BY <1>1, <1>6, <2>1, <2>2, <2>3, <2>4, <2>5 DEF StoryFits, HasSongs
<1>8. song' \in {"none", "opened", "ready"} /\ sdmusicplay_status' \in {"notready", "opened", "play", "stop"}
      /\ sd_disp_mode' \in Modes
  BY <1>1, PlaceIs DEF Modes
<1> QED
  BY <1>1, <1>7, <1>8, SavedFits

\* What is shown when the list changes.
LEMMA ListButtonFits ==
    ASSUME MusicListFits, ListButton
    PROVE  MusicListFits'
<1>1. /\ astray = "no" /\ musicplay_mode = "sd" /\ musicplay_mode' = "sd"
      /\ files' = files /\ info' = info /\ SaveConfig(failures)
      /\ lists' = lists /\ replaced' = replaced /\ unbacked' = unbacked
      /\ play' = play /\ last' = last /\ song' = song /\ sdmusicplay_status' = sdmusicplay_status
  BY DEF ListButton, OnCard, Live, cardVars, listVars
<1>2. /\ lists \in GoodLists /\ replaced \in BOOLEAN /\ unbacked \in BOOLEAN
      /\ sd_disp_mode \in Modes
  BY PlaceIs
<1>3. /\ Len(lists.albums) \in Nat /\ (lists.albums = <<>> <=> Len(lists.albums) = 0)
      /\ HasSongs <=> lists.albums # <<>>
      /\ \A n \in 0..(Len(lists.albums) - 1) : TracksOf(lists, n) \in Nat \ {0}
  BY <1>2, PlacesOfLists, WhereItIs
<1>4. /\ unbacked \/ replaced \/ ViewFits(lists, sd_disp_mode, view)
      /\ view = [select |-> view.select, count |-> view.count, item |-> view.item]
  BY DEF MusicListFits, StoryFits
<1>5. ASSUME sd_disp_mode' \in Modes, astray' = DrawList(lists, sd_disp_mode', view'),
             view' = [select |-> view'.select, count |-> view'.count, item |-> view'.item],
             unbacked \/ replaced \/ ViewFits(lists, sd_disp_mode', view')
      PROVE  StoryFits'
  <2>1. PICK v \in {view'}, disp \in {sd_disp_mode'} : v = view' /\ disp = sd_disp_mode'
    OBVIOUS
  <2>2. unbacked \/ replaced \/ ShownFits(lists, disp, v)
    BY <1>2, <1>5, <2>1, ViewIsShown
  <2>3. Excused(DrawList(lists, disp, v), lists, replaced, unbacked)
    BY <1>2, <1>5, <2>1, <2>2, ReadsAreExcused
  <2>4. DrawList(lists, disp, v) = "no" => ShownFits(lists, disp, v)
    BY DEF DrawList, ShownFits
  <2>5. /\ Excused(astray', lists, replaced, unbacked)
        /\ astray' = "no" => ShownFits(lists, sd_disp_mode', view')
    BY <1>5, <2>1, <2>3, <2>4
  <2> QED
    BY <1>1, <1>5, <2>5, PlaceIs DEF StoryFits, HasSongs
<1>6. ASSUME sd_disp_mode = "info"
      PROVE  StoryFits'
  <2>1. /\ sd_disp_mode' = "album" /\ view' = AlbumView /\ astray' = DrawList(lists, "album", view')
    BY <1>6 DEF ListButton
  <2>2. sd_disp_mode' \in Modes /\ astray' = DrawList(lists, sd_disp_mode', view')
    BY <2>1, Zenon DEF Modes
  <2>3. CASE lists.albums = <<>>
    <3>1. view' = view
      BY <2>1, <2>3 DEF AlbumView
    <3>2. ViewFits(lists, sd_disp_mode, view) => ViewFits(lists, sd_disp_mode', view')
      BY <2>3, <3>1 DEF ViewFits
    <3>3. view' = [select |-> view'.select, count |-> view'.count, item |-> view'.item]
      BY <1>4, <3>1
    <3> QED
      BY <1>4, <1>5, <2>2, <3>2, <3>3
  <2>4. CASE lists.albums # <<>>
    <3>1. view' = [view EXCEPT !.count = Len(lists.albums), !.item = view.select]
      BY <2>1, <2>4 DEF AlbumView
    <3>2. view' = [select |-> view.select, count |-> Len(lists.albums), item |-> view.select]
      BY <1>4, <3>1
    <3>3. view'.select = view.select /\ view'.count = Len(lists.albums) /\ view'.item = view.select
          /\ view' = [select |-> view'.select, count |-> view'.count, item |-> view'.item]
      BY <3>2
    <3>4. ViewFits(lists, sd_disp_mode, view) => ViewFits(lists, sd_disp_mode', view')
      BY <2>1, <2>4, <3>3 DEF ViewFits, IsAlbum
    <3> QED
      BY <1>4, <1>5, <2>2, <3>3, <3>4
  <2> QED
    BY <2>3, <2>4
<1>7. ASSUME sd_disp_mode = "album"
      PROVE  StoryFits'
  <2>1. /\ sd_disp_mode' = "music" /\ view' = MusicView
        /\ astray' = IF HasSongs /\ ~ IsAlbum(lists, view.select) THEN "draw"
                     ELSE DrawList(lists, "music", view')
    BY <1>7 DEF ListButton
  <2>2. sd_disp_mode' \in Modes
    BY <2>1 DEF Modes
  <2>3. CASE HasSongs /\ ~ IsAlbum(lists, view.select)
    <3>1. astray' = "draw" /\ view' = view
      BY <2>1, <2>3 DEF MusicView
    <3>2. unbacked \/ replaced
      BY <1>3, <1>4, <2>3 DEF ViewFits
    <3>3. Excused(astray', lists, replaced, unbacked)
      BY <3>1, <3>2 DEF Excused, Tales
    <3>4. unbacked \/ replaced \/ ViewFits(lists', sd_disp_mode', view')
      BY <3>2
    <3> QED
      BY <1>1, <1>4, <3>1, <3>2, <3>3, PlaceIs DEF StoryFits, HasSongs
  <2>4. CASE ~ HasSongs
    <3>1. view' = view /\ astray' = DrawList(lists, sd_disp_mode', view')
      BY <2>1, <2>4 DEF MusicView
    <3>2. ViewFits(lists, sd_disp_mode, view) => ViewFits(lists, sd_disp_mode', view')
      BY <1>3, <2>4, <3>1 DEF ViewFits
    <3>3. view' = [select |-> view'.select, count |-> view'.count, item |-> view'.item]
      BY <1>4, <3>1
    <3> QED
      BY <1>4, <1>5, <2>2, <3>1, <3>2, <3>3
  <2>5. CASE HasSongs /\ IsAlbum(lists, view.select)
    <3>1. view' = [view EXCEPT !.count = TracksOf(lists, view.select), !.item = 0]
          /\ astray' = DrawList(lists, sd_disp_mode', view')
      BY <2>1, <2>5 DEF MusicView
    <3>2. view' = [select |-> view.select, count |-> TracksOf(lists, view.select), item |-> 0]
      BY <1>4, <3>1
    <3>3. view'.select = view.select /\ view'.count = TracksOf(lists, view.select) /\ view'.item = 0
          /\ view' = [select |-> view'.select, count |-> view'.count, item |-> view'.item]
      BY <3>2
    <3>4. PICK T \in Nat \ {0} : T = TracksOf(lists, view.select)
      BY <1>3, <2>5 DEF IsAlbum
    <3>5. ViewFits(lists, sd_disp_mode', view')
      <4>1. 0 \in 0..(T - 1)
        OBVIOUS
      <4> QED
        BY <1>3, <2>1, <2>5, <3>3, <3>4, <4>1 DEF ViewFits
    <3> QED
      BY <1>5, <2>2, <3>1, <3>3, <3>5
  <2> QED
    BY <2>3, <2>4, <2>5
<1>8. ASSUME sd_disp_mode = "music"
      PROVE  StoryFits'
  <2>1. sd_disp_mode' = "info" /\ view' = view /\ astray' = astray
    BY <1>8 DEF ListButton
  <2>2. ViewFits(lists, sd_disp_mode, view) => ViewFits(lists, "info", view)
    BY DEF ViewFits
  <2>3. ShownFits(lists, "info", view)
    BY DEF ShownFits, Drawable
  <2> QED
    BY <1>1, <1>4, <2>1, <2>2, <2>3, PlaceIs DEF StoryFits, HasSongs
<1>9. StoryFits'
  BY <1>2, <1>6, <1>7, <1>8 DEF Modes
<1>10. sd_disp_mode' \in Modes
  BY <1>2, <1>6, <1>7, <1>8 DEF Modes, ListButton
<1> QED
  BY <1>1, <1>9, <1>10, PlaceIs, SavedFits

\* The selected item moves.
LEMMA ListKeyFits ==
    ASSUME MusicListFits, ListKey
    PROVE  MusicListFits'
<1>1. /\ astray = "no" /\ musicplay_mode = "sd" /\ sd_disp_mode # "info"
      /\ files' = files /\ info' = info /\ config' = config /\ failures' = failures
      /\ lists' = lists /\ musicplay_mode' = musicplay_mode /\ sd_disp_mode' = sd_disp_mode
      /\ replaced' = replaced /\ unbacked' = unbacked
      /\ play' = play /\ last' = last /\ song' = song /\ sdmusicplay_status' = sdmusicplay_status
  BY DEF ListKey, OnCard, Live, cardVars, listVars
<1>2. PICK n \in {view.item - 1, view.item + 1} :
         /\ n >= 0 /\ (n > view.item => n < view.count)
         /\ view' = [view EXCEPT !.item = n]
         /\ astray' = FirstOf(<<DrawItem(lists, sd_disp_mode, view.select, view.item),
                                DrawItem(lists, sd_disp_mode, view.select, n)>>)
  BY DEF ListKey
<1>3. /\ lists \in GoodLists /\ replaced \in BOOLEAN /\ unbacked \in BOOLEAN
      /\ sd_disp_mode \in Modes /\ ShownFits(lists, sd_disp_mode, view)
  BY <1>1, PlaceIs
<1>4. /\ unbacked \/ replaced \/ ViewFits(lists, sd_disp_mode, view)
      /\ view = [select |-> view.select, count |-> view.count, item |-> view.item]
  BY DEF MusicListFits, StoryFits
<1>5. Len(lists.albums) \in Nat /\ \A k \in 0..(Len(lists.albums) - 1) : TracksOf(lists, k) \in Nat \ {0}
  BY <1>3, PlacesOfLists
<1>6. view' = [select |-> view.select, count |-> view.count, item |-> n]
  BY <1>2, <1>4
<1>7. view'.select = view.select /\ view'.count = view.count /\ view'.item = n
      /\ view' = [select |-> view'.select, count |-> view'.count, item |-> view'.item]
  BY <1>6
<1>8. ASSUME ViewFits(lists, sd_disp_mode, view)
      PROVE  /\ lists.albums # <<>> /\ n \in 0..(view.count - 1) /\ view.item \in 0..(view.count - 1)
             /\ ViewFits(lists, sd_disp_mode, view')
  <2>1. lists.albums # <<>>
    <3>1. CASE lists.albums = <<>>
      <4>1. view.count = 0 /\ view.item = 0
        BY <1>8, <3>1 DEF ViewFits
      <4> QED
        BY <1>2, <4>1
    <3> QED
      BY <3>1
  <2>2. PICK N \in Nat : N = view.count /\ view.item \in 0..(N - 1)
    <3>1. CASE sd_disp_mode = "album"
      BY <1>5, <1>8, <2>1, <3>1 DEF ViewFits
    <3>2. CASE sd_disp_mode = "music"
      BY <1>5, <1>8, <2>1, <3>2 DEF ViewFits, IsAlbum
    <3> QED
      BY <1>1, <1>3, <3>1, <3>2 DEF Modes
  <2>3. n \in 0..(N - 1)
    BY <1>2, <2>2
  <2>4. ViewFits(lists, sd_disp_mode, view')
    BY <1>7, <1>8, <2>1, <2>2, <2>3 DEF ViewFits
  <2> QED
    BY <2>1, <2>2, <2>3, <2>4
<1>9. PICK a, b : /\ a = DrawItem(lists, sd_disp_mode, view.select, view.item)
                  /\ b = DrawItem(lists, sd_disp_mode, view.select, n)
                  /\ astray' = FirstOf(<<a, b>>)
  BY <1>2
<1>10. Excused(a, lists, replaced, unbacked) /\ Excused(b, lists, replaced, unbacked)
  <2>1. /\ replaced \/ unbacked \/ Drawable(lists, sd_disp_mode, view.select, view.item)
        /\ replaced \/ unbacked \/ Drawable(lists, sd_disp_mode, view.select, n)
    BY <1>3, <1>4, <1>8 DEF ShownFits
  <2> QED
    BY <1>3, <1>9, <2>1, ReadsAreExcused
<1>11. Excused(astray', lists, replaced, unbacked)
  <2>1. Excused(FirstOf(<<a, b>>), lists, replaced, unbacked)
    BY <1>10, FirstIsExcused
  <2> QED
    BY <1>9, <2>1, Zenon
<1>12. StoryFits'
  <2>1. ShownFits(lists, sd_disp_mode, view')
    BY <1>3, <1>7 DEF ShownFits
  <2>2. unbacked \/ replaced \/ ViewFits(lists, sd_disp_mode, view')
    BY <1>4, <1>8
  <2> QED
    BY <1>1, <1>7, <1>11, <2>1, <2>2, PlaceIs DEF StoryFits, HasSongs
<1> QED
  BY <1>1, <1>12, PlaceIs, SavedFits

\* An item of the list is touched.
LEMMA ListItemFits ==
    ASSUME MusicListFits, ListItem
    PROVE  MusicListFits'
<1>1. /\ astray = "no" /\ musicplay_mode = "sd" /\ sd_disp_mode # "info"
      /\ files' = files /\ info' = info /\ SaveConfig(failures)
      /\ lists' = lists /\ musicplay_mode' = musicplay_mode /\ sd_disp_mode' = sd_disp_mode
      /\ replaced' = replaced /\ unbacked' = unbacked /\ sdmusicplay_status' = sdmusicplay_status
  BY DEF ListItem, OnCard, Live, cardVars, listVars
<1>2. PICK n \in 0..(view.count - 1), plays \in BOOLEAN :
         /\ view' = [view EXCEPT !.item = n, !.select = IF sd_disp_mode = "music" THEN @ ELSE n]
         /\ LET to == IF sd_disp_mode = "music" THEN Place(view.select, n) ELSE Place(n, 0) IN
            /\ astray' = FirstOf(<<DrawItem(lists, sd_disp_mode, view.select, view.item),
                                   DrawItem(lists, sd_disp_mode, view.select, n),
                                   IF plays THEN DrawPlayed(lists, sd_disp_mode, view.select, last, to)
                                            ELSE "no",
                                   IF plays THEN ReadFile(lists, to) ELSE "no">>)
            /\ play' = IF plays THEN to ELSE play
            /\ last' = IF plays THEN to ELSE last
            /\ song' = IF plays /\ HasSongs THEN "opened" ELSE song
  BY DEF ListItem
<1>3. PICK to : to = IF sd_disp_mode = "music" THEN Place(view.select, n) ELSE Place(n, 0)
  OBVIOUS
<1>4. /\ play' = IF plays THEN to ELSE play
      /\ last' = IF plays THEN to ELSE last
      /\ song' = IF plays /\ HasSongs THEN "opened" ELSE song
  BY <1>2, <1>3
<1>5. PICK a, b, c, d : /\ a = DrawItem(lists, sd_disp_mode, view.select, view.item)
                        /\ b = DrawItem(lists, sd_disp_mode, view.select, n)
                        /\ c = IF plays THEN DrawPlayed(lists, sd_disp_mode, view.select, last, to) ELSE "no"
                        /\ d = IF plays THEN ReadFile(lists, to) ELSE "no"
                        /\ astray' = FirstOf(<<a, b, c, d>>)
  BY <1>2, <1>3, Zenon
<1>6. /\ lists \in GoodLists /\ replaced \in BOOLEAN /\ unbacked \in BOOLEAN
      /\ sd_disp_mode \in {"album", "music"} /\ sd_disp_mode \in Modes
      /\ ShownFits(lists, sd_disp_mode, view)
  BY <1>1, PlaceIs DEF Modes
<1>7. /\ unbacked \/ replaced \/ ViewFits(lists, sd_disp_mode, view)
      /\ view = [select |-> view.select, count |-> view.count, item |-> view.item]
  BY DEF MusicListFits, StoryFits
<1>8. /\ Len(lists.albums) \in Nat /\ (lists.albums = <<>> <=> Len(lists.albums) = 0)
      /\ \A k \in 0..(Len(lists.albums) - 1) : TracksOf(lists, k) \in Nat \ {0}
      /\ \A k \in 0..(Len(lists.albums) - 1) : \A t \in 0..(TracksOf(lists, k) - 1) : IsPlace(lists, Place(k, t))
  BY <1>6, PlacesOfLists
<1>9. Drawable(lists, sd_disp_mode, view.select, n)
  BY <1>2, <1>6 DEF ShownFits
<1>10. IsPlace(lists, to)
  <2>1. CASE sd_disp_mode = "music"
    BY <1>3, <1>9, <2>1 DEF Drawable
  <2>2. CASE sd_disp_mode = "album"
    <3>1. n \in 0..(Len(lists.albums) - 1)
      BY <1>9, <2>2 DEF Drawable, IsAlbum
    <3>2. 0 \in 0..(TracksOf(lists, n) - 1)
      BY <1>8, <3>1
    <3> QED
      BY <1>3, <1>8, <2>2, <3>1, <3>2
  <2> QED
    BY <1>6, <2>1, <2>2
<1>11. lists.albums # <<>>
  BY <1>8, <1>10 DEF IsPlace, IsAlbum
<1>12. HasSongs
  BY <1>11, WhereItIs
<1>13. view' = [select |-> IF sd_disp_mode = "music" THEN view.select ELSE n,
                count |-> view.count, item |-> n]
  BY <1>2, <1>7
<1>14. /\ view'.select = (IF sd_disp_mode = "music" THEN view.select ELSE n)
       /\ view'.count = view.count /\ view'.item = n
       /\ view' = [select |-> view'.select, count |-> view'.count, item |-> view'.item]
  BY <1>13
<1>15. ASSUME ViewFits(lists, sd_disp_mode, view)
       PROVE  view.item \in 0..(view.count - 1) /\ ViewFits(lists, sd_disp_mode, view')
  <2>1. CASE sd_disp_mode = "music"
    BY <1>2, <1>11, <1>14, <1>15, <2>1 DEF ViewFits
  <2>2. CASE sd_disp_mode = "album"
    BY <1>2, <1>9, <1>11, <1>14, <1>15, <2>2 DEF ViewFits, Drawable
  <2> QED
    BY <1>6, <2>1, <2>2
<1>16. /\ Excused(a, lists, replaced, unbacked) /\ Excused(b, lists, replaced, unbacked)
  <2>1. replaced \/ unbacked \/ Drawable(lists, sd_disp_mode, view.select, view.item)
    BY <1>6, <1>7, <1>15 DEF ShownFits
  <2> QED
    BY <1>5, <1>6, <1>9, <2>1, ReadsAreExcused
<1>17. /\ Excused(c, lists, replaced, unbacked) /\ Excused(d, lists, replaced, unbacked)
  <2>1. replaced \/ unbacked \/ IsPlace(lists, last)
    BY <1>12, WhereItIs
  <2>2. Excused(DrawPlayed(lists, sd_disp_mode, view.select, last, to), lists, replaced, unbacked)
    BY <1>6, <1>10, <2>1, ReadsAreExcused
  <2>3. Excused(ReadFile(lists, to), lists, replaced, unbacked) /\ Excused("no", lists, replaced, unbacked)
    BY <1>6, <1>10, ReadsAreExcused
  <2> QED
    BY <1>5, <2>2, <2>3
<1>18. Excused(astray', lists, replaced, unbacked)
  <2>1. Excused(FirstOf(<<a, b, c, d>>), lists, replaced, unbacked)
    BY <1>16, <1>17, FirstIsExcused
  <2> QED
    BY <1>5, <2>1, Zenon
<1>19. StoryFits'
  <2>1. ShownFits(lists, sd_disp_mode, view')
    <3>1. CASE sd_disp_mode = "music"
      BY <1>6, <1>14, <3>1 DEF ShownFits
    <3>2. CASE sd_disp_mode = "album"
      BY <1>6, <1>14, <3>2 DEF ShownFits, Drawable
    <3> QED
      BY <1>6, <3>1, <3>2
  <2>2. unbacked \/ replaced \/ ViewFits(lists, sd_disp_mode, view')
    BY <1>7, <1>15
  <2>3. /\ unbacked \/ PlaceFits(lists, play')
        /\ unbacked \/ replaced \/ PlaceFits(lists, last')
    BY <1>4, <1>10, PlaceIs DEF PlaceFits
  <2>4. HasSongs'
    BY <1>1, <1>12 DEF HasSongs
  <2> QED
    BY <1>1, <1>14, <1>18, <2>1, <2>2, <2>3, <2>4 DEF StoryFits
<1>20. song' \in {"none", "opened", "ready"}
  BY <1>4, PlaceIs
<1> QED
  BY <1>1, <1>19, <1>20, PlaceIs, SavedFits

\* What fits lists fits others with the same albums.
LEMMA AlbumsTell ==
    ASSUME NEW l, NEW k, l.albums = k.albums
    PROVE  /\ \A p : PlaceFits(l, p) => PlaceFits(k, p)
           /\ \A disp, v : ViewFits(l, disp, v) => ViewFits(k, disp, v)
  BY DEF PlaceFits, IsPlace, IsAlbum, ViewFits, TracksOf

\* The lists are made again while the player runs.
LEMMA SearchMusicFits ==
    ASSUME MusicListFits, SearchMusic
    PROVE  MusicListFits'
<1>1. /\ KindsFit /\ IsCutList(info) /\ IsSaved(config) /\ lists \in GoodLists /\ files \in CardContents
      /\ sd_disp_mode \in Modes /\ replaced \in BOOLEAN /\ unbacked \in BOOLEAN
  BY DEF MusicListFits, KindsFit
<1>2. PICK l \in GoodLists : l = CreateFilelist
  <2>1. lists.radio_count \in Nat
    BY <1>1 DEF GoodLists, Lists
  <2> QED
    BY <1>1, <2>1, FoundFits
<1>3. PICK saved \in SaveFilelist(l) :
         info' = saved.info /\ minfo_crc' = saved.crc /\ failures' = saved.failures
  BY <1>2, Zenon DEF SearchMusic
<1>4. IsCutList(info') /\ failures' \in 0..MaxFailures
  <2>1. IsCutList(saved.info) /\ saved.failures \in 0..MaxFailures
    BY <1>1, SavingLeaves
  <2> QED
    BY <1>3, <2>1, Zenon
<1>5. /\ lists' = l /\ play' = Start /\ song' = "none" /\ last' \in {play, last}
      /\ files' = files /\ config' = config /\ musicplay_mode' = musicplay_mode
      /\ sd_disp_mode' = sd_disp_mode /\ view' = view /\ unbacked' = unbacked
      /\ sdmusicplay_status' \in {"stop", sdmusicplay_status}
  BY <1>2 DEF SearchMusic, Reset
<1>6. replaced' \in BOOLEAN /\ (replaced' <=> replaced \/ l.albums # lists.albums)
  BY <1>1, <1>5 DEF SearchMusic
<1>7. PICK r \in BOOLEAN : r = replaced'
  BY <1>6
<1>8. PICK a, b : /\ a = DrawStop /\ b = DrawList(l, sd_disp_mode, view)
                  /\ astray' = IF musicplay_mode # "sd" THEN "no" ELSE FirstOf(<<a, b>>)
  BY <1>5, Zenon DEF SearchMusic
<1>9. FirstOf(<<a, b>>) = IF a # "no" THEN a ELSE b
  BY FirstOfTwo
<1>10. /\ unbacked \/ r \/ PlaceFits(l, last')
       /\ unbacked \/ r \/ ViewFits(l, sd_disp_mode, view)
  <2>1. /\ unbacked \/ replaced \/ (PlaceFits(lists, last) /\ ViewFits(lists, sd_disp_mode, view))
        /\ unbacked \/ PlaceFits(lists, play)
    BY DEF MusicListFits, StoryFits
  <2>2. l.albums = lists.albums =>
          /\ \A p : PlaceFits(lists, p) => PlaceFits(l, p)
          /\ ViewFits(lists, sd_disp_mode, view) => ViewFits(l, sd_disp_mode, view)
    BY AlbumsTell
  <2> QED
    BY <1>5, <1>6, <1>7, <2>1, <2>2
<1>11. Excused(a, l, r, unbacked)
  <2>1. Excused(a, lists, replaced, unbacked)
    BY <1>8, WhereItIs
  <2>2. a # "start"
    <3>1. CASE HasSongs
      <4>1. lists.albums # <<>>
        BY <3>1, WhereItIs
      <4>2. Excused(DrawPlayed(lists, sd_disp_mode, view.select, last, play), lists, TRUE, FALSE)
        BY <1>1, ReadsAreExcused
      <4> QED
        BY <1>8, <3>1, <4>1, <4>2 DEF DrawStop, Excused
    <3>2. CASE ~ HasSongs
      BY <1>8, <3>2 DEF DrawStop
    <3> QED
      BY <3>1, <3>2
  <2> QED
    BY <1>6, <1>7, <2>1, <2>2 DEF Excused
<1>12. Excused(b, l, r, unbacked)
  <2>1. r \/ unbacked \/ ShownFits(l, sd_disp_mode, view)
    BY <1>1, <1>10, ViewIsShown
  <2> QED
    BY <1>1, <1>8, <2>1, ReadsAreExcused
<1>13. Excused(astray', l, r, unbacked)
  <2>1. Excused("no", l, r, unbacked)
    BY <1>1, ReadsAreExcused
  <2> QED
    BY <1>8, <1>9, <1>11, <1>12, <2>1
<1>14. astray' = "no" /\ musicplay_mode = "sd" => ShownFits(l, sd_disp_mode, view)
  <2>1. astray' = "no" /\ musicplay_mode = "sd" => b = "no"
    BY <1>8, <1>9
  <2>2. DrawList(l, sd_disp_mode, view) = "no" => ShownFits(l, sd_disp_mode, view)
    BY DEF DrawList, ShownFits
  <2> QED
    BY <1>8, <2>1, <2>2
<1>15. StoryFits'
  <2>1. PlaceFits(l, Start)
    BY DEF PlaceFits
  <2>2. view = [select |-> view.select, count |-> view.count, item |-> view.item]
    BY DEF MusicListFits, StoryFits
  <2> QED
    BY <1>5, <1>7, <1>10, <1>13, <1>14, <2>1, <2>2 DEF StoryFits
<1>16. KindsFit'
  BY <1>1, <1>4, <1>5, <1>6 DEF KindsFit
<1> QED
  BY <1>1, <1>4, <1>5, <1>15, <1>16 DEF MusicListFits

\* The player before its first start.
LEMMA FirstFits ==
    ASSUME MusicListInit
    PROVE  MusicListFits
<1>1. KindsFit
  <2>1. MaxFailures \in Nat
    BY MusicListAssumption
  <2>2. failures \in 0..MaxFailures
    BY <2>1 DEF MusicListInit
  <2> QED
    BY <2>2 DEF MusicListInit, KindsFit, Modes
<1>2. NoLists \in GoodLists /\ NoLists.albums = <<>>
  BY NoListsFit DEF NoLists
<1>3. IsCutList(info)
  <2>1. NoLists \in Lists
    BY <1>2 DEF GoodLists
  <2>2. PICK N \in Nat : N = Len(Pieces(NoLists))
    BY <2>1, CutsAreLeft
  <2>3. IsCut(<<>>, NoLists, 0) /\ 0 \in 0..(N + 1)
    BY <2>1, CutsAreLeft
  <2>4. IsCutList(<<>>)
    BY <1>2, <2>2, <2>3, Zenon DEF IsCutList
  <2> QED
    BY <2>4 DEF MusicListInit
<1>4. IsSaved(config)
  <2>1. NoConfig.disp = "info" /\ NoConfig.mode = "sd" /\ NoConfig.play = Start /\ NoConfig.unbacked = FALSE
    BY DEF NoConfig
  <2> QED
    BY <2>1 DEF MusicListInit, IsSaved, Modes
<1>5. StoryFits
  <2>1. /\ lists = NoLists /\ play = Start /\ view = NoView /\ last = Start /\ song = "none"
        /\ astray = "no" /\ sd_disp_mode = "info"
    BY DEF MusicListInit
  <2>2. NoView = [select |-> 0, count |-> 0, item |-> 0]
    BY DEF NoView
  <2>3. view.select = 0 /\ view.count = 0 /\ view.item = 0
        /\ view = [select |-> view.select, count |-> view.count, item |-> view.item]
    BY <2>1, <2>2
  <2>4. Excused(astray, lists, replaced, unbacked)
    BY <2>1 DEF Excused, Tales
  <2>5. PlaceFits(lists, play) /\ PlaceFits(lists, last)
    BY <2>1 DEF PlaceFits
  <2>6. ViewFits(lists, sd_disp_mode, view)
    BY <1>2, <2>1, <2>3 DEF ViewFits
  <2>7. ShownFits(lists, sd_disp_mode, view)
    BY <2>3 DEF ShownFits
  <2> QED
    BY <2>1, <2>3, <2>4, <2>5, <2>6, <2>7 DEF StoryFits
<1> QED
  BY <1>1, <1>2, <1>3, <1>4, <1>5 DEF MusicListInit, MusicListFits

\* A step of the player leaves what fits.
LEMMA MusicListKeeps ==
    ASSUME MusicListFits, [MusicListNext]_musicListVars
    PROVE  MusicListFits'
<1>1. CASE UNCHANGED musicListVars
  <2>1. KindsFit' /\ IsSaved(config)' /\ IsCutList(info)' /\ (lists \in GoodLists)'
    BY <1>1 DEF MusicListFits, KindsFit, musicListVars
  <2>2. /\ lists' = lists /\ play' = play /\ view' = view /\ last' = last /\ song' = song
        /\ astray' = astray /\ replaced' = replaced /\ unbacked' = unbacked
        /\ musicplay_mode' = musicplay_mode /\ sd_disp_mode' = sd_disp_mode
    BY <1>1 DEF musicListVars
  <2>3. StoryFits
    BY DEF MusicListFits
  <2>4. StoryFits'
    BY <2>2, <2>3 DEF StoryFits, HasSongs
  <2> QED
    BY <2>1, <2>4 DEF MusicListFits
<1>2. CASE MusicListNext
  BY <1>2, StartLoadsFits, StartCreatesFits, PowerOffFits, ChangeFilesFits, ForwardFits,
     BackwardFits, PlayPauseFits, SoundPreparedFits, SoundStartFits, SoundEndFits, ListButtonFits,
     ListKeyFits, ListItemFits, SearchMusicFits, InitSettingsFits, ToRadioFits, ToCardFits
  DEF MusicListNext
<1> QED
  BY <1>1, <1>2

\* What the invariant tells.
LEMMA MusicListFitsInv == MusicListFits => MusicListInv
<1> SUFFICES ASSUME MusicListFits PROVE MusicListInv
  OBVIOUS
<1>1. lists \in GoodLists /\ KindsFit /\ Excused(astray, lists, replaced, unbacked)
  BY DEF MusicListFits, StoryFits
<1>2. MusicListTypeOK
  BY <1>1 DEF MusicListTypeOK, KindsFit, Excused, Tales, Modes
<1>3. AlbumsHoldTheFiles /\ SavedListsLoad /\ FrUndoesFf
  BY <1>1, AlbumsHold, SavedLoad, BackUndoesForward
<1>4. PlaysAFileOfTheList /\ DrawsWhatIsListed
  BY <1>1 DEF PlaysAFileOfTheList, DrawsWhatIsListed, Excused
<1> QED
  BY <1>2, <1>3, <1>4 DEF MusicListInv

-----------------------------------------------------------------------------
(* The whole player. *)

\* The lists of the music, their file and the place of the player are what they are
\* said to be (filelist.c, sdmusic.c, list_view.c), for any files of the card and any
\* number of failures.
THEOREM MusicListInvariant == MusicListSpec => []MusicListInv
<1>1. MusicListInit => MusicListFits
  BY FirstFits
<1>2. MusicListFits /\ [MusicListNext]_musicListVars => MusicListFits'
  BY MusicListKeeps
<1>3. MusicListFits => MusicListInv
  BY MusicListFitsInv
<1> QED
  BY <1>1, <1>2, <1>3, PTL DEF MusicListSpec

\* The radio, the sound that is played, and the music that there is to play: whichever
\* part of the player runs, all that is said of each holds (apps/musicplay).
THEOREM SoundInvariant == PlayerSpec => []SoundInv
<1>1. PlayerInit => RadioInd /\ AudioInd /\ MusicListFits
  BY RadioIndInit, AudioStarts, FirstFits DEF PlayerInit
<1>2. RadioInd /\ AudioInd /\ MusicListFits /\ [PlayerNext]_playerVars
        => RadioInd' /\ AudioInd' /\ MusicListFits'
  <2> SUFFICES ASSUME RadioInd, AudioInd, MusicListFits, [PlayerNext]_playerVars
               PROVE  RadioInd' /\ AudioInd' /\ MusicListFits'
    OBVIOUS
  <2>1. [RadioNext]_radioVars /\ [AudioNext]_audioVars /\ [MusicListNext]_musicListVars
    BY DEF PlayerNext, playerVars, RadioUndropped
  <2> QED
    BY <2>1, RadioIndNext, AudioKeeps, MusicListKeeps
<1>3. RadioInd /\ AudioInd /\ MusicListFits => SoundInv
  BY RadioIndImplies, AudioIndSays, MusicListFitsInv DEF SoundInv
<1> QED
  BY <1>1, <1>2, <1>3, PTL DEF PlayerSpec

=============================================================================
