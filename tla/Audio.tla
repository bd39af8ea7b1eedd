-------------------------------- MODULE Audio --------------------------------
(***************************************************************************)
(* The sound output of arch/Cortex-M7/drivers/stm32h747i-disc_audio.c and  *)
(* its caller, apps/soundplay/soundio.c.  A DMA plays audio_buf round and  *)
(* round; its interrupt, at half of the buffer and at its end, clears the  *)
(* half that was played and resumes the task that waits to write there.    *)
(* The task may be late: tx_evq stores nothing, and the DMA goes on while  *)
(* it copies.                                                              *)
(*                                                                         *)
(* The buffer is counted in parts, MAX_AUDIOBUF = 4: a step of the DMA or  *)
(* of the copying task is one part of a frame, and a frame has one or two. *)
(* select_device() does not time out while the DMA plays: the longest half *)
(* of a buffer is far shorter than SPIO_TIMEOUT.  The interrupt is taken   *)
(* before any step of a task, and has cleared its half before the DMA has  *)
(* played the other.                                                       *)
(***************************************************************************)
EXTENDS Integers

CONSTANT MaxFrames  \* bound: frames that are written, and that songs begin with

ASSUME AudioAssumption == MaxFrames \in Nat

VARIABLES
    audio_buf,
    bufsize,
    flg_buf_half,
    flg_play, flg_audio_start, flg_bs_chg,
    dma,            \* its length, and the part it plays next
    writing,        \* where soundio_write_audiobuf() is
    first, copied,  \* where audio_write() began, and the parts it has copied
    frame,          \* the frame that is written now or next
    parts,          \* of a frame of this song
    heard,          \* history: the last that was played and was no silence
    started,        \* history: the first frame to be written with the sound on
    late,           \* history: the task was not waiting at an interrupt
    unsettled,      \* history: the DMA plays what was written for another size
    astride         \* history: something else was heard than the next frame

audioVars == <<audio_buf, bufsize, flg_buf_half, flg_play, flg_audio_start, flg_bs_chg, dma,
               writing, first, copied, frame, parts, heard, started, late, unsettled, astride>>
bufferVars == <<audio_buf, flg_buf_half>>
deviceVars == <<bufsize, flg_play, flg_audio_start, flg_bs_chg>>
copyVars == <<writing, first, copied>>
songVars == <<frame, parts>>
heardVars == <<heard, started, astride>>

MAX_AUDIOBUF == 4

\* What is in a place of the buffer: the part of a frame of that many parts.
FramePart(f, p, n) == [frame |-> f, part |-> p, parts |-> n]
Silence == FramePart(0, 0, 0)
Half == bufsize \div 2

AudioInit ==
    /\ audio_buf = [i \in 1..MAX_AUDIOBUF |-> Silence]
    /\ bufsize = MAX_AUDIOBUF
    /\ flg_buf_half = 0
    /\ flg_play = FALSE /\ flg_audio_start = FALSE /\ flg_bs_chg = FALSE
    /\ dma = [size |-> MAX_AUDIOBUF, next |-> 1]
    /\ writing = "idle" /\ first = 1 /\ copied = 0
    /\ frame = 1 /\ parts \in {1, 2}
    /\ heard = Silence /\ started = 1
    /\ late = FALSE /\ unsettled = FALSE /\ astride = FALSE

-----------------------------------------------------------------------------
(* The DMA and its interrupt. *)

\* Mistake: the half that is played next is cleared.
Cleared_Other(half) == IF half = 1 THEN Half + 1 .. bufsize ELSE 1 .. Half

\* inthdr_audio(): the half that was played.
Cleared(half) == IF half # 1 THEN Half + 1 .. bufsize ELSE 1 .. Half

InthdrAudio(half) ==
    /\ flg_buf_half' = half
    /\ audio_buf' = [i \in DOMAIN audio_buf |-> IF i \in Cleared(half) THEN Silence ELSE audio_buf[i]]
    /\ writing' = IF writing = "waiting" THEN "awake" ELSE writing
    /\ late' = (late \/ writing # "waiting")

Precedes(x, y) == x.frame < y.frame \/ (x.frame = y.frame /\ x.part < y.part)
Follows(x, y) ==
    IF x.part = 1 THEN x.frame = y.frame + 1 /\ y.part = y.parts
                  ELSE x.frame = y.frame /\ x.part = y.part + 1

\* What may be played: each part after those before it; and while the task is in
\* time, none left out of the frames that were written with the sound on, and no
\* silence between them.
InOrder(x) ==
    IF x = Silence THEN late \/ frame < started + 2
    ELSE IF late \/ heard.frame < started - 1 THEN Precedes(heard, x)
    ELSE Follows(x, heard)

Hear(x) ==
    /\ heard' = IF x = Silence THEN heard ELSE x
    /\ astride' = (astride \/ ~ (unsettled \/ InOrder(x)))
    /\ UNCHANGED started

Dma ==
    /\ flg_play
    /\ Hear(audio_buf[dma.next])
    /\ dma' = [dma EXCEPT !.next = (dma.next % dma.size) + 1]
    /\ \/ dma.next = dma.size \div 2 /\ InthdrAudio(1)
       \/ dma.next = dma.size /\ InthdrAudio(2)
       \/ dma.next \notin {dma.size \div 2, dma.size} /\ UNCHANGED <<bufferVars, writing, late>>
    /\ UNCHANGED <<deviceVars, first, copied, songVars, unsettled>>

-----------------------------------------------------------------------------
(* soundio_write_audiobuf(): audio_select(), then audio_write(). *)

Select ==
    /\ writing = "idle" /\ frame <= MaxFrames
    /\ writing' = IF flg_play THEN "waiting" ELSE "awake"
    /\ UNCHANGED <<bufferVars, deviceVars, dma, first, copied, songVars, heardVars, late, unsettled>>

AudioWrite ==
    /\ writing = "awake"
    /\ writing' = "copy" /\ copied' = 0
    /\ first' = IF flg_buf_half # 1 THEN Half + 1 ELSE 1
    /\ UNCHANGED <<bufferVars, deviceVars, dma, songVars, heardVars, late, unsettled>>

WriteLength ==
    LET room == IF flg_play THEN Half ELSE bufsize
    IN  IF parts > room THEN room ELSE parts
Copying == copied < WriteLength /\ first + copied <= MAX_AUDIOBUF

CopyPart ==
    /\ writing = "copy" /\ Copying
    /\ audio_buf' = [audio_buf EXCEPT ![first + copied] = FramePart(frame, copied + 1, parts)]
    /\ copied' = copied + 1
    /\ UNCHANGED <<flg_buf_half, deviceVars, dma, writing, first, songVars, heardVars, late, unsettled>>

\* A short frame is taken for the last one; the buffer is silent behind it.
WriteReturns ==
    /\ writing = "copy" /\ ~ Copying
    /\ audio_buf' = [i \in DOMAIN audio_buf |->
                       IF WriteLength < Half /\ i \in first + copied .. bufsize
                         THEN Silence ELSE audio_buf[i]]
    /\ flg_buf_half' = 0
    /\ writing' = "idle"
    /\ first' = 1 /\ copied' = 0
    /\ frame' = frame + 1
    /\ UNCHANGED <<deviceVars, dma, parts, heardVars, late, unsettled>>

-----------------------------------------------------------------------------
(* Between two frames. *)

\* Another song, maybe of other frames.  m4aplay.c leaves the sound on when a
\* song is stopped.
NewSong ==
    /\ writing = "idle" /\ frame <= MaxFrames
    /\ parts' \in {1, 2}
    /\ flg_play \/ parts' # parts
    /\ unsettled' = (unsettled \/ flg_play)
    /\ UNCHANGED <<bufferVars, deviceVars, dma, copyVars, frame, heardVars, late>>

\* IOCMD_AUDIO_SET_BUFSIZE, to two frames.
SetBufsize ==
    /\ writing = "idle" /\ frame <= MaxFrames
    /\ bufsize # 2 * parts
    /\ bufsize' = 2 * parts
    /\ flg_bs_chg' = TRUE
    /\ unsettled' = (unsettled \/ flg_play)
    /\ UNCHANGED <<bufferVars, flg_play, flg_audio_start, dma, copyVars, songVars, heardVars, late>>

\* The buffer has the size of two frames, and the last one is where the DMA will
\* look for it, if there is one.
Placed ==
    /\ bufsize = 2 * parts
    /\ \/ \A i \in DOMAIN audio_buf : audio_buf[i] = Silence
       \/ \A i \in 1 .. Half : audio_buf[Half + i] = FramePart(frame - 1, i, parts)

\* IOCMD_AUDIO_PLAY_START: BSP_AUDIO_OUT_Play(), or BSP_AUDIO_OUT_Resume() where
\* the DMA was paused.  flg_bs_chg stays when the DMA is started for the first
\* time.
PlayStart ==
    /\ writing = "idle"
    /\ ~ flg_play \/ flg_bs_chg
    /\ flg_play' = TRUE /\ flg_audio_start' = TRUE
    /\ flg_bs_chg' = (flg_bs_chg /\ ~ flg_audio_start)
    /\ dma' = IF flg_audio_start /\ ~ flg_bs_chg THEN dma ELSE [size |-> bufsize, next |-> 1]
    /\ started' = frame
    /\ unsettled' = (unsettled \/ flg_play \/ ~ Placed)
    /\ UNCHANGED <<bufferVars, bufsize, copyVars, songVars, heard, astride, late>>

\* IOCMD_AUDIO_PLAY_STOP: the frames that were not heard are gone.
PlayStop ==
    /\ writing = "idle"
    /\ flg_play
    /\ flg_play' = FALSE /\ flg_buf_half' = 0
    /\ audio_buf' = [i \in DOMAIN audio_buf |-> Silence]
    /\ heard' = FramePart(frame - 1, parts, parts)
    /\ late' = FALSE /\ unsettled' = FALSE
    /\ UNCHANGED <<bufsize, flg_audio_start, flg_bs_chg, dma, copyVars, songVars, started, astride>>

AudioNext ==
    \/ Dma
    \/ Select \/ AudioWrite \/ CopyPart \/ WriteReturns
    \/ NewSong \/ SetBufsize \/ PlayStart \/ PlayStop

AudioSpec == AudioInit /\ [][AudioNext]_audioVars

-----------------------------------------------------------------------------
(* Properties. *)

AudioTypeOK ==
    /\ DOMAIN audio_buf = 1 .. MAX_AUDIOBUF
    /\ bufsize \in {2, 4} /\ parts \in {1, 2}
    /\ flg_buf_half \in 0 .. 2
    /\ dma.size \in {2, 4} /\ dma.next \in 1 .. dma.size
    /\ writing \in {"idle", "waiting", "awake", "copy"}
    /\ first \in {1, 2, 3} /\ copied \in 0 .. 2 /\ frame \in 1 .. MaxFrames + 1

\* What is heard is in the order of the frames, nothing twice, however late the
\* task writes; and while it is in time nothing is left out: inthdr_audio() and
\* audio_write() agree on the half, and what was played is cleared before the DMA
\* comes round.  Excepted is the sound that is on while the size of the frames
\* changes: that m4aplay.c has left on for the next song, or that was started
\* before the size was set (unsettled).
HeardInOrder == ~ astride

\* The task that waits for the buffer is told which half it is.
AwakeForAHalf == writing = "awake" /\ flg_play => flg_buf_half # 0

AudioInv == AudioTypeOK /\ HeardInOrder /\ AwakeForAHalf

=============================================================================
