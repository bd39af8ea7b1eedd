------------------------------- MODULE LogBuf -------------------------------
(***************************************************************************)
(* The log (kernel/log.c) in its ring of text (drivers/logbuf.c), and the  *)
(* shell's log command (shell/com_log.c), which looks for records in it    *)
(* while messages are written: a message may interrupt it at any byte.     *)
(* The writer overwrites what is oldest and knows of no reader.            *)
(*                                                                         *)
(* Text is told apart only as far as the searches do: "[" and "]" around a *)
(* time stamp of StampLength characters "9", a new line, and other text.   *)
(***************************************************************************)
EXTENDS Integers, Sequences, FiniteSets

CONSTANTS
    MAX_LOGBUF_SIZE,   \* GSC_MAX_LOGBUF_SIZE
    StampLength,       \* characters of a time stamp, 14 in the code
    MaxUnrecorded,     \* bound: messages that are not recorded
    MaxMeanwhile       \* bound: bytes written in the course of a search or a print

ASSUME LogBufAssumption ==
    /\ StampLength \in Nat \ {0} /\ MaxUnrecorded \in Nat /\ MaxMeanwhile \in Nat \ {0}
    /\ MAX_LOGBUF_SIZE \in Nat /\ MAX_LOGBUF_SIZE > StampLength + 2

VARIABLES
    log_buf, log_wp, flg_buff_full,
    flg_log_cr,  \* the message before ended its line
    unrecorded,  \* how many messages were not recorded
    log_message, \* what gslog() has still to write
    log_rp,      \* where the shell reads
    search,      \* the search that the shell is in
    to_print,    \* bytes of the record that it has still to print
    printed,     \* what it has printed of that record
    meanwhile    \* bytes written since the search began

logBufVars == <<log_buf, log_wp, flg_buff_full, flg_log_cr, unrecorded, log_message,
                log_rp, search, to_print, printed, meanwhile>>
logWriterVars == <<log_buf, log_wp, flg_buff_full, flg_log_cr, unrecorded, log_message>>
logReaderVars == <<log_rp, search, to_print, printed>>

LogSize == MAX_LOGBUF_SIZE
LogCells == 0..(LogSize - 1)
Stamp == <<"[">> \o [i \in 1..StampLength |-> "9"] \o <<"]">>
MaxRecords == LogSize \div (StampLength + 2)

\* A byte outside the buffer is no part of the log.
LogCell(i) == IF i \in LogCells THEN log_buf[i] ELSE ""

\* The search that is over, or that was never begun.
NoScan == [doing |-> "idle", kind |-> "none", recnum |-> 0, rp |-> 0, sp |-> 0, ep |-> 0,
           stat |-> 0, tcount |-> 0, reccount |-> 0, looked |-> 0]

LogBufInit ==
    /\ log_buf = [i \in LogCells |-> ""] /\ log_wp = 0 /\ flg_buff_full = FALSE
    /\ flg_log_cr = TRUE /\ unrecorded = 0 /\ log_message = <<>>
    /\ log_rp = 0 /\ search = NoScan /\ to_print = 0 /\ printed = <<>> /\ meanwhile = 0

-----------------------------------------------------------------------------
(* Writing. *)

\* gslog(): a stamp begins each line, and only a message of a priority that is
\* recorded is written, but every message tells whether it ended its line.
Gslog ==
    /\ log_message = <<>>
    /\ \E text \in {<<"t">>, <<"\n">>}, recorded \in BOOLEAN :
         /\ log_message' = IF ~ recorded THEN <<>>
                       ELSE IF flg_log_cr THEN Stamp \o text ELSE text
         /\ recorded \/ unrecorded < MaxUnrecorded
         /\ unrecorded' = IF recorded THEN unrecorded ELSE unrecorded + 1
         /\ flg_log_cr' = (text[Len(text)] = "\n")
    /\ UNCHANGED <<log_buf, log_wp, flg_buff_full, logReaderVars, meanwhile>>

\* The byte is the last one of the buffer.
IsLast(i) == i + 1 >= LogSize

LogPutc ==
    /\ log_message # <<>>
    /\ log_message' = Tail(log_message)
    /\ log_buf' = [log_buf EXCEPT ![log_wp] = Head(log_message)]
    /\ log_wp' = IF IsLast(log_wp) THEN 0 ELSE log_wp + 1
    /\ flg_buff_full' = (flg_buff_full \/ IsLast(log_wp))
    /\ \/ /\ search.doing = "idle" /\ to_print = 0   \* what was found is past
          /\ search' = NoScan /\ printed' = <<>> /\ meanwhile' = 0
       \/ /\ search.doing # "idle" \/ to_print > 0
          /\ meanwhile < MaxMeanwhile \/ search.doing = "outside"
          /\ meanwhile' = IF meanwhile < MaxMeanwhile THEN meanwhile + 1 ELSE meanwhile
          /\ UNCHANGED <<search, printed>>
    /\ UNCHANGED <<flg_log_cr, unrecorded, log_rp, to_print>>

-----------------------------------------------------------------------------
(* Looking for a record. *)

\* set_log_pointer(): where the text begins, and where a search ends.
SearchStart == IF flg_buff_full THEN log_wp ELSE 0

\* The mistake of forgetting that a full buffer begins where it ends.
SearchEnd_AtTheWriter == log_wp

SearchEnd == IF ~ flg_buff_full THEN log_wp ELSE IF log_wp = 0 THEN LogSize - 1 ELSE log_wp - 1

\* SEEK_HEAD and SEEK_TAIL.  In a log of increasing times SEEK_TIME looks for one
\* of the records counted from the head, and GET_INFO counts them by looking for
\* more than there are.
Seek(kind) ==
    /\ search.doing = "idle" /\ to_print = 0
    /\ \E recnum \in 0..MaxRecords :
         search' = [NoScan EXCEPT !.doing = kind, !.kind = kind, !.recnum = recnum,
                                !.rp = IF kind = "tail" THEN SearchEnd ELSE SearchStart,
                                !.sp = SearchStart, !.ep = SearchEnd]
    /\ log_rp' = 0  \* it is set when the search is over
    /\ printed' = <<>> /\ meanwhile' = 0
    /\ UNCHANGED <<logWriterVars, to_print>>

\* A search is over, at cell i.
SearchFound(s, i) ==
    /\ search' = [s EXCEPT !.doing = "idle", !.rp = 0, !.stat = 0, !.tcount = 0]
    /\ log_rp' = i
    /\ UNCHANGED <<logWriterVars, to_print, printed, meanwhile>>

SearchGoes(s) ==
    /\ search' = s
    /\ UNCHANGED <<logWriterVars, log_rp, to_print, printed, meanwhile>>

\* The next cell to look at: the last one is skipped, and whoever begins there
\* leaves the buffer.
NextCell(i) == IF i + 1 = LogSize - 1 THEN 0 ELSE i + 1

\* A search looks at each cell once; more than that are not counted.
Looked(s) == [s EXCEPT !.looked = IF @ > LogSize THEN @ ELSE @ + 1]

\* One turn of the loop of search_head_record(), search_timestamp() and
\* get_log_info().
SearchForward ==
    /\ search.doing = "head"
    /\ LET ch == LogCell(search.rp)
           ends == search.stat = 1 /\ search.tcount = StampLength
           found == ends /\ ch = "]"
           s == [Looked(search) EXCEPT
                   !.stat = IF search.stat = 0 THEN IF ch = "[" THEN 1 ELSE 0
                            ELSE IF ~ ends /\ ch = "9" THEN 1 ELSE 0,
                   !.tcount = IF search.stat = 1 /\ ~ ends /\ ch = "9" THEN @ + 1 ELSE 0,
                   !.reccount = IF found THEN @ + 1 ELSE @,
                   !.rp = NextCell(@),
                   !.doing = IF search.rp + 1 \in LogCells THEN @ ELSE "outside"]
       IN  IF search.rp = search.ep THEN SearchFound(search, search.rp)
           ELSE IF found /\ search.reccount = search.recnum
             THEN SearchFound(search, search.rp - (StampLength + 1))
           ELSE SearchGoes(s)

\* One turn of the loop of search_tail_record().
SearchBackward ==
    /\ search.doing = "tail"
    /\ LET ch == LogCell(search.rp)
           ends == search.stat = 1 /\ search.tcount = StampLength
           found == ends /\ ch = "["
           s == [Looked(search) EXCEPT
                   !.stat = IF search.stat = 0 THEN IF ch = "]" THEN 1 ELSE 0
                            ELSE IF ~ ends /\ ch = "9" THEN 1 ELSE 0,
                   !.tcount = IF search.stat = 1 /\ ~ ends /\ ch = "9" THEN @ + 1 ELSE 0,
                   !.reccount = IF found THEN @ + 1 ELSE @,
                   !.rp = IF @ = 0 THEN LogSize - 1 ELSE @ - 1]
       IN  IF search.rp = search.sp THEN SearchFound(search, search.rp)
           ELSE IF found /\ search.reccount + 1 = search.recnum THEN SearchFound(search, search.rp)
           ELSE SearchGoes(s)

-----------------------------------------------------------------------------
(* Printing a record, print_log(). *)

NextRead(i) == IF i + 1 >= LogSize THEN 0 ELSE i + 1

\* The cells from log_rp to log_wp, in the order they are read.
Unread ==
    LET past[i \in (-StampLength - 1)..(LogSize - 1)] ==
          [k \in 0..(2 * LogSize) |-> IF i + k < LogSize THEN i + k ELSE (i + k) - LogSize]
        n == CHOOSE n \in 0..(2 * LogSize) :
               past[log_rp][n] = log_wp /\ \A k \in 0..(n - 1) : past[log_rp][k] # log_wp
    IN  [k \in 1..n |-> past[log_rp][k - 1]]

\* GET_LINESIZE: a record ends with a new line before a "[".
LineSize ==
    LET u == Unread
        newline[k \in 0..Len(u)] ==   \* the search has just passed one
          k > 0 /\ ~ newline[k - 1] /\ LogCell(u[k]) = "\n"
        ends == {k \in 1..(Len(u) - 1) : newline[k] /\ LogCell(u[k + 1]) = "["}
    IN  IF ends = {} THEN Len(u) ELSE CHOOSE k \in ends : \A l \in ends : k <= l

AskLineSize ==
    /\ search.doing = "idle" /\ to_print = 0
    /\ LineSize > 0
    /\ to_print' = LineSize /\ printed' = <<>> /\ search' = [NoScan EXCEPT !.kind = search.kind]
    /\ UNCHANGED <<logWriterVars, log_rp, meanwhile>>

\* logbuf_read(), byte by byte.
ReadByte ==
    /\ to_print > 0
    /\ IF log_rp = log_wp THEN to_print' = 0 /\ UNCHANGED <<log_rp, printed>>
       ELSE /\ printed' = Append(printed, LogCell(log_rp))
            /\ log_rp' = NextRead(log_rp)
            /\ to_print' = to_print - 1
    /\ UNCHANGED <<logWriterVars, search, meanwhile>>

LogBufNext ==
    \/ Gslog \/ LogPutc
    \/ \E kind \in {"head", "tail"} : Seek(kind)
    \/ SearchForward \/ SearchBackward
    \/ AskLineSize \/ ReadByte

LogBufSpec == LogBufInit /\ [][LogBufNext]_logBufVars

-----------------------------------------------------------------------------
(* Properties. *)

LogBufTypeOK ==
    /\ log_buf \in [LogCells -> {"", "[", "]", "9", "t", "\n"}] /\ log_wp \in LogCells
    /\ log_rp \in (-StampLength - 1)..(LogSize - 1)
    /\ search.doing \in {"idle", "head", "tail", "outside"}
    /\ search.stat \in {0, 1} /\ search.tcount \in 0..StampLength
    /\ to_print \in 0..(2 * LogSize)

\* A search from the head steps over the last cell: it goes round for ever when
\* it should end there, and leaves the buffer when it begins there.
Strays == search.kind # "tail" /\ LogSize - 1 \in {search.sp, search.ep}

\* Any other search is over when it has looked at each cell once, however much
\* is written meanwhile.
SearchesEnd ==
    search.looked > LogSize \/ search.doing = "outside" => Strays

\* The text: from its oldest byte on, so many bytes.
OldestByte == IF flg_buff_full THEN log_wp ELSE 0
TextLength == IF flg_buff_full THEN LogSize ELSE log_wp
LogDistance(i, j) == (j - i) % LogSize

\* The stamps in the text.  A search from the head misses those that lie across
\* the last cell, and one that a full buffer ends with.
Stamps ==
    {i \in LogCells :
       LET last == LogDistance(OldestByte, i) + StampLength + 1 IN
       /\ last < TextLength
       /\ \A k \in 0..(StampLength + 1) : LogCell((i + k) % LogSize) = Stamp[k + 1]
       /\ search.kind = "head" =>
            i + StampLength + 1 < LogSize - 1 /\ last < LogSize - 1}
StampsBefore(i) == {j \in Stamps : LogDistance(OldestByte, j) < LogDistance(OldestByte, i)}

\* What was sought is what is found, as long as nothing was written since: the
\* record with so many before it, or, counted from the end, behind it.
RecordsAreFound ==
    /\ meanwhile = 0 /\ search.doing = "idle" /\ to_print = 0 /\ printed = <<>>
    /\ ~ Strays
    =>  CASE search.kind = "head" ->
               IF search.recnum < Cardinality(Stamps)
                 THEN log_rp \in Stamps /\ Cardinality(StampsBefore(log_rp)) = search.recnum
                 ELSE LogDistance(log_rp, log_wp) <= 1 /\ search.reccount = Cardinality(Stamps)
          [] search.kind = "tail" ->
               IF search.recnum \in 1..Cardinality(Stamps)
                 THEN /\ log_rp \in Stamps
                      /\ Cardinality(StampsBefore(log_rp)) = Cardinality(Stamps) - search.recnum
                 ELSE log_rp = OldestByte
          [] OTHER -> TRUE

\* What is printed from a record that was found is that record and no more, and
\* the next print begins with the next one, as long as nothing was written
\* since.  Two new lines in a row hide the end of a record.
PrintsOneRecord ==
    meanwhile = 0 /\ search.kind \in {"head", "tail"} /\ to_print = 0 /\ printed # <<>> =>
        /\ \A k \in 1..(Len(printed) - 1) :
             printed[k] = "\n" /\ printed[k + 1] = "[" => k > 1 /\ printed[k - 1] = "\n"
        /\ log_rp = log_wp \/ LogCell(log_rp) = "["

\* The log: searches end, find what is sought, and what is found is printed.
LogBufInv == LogBufTypeOK /\ SearchesEnd /\ RecordsAreFound /\ PrintsOneRecord
=============================================================================
