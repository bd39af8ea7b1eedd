------------------------------ MODULE LineEdit ------------------------------
(***************************************************************************)
(* The line editor of the shell (shell/lineedit.c) with its history        *)
(* (shell/history.c), as task_shell() of shell/shell.c drives it: one key  *)
(* is one step.  The editor keeps the line and a cursor and never draws    *)
(* the line anew: each key sends the terminal the few characters and       *)
(* backspaces that should leave it showing the line, with its cursor where *)
(* the editor's is.                                                        *)
(*                                                                         *)
(* The record ed holds the editor's buf and cur_pos, and the row of the    *)
(* terminal behind the prompt with the column of the terminal's cursor.    *)
(***************************************************************************)
EXTENDS Integers, Sequences

CONSTANTS
    Letters,          \* what can be typed
    MAX_LINE_COLUMS,  \* GSC_SHELL_MAX_LINE_COLUMS
    MAX_COM_HIS,      \* GSC_SHELL_MAX_COM_HIS
    MaxEntered        \* bound: the length of a line that is entered

ASSUME LineEditAssumption ==
    /\ Letters \subseteq Nat \ {0}
    /\ MAX_LINE_COLUMS \in Nat \ {0} /\ MAX_COM_HIS \in Nat \ {0}
    /\ MaxEntered \in Nat

NUL == 0
Blank == -1
BS == -2
EraseLine == -3     \* the sequence ESC [ K

VARIABLES
    ed,       \* comLine and what the terminal shows of it
    stat,     \* how far an escape sequence has come: 0, 1, 2
    his_buf, pos, num,
    entered   \* the lines that were entered, latest first, as far as history goes

lineEditVars == <<ed, stat, his_buf, pos, num, entered>>
historyVars == <<his_buf, pos, num, entered>>

Columns == 0..(MAX_LINE_COLUMS - 1)
Line == UNION {[1..n -> Letters] : n \in 0..MAX_LINE_COLUMS}
NewLine == [buf |-> [i \in 0..MAX_LINE_COLUMS |-> NUL], cur_pos |-> 0,
            row |-> [i \in Columns |-> Blank], col |-> 0]

LineEditInit ==
    /\ ed = NewLine /\ stat = 0
    /\ his_buf = [i \in 0..MAX_COM_HIS |-> <<>>] /\ pos = 0 /\ num = 0
    /\ entered = <<>>

-----------------------------------------------------------------------------
(* The terminal. *)

Cputc(e, c) ==
    CASE c = BS -> [e EXCEPT !.col = @ - 1]
      [] c = EraseLine ->
           [e EXCEPT !.row = [i \in Columns |-> IF i < e.col THEN @[i] ELSE Blank]]
      [] OTHER -> [e EXCEPT !.row[e.col] = c, !.col = @ + 1]

Sends(e, chars) ==
    LET shown[n \in 0..Len(chars)] == IF n = 0 THEN e ELSE Cputc(shown[n - 1], chars[n])
    IN  shown[Len(chars)]
Backspaces(n) == [i \in 1..n |-> BS]

-----------------------------------------------------------------------------
(* What the keys do to a line. *)

Strleng(buf) == CHOOSE n \in DOMAIN buf : buf[n] = NUL /\ \A i \in 0..(n - 1) : buf[i] # NUL
LineLength(e) == Strleng(e.buf)

\* The bytes of buf from i to j - 1.
Part(buf, i, j) == [k \in 1..(j - i) |-> buf[i + k - 1]]
String(e) == Part(e.buf, 0, LineLength(e))

CursorLeft(e) ==
    IF e.cur_pos = 0 THEN e ELSE Sends([e EXCEPT !.cur_pos = @ - 1], <<BS>>)
CursorRight(e) ==
    IF e.cur_pos < LineLength(e) THEN Sends([e EXCEPT !.cur_pos = @ + 1], <<e.buf[e.cur_pos]>>)
    ELSE e
CursorHome(e) == Sends([e EXCEPT !.cur_pos = 0], Backspaces(e.cur_pos))
CursorEnd(e) ==
    Sends([e EXCEPT !.cur_pos = LineLength(e)], Part(e.buf, e.cur_pos, LineLength(e)))

\* The bytes behind position p move down by one; the last one ends the line.
Removed(buf, p) ==
    LET j == Strleng(buf) IN
    [i \in DOMAIN buf |-> IF i = j - 1 THEN NUL
                          ELSE IF i \in p..(j - 2) THEN buf[i + 1] ELSE buf[i]]

DeleteChar(e) ==
    LET j == LineLength(e) IN
    IF e.cur_pos >= j THEN e
    ELSE Sends([e EXCEPT !.buf = Removed(@, e.cur_pos)],
               Part(e.buf, e.cur_pos + 1, j) \o <<Blank>> \o Backspaces(j - e.cur_pos))

\* The mistake of coming back to where the character was, not before it.
BackspaceChar_OneShort(e) ==
    LET j == LineLength(e) IN
    IF e.cur_pos = 0 THEN e
    ELSE Sends([e EXCEPT !.buf = Removed(@, e.cur_pos - 1), !.cur_pos = @ - 1],
               <<BS>> \o Part(e.buf, e.cur_pos, j) \o <<Blank>> \o Backspaces(j - e.cur_pos))

BackspaceChar(e) ==
    LET j == LineLength(e) IN
    IF e.cur_pos = 0 THEN e
    ELSE Sends([e EXCEPT !.buf = Removed(@, e.cur_pos - 1), !.cur_pos = @ - 1],
               <<BS>> \o Part(e.buf, e.cur_pos, j) \o <<Blank>>
                 \o Backspaces(j - e.cur_pos) \o <<BS>>)

EraseToEnd(e) ==
    LET kept == [i \in DOMAIN e.buf |->
                  IF i \in e.cur_pos..(LineLength(e) - 1) THEN NUL ELSE e.buf[i]]
    IN  Sends([e EXCEPT !.buf = kept], <<EraseLine>>)

InsertChar(e, ch) ==
    LET j == LineLength(e)
        buf == [i \in DOMAIN e.buf |->
                 IF i = e.cur_pos THEN ch
                 ELSE IF i = j + 1 THEN NUL
                 ELSE IF i \in e.cur_pos..j THEN e.buf[i - 1] ELSE e.buf[i]]
    IN  IF j >= MAX_LINE_COLUMS THEN e
        ELSE Sends([e EXCEPT !.buf = buf, !.cur_pos = @ + 1],
                   Part(buf, e.cur_pos, j + 1) \o Backspaces(j - e.cur_pos))

InsertString(e, str) ==
    LET typed[n \in 0..Len(str)] == IF n = 0 THEN e ELSE InsertChar(typed[n - 1], str[n])
    IN  typed[Len(str)]

\* The bytes behind the end of str stay as they were.
SetStr(e, str) ==
    Sends([e EXCEPT !.buf = [i \in DOMAIN @ |-> IF i < Len(str) THEN str[i + 1]
                                                ELSE IF i = Len(str) /\ i < MAX_LINE_COLUMS
                                                  THEN NUL ELSE @[i]],
                    !.cur_pos = Len(str)],
          Backspaces(e.cur_pos) \o <<EraseLine>> \o str)

\* The line on a row of its own, behind a new prompt.
Draw(e) ==
    Sends([e EXCEPT !.row = NewLine.row, !.col = 0],
          String(e) \o Backspaces(LineLength(e) - e.cur_pos))

-----------------------------------------------------------------------------
(* Keys. *)

ControlKeys ==
    /\ stat = 0
    /\ ed' \in {CursorLeft(ed), CursorRight(ed), CursorHome(ed), CursorEnd(ed),
                DeleteChar(ed), BackspaceChar(ed), EraseToEnd(ed)}
    /\ UNCHANGED <<stat, historyVars>>

TypeLetter ==
    /\ stat = 0
    /\ \E ch \in Letters : ed' = InsertChar(ed, ch)
    /\ UNCHANGED <<stat, historyVars>>

EscapeKeys ==
    /\ \/ stat = 0 /\ stat' = 1 /\ UNCHANGED ed
       \/ stat = 1 /\ stat' \in {0, 2} /\ UNCHANGED ed
       \/ stat = 2 /\ stat' = 0 /\ ed' \in {ed, CursorLeft(ed), CursorRight(ed)}
    /\ UNCHANGED historyVars

\* CTRL-P, or ESC [ A.
BackLine ==
    /\ stat \in {0, 2} /\ stat' = 0
    /\ IF pos < MAX_COM_HIS /\ pos < num
         THEN /\ his_buf' = IF pos = 0 THEN [his_buf EXCEPT ![0] = String(ed)] ELSE his_buf
              /\ pos' = pos + 1
              /\ ed' = SetStr(ed, his_buf'[pos'])
         ELSE UNCHANGED <<ed, his_buf, pos>>
    /\ UNCHANGED <<num, entered>>

\* CTRL-N, or ESC [ B.
NextLine ==
    /\ stat \in {0, 2} /\ stat' = 0
    /\ IF pos > 0
         THEN pos' = pos - 1 /\ ed' = SetStr(ed, his_buf[pos'])
         ELSE UNCHANGED <<ed, pos>>
    /\ UNCHANGED <<his_buf, num, entered>>

\* An empty line is not kept, and leaves pos where it is.
SaveHistory(com) ==
    IF com = <<>> THEN UNCHANGED historyVars
    ELSE /\ his_buf' = [i \in 0..MAX_COM_HIS |-> IF i <= 1 THEN com ELSE his_buf[i - 1]]
         /\ num' = IF num <= MAX_COM_HIS THEN num + 1 ELSE num
         /\ pos' = 0
         /\ entered' = SubSeq(<<com>> \o entered, 1,
                              IF Len(entered) < MAX_COM_HIS THEN Len(entered) + 1 ELSE MAX_COM_HIS)

Return ==
    /\ stat = 0 /\ UNCHANGED stat
    /\ LineLength(ed) <= MaxEntered
    /\ SaveHistory(String(ed))
    /\ ed' = [NewLine EXCEPT !.buf[MAX_LINE_COLUMS] = ed.buf[MAX_LINE_COLUMS]]

ControlC ==
    /\ stat' = 0
    /\ ed' = [NewLine EXCEPT !.buf[MAX_LINE_COLUMS] = ed.buf[MAX_LINE_COLUMS]]
    /\ UNCHANGED historyVars

\* TAB types the rest of a command name, after a list of the names that match,
\* or before a space.  An escape sequence that has begun swallows its first byte.
Complete ==
    \E str \in {<<c>> : c \in Letters} \cup {<<c, d>> : c, d \in Letters} :
      \E drawn \in {ed, Draw(ed)} :
        /\ stat' = 0
        /\ ed' = InsertString(drawn, IF stat = 0 THEN str ELSE Tail(str))
        /\ UNCHANGED historyVars

LineEditNext ==
    \/ ControlKeys \/ TypeLetter \/ EscapeKeys \/ BackLine \/ NextLine
    \/ Return \/ ControlC \/ Complete

LineEditSpec == LineEditInit /\ [][LineEditNext]_lineEditVars

-----------------------------------------------------------------------------
(* Properties. *)

LineEditTypeOK ==
    /\ ed.buf \in [0..MAX_LINE_COLUMS -> Letters \cup {NUL}]
    /\ ed.row \in [Columns -> Letters \cup {Blank}]
    /\ stat \in 0..2 /\ pos \in 0..MAX_COM_HIS /\ num \in 0..(MAX_COM_HIS + 1)
    /\ his_buf \in [0..MAX_COM_HIS -> Line]

\* The line is ended within its buffer and the cursor is in it, whatever was
\* typed, recalled or completed: the bytes that a shorter line leaves behind its
\* end never come back.
LineIsEnded ==
    /\ ed.buf[MAX_LINE_COLUMS] = NUL
    /\ ed.cur_pos \in 0..LineLength(ed)

\* The terminal shows the line and its cursor stands where the editor's does,
\* though every key has sent it only what changed.
TerminalShowsTheLine ==
    /\ ed.col = ed.cur_pos
    /\ \A i \in Columns : ed.row[i] = IF i < LineLength(ed) THEN ed.buf[i] ELSE Blank

\* Going back recalls the lines in the order they were entered, latest first,
\* without a gap: neither browsing nor editing what was recalled changes them.
HistoryKeepsOrder ==
    /\ \A i \in 1..Len(entered) : his_buf[i] = entered[i]
    /\ pos <= Len(entered)

\* The line editor: what is shown is what is edited, and what was entered comes
\* back.
LineEditInv ==
    LineEditTypeOK /\ LineIsEnded /\ TerminalShowsTheLine /\ HistoryKeepsOrder

=============================================================================
