------------------------------- MODULE Video -------------------------------
(***************************************************************************)
(* The two text terminals (Kernel/video.c), the write and ioctl syscalls   *)
(* that feed them (Kernel/syscall/io.c), the escape key that switches      *)
(* between them, the panic screen (Kernel/kernel.c), the idle process      *)
(* (Kernel/sched.c) and the halt syscall (Kernel/syscall/power.c).         *)
(*                                                                         *)
(* A terminal is an array of cells with a cursor that counts them row by   *)
(* row and may stand one past the last cell.  Handlers run with interrupts *)
(* off, so nothing comes between the characters of their writes: fd is the *)
(* write that is being carried out.  A page fault may come all the same,   *)
(* and ends in panic.  The idle process calls syscall_write itself, with   *)
(* interrupts on: escape comes between any two of its stores.  The colours *)
(* of the cells, and with them the ioctl that sets colours, are left out.  *)
(***************************************************************************)
EXTENDS Integers, Sequences

CONSTANTS
  ROWS, COLS, TAB_SIZE,
  Text,    \* the characters that are printed as they are
  Blank,   \* the character 0
  Input,   \* Input[t]: the characters that are written to terminal t
  Moves,   \* the pairs row, column that a process passes to ioctl
  IdleMsg, \* what the idle process writes each time it runs
  HaltMsg, \* what syscall_halt writes, with the 0 that ends it
  NULL     \* no write in progress

VID_PROC   == 0
VID_SYSLOG == 1
Terms      == {VID_PROC, VID_SYSLOG}

VID_POS(row, col) == COLS * row + col
VID_BUF_SIZE      == COLS * ROWS
Cells             == 0 .. VID_BUF_SIZE - 1

Glyphs   == Text \cup {Blank}
Controls == {"LF", "CR", "BS", "HT"}
Chars    == Glyphs \cup Controls
Streams  == {"STDOUT", "STDRAW", "SYSLOG"}

ASSUME VideoAssumption ==
  /\ ROWS \in Nat \ {0}
  /\ COLS \in Nat \ {0}
  /\ TAB_SIZE \in 1 .. COLS
  /\ Glyphs \cap Controls = {} /\ Blank \notin Text
  /\ Input \in [Terms -> SUBSET Chars]
  /\ Moves \subseteq Int \X Int
  /\ IdleMsg \in Seq(Glyphs)
  /\ HaltMsg \in Seq(Glyphs) /\ Len(HaltMsg) <= VID_BUF_SIZE - COLS
  /\ NULL \notin Streams /\ NULL \notin Terms

VARIABLES
  mode,        \* "boot", "user", "idle", "panic", "halt" or "halted"
  cells,       \* terminals[t].video
  cursor,      \* terminals[t].cursor
  active_term, \* active_term of video.c: the terminal that vid_update copies
  next_term,   \* active_term of kernel.c: the one handle_esc counts with
  video,       \* the screen memory
  from,        \* history: the terminal each cell of the screen was copied from
  fd,          \* the stream being written, NULL between two writes
  said,        \* characters of the kernel's own message that are printed
  source,      \* the terminal that idle's vid_update is copying, or NULL
  copied,      \* the cells it has copied
  line         \* the statement of syscall_halt that is next, 1 to 4

vars == <<mode, cells, cursor, active_term, next_term, video, from, fd, said,
          source, copied, line>>
terminals == <<cells, cursor>>
screen    == <<active_term, next_term, video, from>>
update    == <<source, copied>>

-----------------------------------------------------------------------------
\* vid_init has cleared both terminals.
Init ==
  /\ mode = "boot"
  /\ cells = [t \in Terms |-> [i \in Cells |-> Blank]]
  /\ cursor = [t \in Terms |-> 0]
  /\ active_term = VID_PROC
  /\ next_term = VID_PROC
  /\ video = [i \in Cells |-> Blank]
  /\ from = [i \in Cells |-> VID_PROC]
  /\ fd = NULL
  /\ said = 0
  /\ source = NULL
  /\ copied = 0
  /\ line = 1

\* Fault: a position past the end is not clipped.
vid_cursor_unclipped(row, col) ==
  IF VID_POS(row, col) < 0 THEN 0 ELSE VID_POS(row, col)

\* The cursor that vid_cursor sets: the position, clipped to the buffer.
vid_cursor(row, col) ==
  LET raw == VID_POS(row, col)
      max == VID_POS(ROWS - 1, COLS)
  IN  IF raw > max THEN max ELSE IF raw < 0 THEN 0 ELSE raw

\* The cells v one row further up, the last row blank.
vid_scroll(v) ==
  [i \in Cells |-> IF i + COLS \in Cells THEN v[i + COLS] ELSE Blank]

\* Fault: the scroll is noticed one character late.
Scrolls_late(t) == cursor[t] > VID_POS(ROWS - 1, COLS)

\* The cursor is past the last cell, so that the next character scrolls.
Scrolls(t) == cursor[t] >= VID_POS(ROWS - 1, COLS)

\* The cursor at which the next character of t is handled.
At(t) == IF Scrolls(t) THEN vid_cursor(ROWS - 1, 0) ELSE cursor[t]

\* The cells that character c stores to: _print stores at the cursor and moves
\* it on, up to the end of the row for a newline, up to the tab stop, and at
\* least once, for a tab.
Stores(t, c) ==
  LET at  == At(t)
      row == at \div COLS
      col == at % COLS
  IN  CASE c = "LF"           -> at .. VID_POS(row + 1, 0) - 1
        [] c \in {"CR", "BS"} -> {}
        [] c = "HT"           -> at .. VID_POS(row, IF col < TAB_SIZE
                                                      THEN TAB_SIZE - 1 ELSE col)
        [] OTHER              -> {at}

\* Fault: a backspace in the first column does not change row.
Moved_same_row(t, c) ==
  LET at  == At(t)
      row == at \div COLS
      col == at % COLS
  IN  CASE c = "LF" -> vid_cursor(row + 1, 0)
        [] c = "CR" -> vid_cursor(row, 0)
        [] c = "BS" -> vid_cursor(row, IF col < 1 THEN COLS + col - 1 ELSE col - 1)
        [] c = "HT" -> VID_POS(row, IF col < TAB_SIZE THEN TAB_SIZE ELSE col + 1)
        [] OTHER    -> at + 1

\* Where character c leaves the cursor.
Moved(t, c) ==
  LET at  == At(t)
      row == at \div COLS
      col == at % COLS
      up  == IF row - 1 > 0 THEN row - 1 ELSE 0
  IN  CASE c = "LF" -> vid_cursor(row + 1, 0)
        [] c = "CR" -> vid_cursor(row, 0)
        [] c = "BS" -> IF col < 1 THEN vid_cursor(up, COLS + col - 1)
                                  ELSE vid_cursor(row, col - 1)
        [] c = "HT" -> VID_POS(row, IF col < TAB_SIZE THEN TAB_SIZE ELSE col + 1)
        [] OTHER    -> at + 1

\* The cells of t before character c is stored, and after.
Scrolled(t)  == IF Scrolls(t) THEN vid_scroll(cells[t]) ELSE cells[t]
Stored(t, c) == [i \in Cells |-> IF i \in Stores(t, c)
                                   THEN IF c \in Text THEN c ELSE Blank
                                   ELSE Scrolled(t)[i]]

\* vid_raw_putc: scroll if need be, store, move.
vid_raw_putc(t, c) ==
  /\ cells' = [cells EXCEPT ![t] = Stored(t, c)]
  /\ cursor' = [cursor EXCEPT ![t] = Moved(t, c)]

\* vid_clr types one blank more than there are cells from the first on, which
\* blanks them all.
vid_clr(t) ==
  /\ cells' = [cells EXCEPT ![t] = [i \in Cells |-> Blank]]
  /\ cursor' = [cursor EXCEPT ![t] = 0]

\* vid_update, with interrupts off and terminal t the active one.
vid_update(t) ==
  /\ video' = cells[t]
  /\ from' = [i \in Cells |-> t]

-----------------------------------------------------------------------------
\* The terminal of stream f.
TermOf(f) == IF f \in {"STDOUT", "STDRAW"} THEN VID_PROC ELSE VID_SYSLOG

(***************************************************************************)
(* syscall_write: the head, one step per character, the tail.  STDOUT      *)
(* stands for STDERR too, which differs in colour only.  During boot, the  *)
(* kernel logs to SYSLOG, and may do so later from inside any syscall; it  *)
(* also logs what it panics about.                                         *)
(***************************************************************************)
BeginWrite(f) ==
  /\ fd = NULL
  /\ \/ f = "SYSLOG" /\ mode \in {"boot", "user", "panic"}
     \/ f \in {"STDOUT", "STDRAW"} /\ mode = "user"
  /\ fd' = f
  /\ UNCHANGED <<mode, terminals, screen, said, update, line>>

WriteChar(c) ==
  /\ fd # NULL /\ mode \in {"boot", "user", "panic"}
  /\ c \in Input[TermOf(fd)]
  /\ vid_raw_putc(TermOf(fd), c)
  /\ UNCHANGED <<mode, screen, fd, said, update, line>>

\* A raw write returns without vid_update.
EndRaw ==
  /\ mode = "user" /\ fd = "STDRAW"
  /\ fd' = NULL
  /\ UNCHANGED <<mode, terminals, screen, said, update, line>>

EndWrite ==
  /\ fd \in {"STDOUT", "SYSLOG"} /\ mode \in {"boot", "user", "panic"}
  /\ vid_update(active_term)
  /\ fd' = NULL
  /\ UNCHANGED <<mode, terminals, active_term, next_term, said, update, line>>

\* The end of main(): interrupts are enabled and processes run.
Drop ==
  /\ mode = "boot" /\ fd = NULL
  /\ mode' = "user"
  /\ UNCHANGED <<terminals, screen, fd, said, update, line>>

\* syscall_ioctl, request 0.
MoveCursor(row, col) ==
  /\ mode = "user" /\ fd = NULL
  /\ cursor' = [cursor EXCEPT ![VID_PROC] = vid_cursor(row, col)]
  /\ UNCHANGED <<mode, cells, screen, fd, said, update, line>>

\* syscall_ioctl, request 1.
ClearScreen ==
  /\ mode = "user" /\ fd = NULL
  /\ vid_clr(VID_PROC)
  /\ UNCHANGED <<mode, screen, fd, said, update, line>>

-----------------------------------------------------------------------------
(***************************************************************************)
(* The kernel gives up: main() does during boot, and mem_handler when a    *)
(* process causes a page fault, be it inside a write, of characters that   *)
(* are not mapped.  Interrupts are off from here on.                       *)
(***************************************************************************)
Fault ==
  /\ \/ mode = "boot" /\ fd = NULL
     \/ mode = "user"
  /\ mode' = "panic"
  /\ fd' = NULL
  /\ UNCHANGED <<terminals, screen, said, update, line>>

\* The end of panic: vid_show, vid_update, and on to syscall_halt.
EndPanic ==
  /\ mode = "panic" /\ fd = NULL
  /\ active_term' = VID_SYSLOG
  /\ vid_update(VID_SYSLOG)
  /\ mode' = "halt"
  /\ UNCHANGED <<terminals, next_term, fd, said, update, line>>

\* A process halts the machine.
HaltCall ==
  /\ mode = "user" /\ fd = NULL
  /\ mode' = "halt"
  /\ UNCHANGED <<terminals, screen, fd, said, update, line>>

\* syscall_halt clears the terminal of the processes, ...
HaltClear ==
  /\ mode = "halt" /\ line = 1 /\ fd = NULL
  /\ vid_clr(VID_PROC)
  /\ line' = 2
  /\ UNCHANGED <<mode, screen, fd, said, update>>

\* ... moves its cursor, ...
HaltCursor ==
  /\ mode = "halt" /\ line = 2 /\ fd = NULL
  /\ cursor' = [cursor EXCEPT ![VID_PROC] =
                  vid_cursor(ROWS \div 2, (COLS - Len(HaltMsg)) \div 2)]
  /\ line' = 3
  /\ UNCHANGED <<mode, cells, screen, fd, said, update>>

\* ... and prints its message there, and then on the log.
HaltPrint(f) ==
  /\ mode = "halt" /\ fd = NULL
  /\ \/ f = "STDOUT" /\ line = 3
     \/ f = "SYSLOG" /\ line = 4
  /\ fd' = f
  /\ said' = 0
  /\ UNCHANGED <<mode, terminals, screen, update, line>>

\* The message is on the terminal of the processes.
HaltPrinted ==
  /\ mode = "halt" /\ fd = "STDOUT" /\ said = Len(HaltMsg)
  /\ fd' = NULL
  /\ line' = 4
  /\ UNCHANGED <<mode, terminals, screen, said, update>>

\* It is on the log too: vid_update and _halt.
HaltEnd ==
  /\ mode = "halt" /\ fd = "SYSLOG" /\ said = Len(HaltMsg)
  /\ vid_update(active_term)
  /\ mode' = "halted"
  /\ fd' = NULL
  /\ UNCHANGED <<terminals, active_term, next_term, said, update, line>>

-----------------------------------------------------------------------------
\* The last process has ended: only the idle process runs from now on.
Idle ==
  /\ mode = "user" /\ fd = NULL
  /\ mode' = "idle"
  /\ UNCHANGED <<terminals, screen, fd, said, update, line>>

\* _sched_idle_process: syscall_write, each time an interrupt has ended _drool.
IdleWrite ==
  /\ mode = "idle" /\ fd = NULL
  /\ fd' = "STDOUT"
  /\ said' = 0
  /\ UNCHANGED <<mode, terminals, screen, update, line>>

\* The message that vid_print is printing.
Message == IF mode = "idle" THEN IdleMsg ELSE HaltMsg

\* vid_print of the idle process and of syscall_halt.
PrintChar ==
  /\ mode \in {"idle", "halt"} /\ fd # NULL /\ source = NULL
  /\ said < Len(Message)
  /\ vid_raw_putc(TermOf(fd), Message[said + 1])
  /\ said' = said + 1
  /\ UNCHANGED <<mode, screen, fd, update, line>>

\* Fault: the idle process redraws its own terminal, shown or not.
IdleUpdate_own ==
  /\ mode = "idle" /\ fd = "STDOUT" /\ source = NULL /\ said = Len(IdleMsg)
  /\ source' = VID_PROC
  /\ copied' = 0
  /\ UNCHANGED <<mode, terminals, screen, fd, said, line>>

\* vid_update of the idle process: it looks up the active terminal once, ...
IdleUpdate ==
  /\ mode = "idle" /\ fd = "STDOUT" /\ source = NULL /\ said = Len(IdleMsg)
  /\ source' = active_term
  /\ copied' = 0
  /\ UNCHANGED <<mode, terminals, screen, fd, said, line>>

\* ... and memcpy goes forward through its cells, ...
IdleCopy ==
  /\ source # NULL /\ copied \in Cells
  /\ video' = [video EXCEPT ![copied] = cells[source][copied]]
  /\ from' = [from EXCEPT ![copied] = source]
  /\ copied' = copied + 1
  /\ UNCHANGED <<mode, terminals, active_term, next_term, fd, said, source, line>>

\* ... to the last one.
IdleUpdated ==
  /\ source # NULL /\ copied = VID_BUF_SIZE
  /\ source' = NULL
  /\ copied' = 0
  /\ fd' = NULL
  /\ said' = 0
  /\ UNCHANGED <<mode, terminals, screen, line>>

-----------------------------------------------------------------------------
\* Fault: the terminal shown is the one left.
handle_esc_late ==
  /\ \/ mode = "user" /\ fd = NULL
     \/ mode = "idle"
  /\ next_term' = (next_term + 1) % 2
  /\ active_term' = next_term
  /\ vid_update(active_term')
  /\ UNCHANGED <<mode, terminals, fd, said, update, line>>

\* The escape key, which interrupts a process, or the idle process wherever
\* it is.
handle_esc ==
  /\ \/ mode = "user" /\ fd = NULL
     \/ mode = "idle"
  /\ next_term' = (next_term + 1) % 2
  /\ active_term' = next_term'
  /\ vid_update(active_term')
  /\ UNCHANGED <<mode, terminals, fd, said, update, line>>

\* What a copy of t may find while vid_raw_putc is at work on it: part of the
\* scroll is done, or all of it and part of the stores.
Halfway(t, c) ==
  UNION {{[i \in Cells |-> IF i < k THEN Scrolled(t)[i] ELSE cells[t][i]],
          [i \in Cells |-> IF i < k THEN Stored(t, c)[i] ELSE Scrolled(t)[i]]} :
         k \in Cells}

(***************************************************************************)
(* Escape inside a character of the idle process.  The step is all of the  *)
(* character and the escape, which meet in nothing but the copy that       *)
(* vid_update makes; of several escapes inside one character it is the     *)
(* last, the others being like escapes before the character.               *)
(***************************************************************************)
EscInChar ==
  /\ mode = "idle" /\ fd = "STDOUT" /\ source = NULL
  /\ said < Len(IdleMsg)
  /\ vid_raw_putc(VID_PROC, IdleMsg[said + 1])
  /\ said' = said + 1
  /\ next_term' = (next_term + 1) % 2
  /\ active_term' = next_term'
  /\ \E v \in Halfway(VID_PROC, IdleMsg[said + 1]) :
       video' = IF active_term' = VID_PROC THEN v ELSE cells[active_term']
  /\ from' = [i \in Cells |-> active_term']
  /\ UNCHANGED <<mode, fd, update, line>>

-----------------------------------------------------------------------------
\* What a process, or the kernel for it, does with its terminal.
ProcessStep ==
  \/ \E f \in Streams : BeginWrite(f)
  \/ \E c \in Chars : WriteChar(c)
  \/ EndRaw
  \/ EndWrite
  \/ \E p \in Moves : MoveCursor(p[1], p[2])
  \/ ClearScreen

\* The end of the machine.
HaltStep ==
  \/ Fault
  \/ EndPanic
  \/ HaltCall
  \/ HaltClear
  \/ HaltCursor
  \/ \E f \in Streams : HaltPrint(f)
  \/ HaltPrinted
  \/ HaltEnd

\* The loop of _sched_idle_process.
IdleStep ==
  \/ IdleWrite
  \/ IdleUpdate
  \/ IdleCopy
  \/ IdleUpdated

Next ==
  \/ ProcessStep
  \/ HaltStep
  \/ IdleStep
  \/ PrintChar
  \/ Drop
  \/ Idle
  \/ handle_esc
  \/ EscInChar

(***************************************************************************)
(* The timer interrupt ends every _drool, and nothing else is there to     *)
(* run: the idle process goes on.  Nobody has to press escape.             *)
(***************************************************************************)
Spec == Init /\ [][Next]_vars /\ WF_vars(IdleStep \/ (mode = "idle" /\ PrintChar))

-----------------------------------------------------------------------------
TypeOK ==
  /\ mode \in {"boot", "user", "idle", "panic", "halt", "halted"}
  /\ cells \in [Terms -> [Cells -> Glyphs]]
  /\ cursor \in [Terms -> 0 .. VID_BUF_SIZE]
  /\ active_term \in Terms
  /\ next_term \in Terms
  /\ video \in [Cells -> Glyphs]
  /\ from \in [Cells -> Terms]
  /\ fd \in Streams \cup {NULL}
  /\ said \in Nat
  /\ source \in Terms \cup {NULL}
  /\ copied \in 0 .. VID_BUF_SIZE
  /\ line \in 1 .. 4

(***************************************************************************)
(* Whatever character comes next, vid_raw_putc stores inside the cells of  *)
(* its terminal: neither the fill of a newline, nor a tab near the end of  *)
(* the last row, nor a cursor that ioctl has put past the last cell makes  *)
(* _print write over what follows them, the cursor itself.                 *)
(***************************************************************************)
StoresInside == \A t \in Terms, c \in Chars : Stores(t, c) \subseteq Cells

\* All of the screen comes from the terminal that is meant to be shown.
Whole == \A i \in Cells : from[i] = active_term

\* The terminal that is shown is kept twice.  As long as escape can come the
\* two agree, and so escape turns to the other terminal: panic, which sets
\* only one of them, is never followed by an escape.
EscapeTurns == mode \in {"boot", "user", "idle"} => next_term = active_term

\* The message of syscall_halt stands in front of the cursor of t, k of its
\* characters so far: none was scrolled away or overwritten.
Told(t, k) ==
  /\ cursor[t] >= k
  /\ \A j \in 1 .. k : cells[t][cursor[t] - k + j - 1] = HaltMsg[j]

(***************************************************************************)
(* What the screen shows is one terminal, all of it, the one that escape   *)
(* will turn from, except while the idle process runs; after a panic, at   *)
(* whatever moment and whichever terminal was shown, it is the log.  When  *)
(* the machine has stopped it is up to date and both terminals end in the  *)
(* message of syscall_halt, so that it is seen whichever is shown.         *)
(***************************************************************************)
ScreenSound ==
  /\ mode # "idle" => Whole
  /\ EscapeTurns
  /\ mode = "halted" =>
       /\ video = cells[active_term]
       /\ \A t \in Terms : Told(t, Len(HaltMsg))

(***************************************************************************)
(* An escape that comes inside the vid_update of the idle process leaves   *)
(* a screen of two terminals, for memcpy goes on with the one left.  That  *)
(* does not last: the next round of the idle process, or the next escape,  *)
(* makes the screen whole again.                                           *)
(***************************************************************************)
TornScreenHeals == ~ Whole ~> Whole

=============================================================================
