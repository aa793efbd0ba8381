---------------------------- MODULE VideoProofs ----------------------------
(***************************************************************************)
(* Proofs about the terminals, for every number of rows and columns and    *)
(* every tab stop inside a row.                                            *)
(***************************************************************************)
EXTENDS VideoRefinement, TLAPS

(***************************************************************************)
(* The limit that vid_cursor and vid_raw_putc compute, VID_POS(ROWS - 1,   *)
(* COLS), is the size of the buffer, and the last row starts inside it.    *)
(***************************************************************************)
LEMMA Limit ==
  /\ VID_BUF_SIZE \in Nat
  /\ VID_POS(ROWS - 1, COLS) = VID_BUF_SIZE
  /\ VID_POS(ROWS - 1, 0) \in Cells
<1>1. ROWS \in Nat /\ COLS \in Nat /\ ROWS >= 1 /\ COLS >= 1
  BY VideoAssumption
<1>2. COLS * (ROWS - 1) = COLS * ROWS - COLS
  BY <1>1
<1>3. COLS * (ROWS - 1) >= 0 /\ COLS * ROWS \in Int /\ COLS * (ROWS - 1) \in Int
  BY <1>1
<1> QED
  BY <1>1, <1>2, <1>3 DEF VID_BUF_SIZE, VID_POS, Cells

(***************************************************************************)
(* A cell is in one row and one column of the screen (the division in      *)
(* vid_raw_putc), and the row after its own starts inside the buffer or    *)
(* right behind it.                                                        *)
(***************************************************************************)
LEMMA RowAndColumn ==
  ASSUME NEW at \in Cells
  PROVE  /\ at \div COLS \in 0 .. ROWS - 1
         /\ at % COLS \in 0 .. COLS - 1
         /\ at = COLS * (at \div COLS) + (at % COLS)
         /\ COLS * (at \div COLS) + COLS <= VID_BUF_SIZE
         /\ COLS * (at \div COLS) >= 0
         /\ COLS * (at \div COLS) \in Int
         /\ COLS * ((at \div COLS) + 1) = COLS * (at \div COLS) + COLS
<1> DEFINE q == at \div COLS
           r == at % COLS
<1>1. ROWS \in Nat /\ COLS \in Nat /\ ROWS >= 1 /\ COLS >= 1
  BY VideoAssumption
<1>2. at \in Int /\ 0 <= at /\ at < COLS * ROWS
  BY Limit, <1>1 DEF Cells, VID_BUF_SIZE
<1>3. q \in Int /\ r \in 0 .. COLS - 1 /\ at = COLS * q + r
  BY <1>1, <1>2
<1> HIDE DEF q, r
<1>4. q >= 0
  <2> SUFFICES ASSUME q <= -1 PROVE FALSE
    BY <1>3
  <2>1. COLS * q <= -COLS
    BY <1>1, <1>3
  <2> QED
    BY <2>1, <1>1, <1>2, <1>3
<1>5. q <= ROWS - 1
  <2> SUFFICES ASSUME q >= ROWS PROVE FALSE
    BY <1>1, <1>3
  <2>1. COLS * q >= COLS * ROWS
    BY <1>1, <1>3
  <2> QED
    BY <2>1, <1>1, <1>2, <1>3
<1>6. COLS * (q + 1) = COLS * q + COLS
  BY <1>1, <1>3
<1>7. COLS * (q + 1) <= COLS * ROWS
  BY <1>1, <1>3, <1>5
<1>8. COLS * q >= 0 /\ COLS * q \in Int
  BY <1>1, <1>3, <1>4
<1> QED
  BY <1>1, <1>3, <1>4, <1>5, <1>6, <1>7, <1>8 DEF VID_BUF_SIZE, q, r

\* Whatever row and column it is asked for, vid_cursor stays in the buffer or
\* right behind it.
LEMMA CursorClipped ==
  ASSUME NEW row \in Int, NEW col \in Int
  PROVE  vid_cursor(row, col) \in 0 .. VID_BUF_SIZE
<1>1. VID_POS(row, col) \in Int
  BY VideoAssumption DEF VID_POS
<1> QED
  BY <1>1, Limit DEF vid_cursor

\* A character is handled at a cell, never behind the last one: the scroll has
\* made room.
LEMMA AtInside ==
  ASSUME TypeOK, NEW t \in Terms
  PROVE  At(t) \in Cells
<1>1. cursor[t] \in 0 .. VID_BUF_SIZE
  BY DEF TypeOK
<1>2. CASE Scrolls(t)
  <2>1. vid_cursor(ROWS - 1, 0) = VID_POS(ROWS - 1, 0)
    BY Limit DEF vid_cursor, Cells
  <2> QED
    BY <1>2, <2>1, Limit DEF At
<1>3. CASE ~ Scrolls(t)
  BY <1>1, <1>3, Limit DEF At, Scrolls, Cells
<1> QED
  BY <1>2, <1>3

\* Where vid_raw_putc leaves the cursor.
LEMMA MovedInside ==
  ASSUME TypeOK, NEW t \in Terms, NEW c \in Chars
  PROVE  Moved(t, c) \in 0 .. VID_BUF_SIZE
<1> DEFINE at  == At(t)
           row == at \div COLS
           col == at % COLS
           up  == IF row - 1 > 0 THEN row - 1 ELSE 0
<1>1. at \in Cells
  BY AtInside
<1>2. /\ row \in 0 .. ROWS - 1
      /\ col \in 0 .. COLS - 1
      /\ COLS * row + COLS <= VID_BUF_SIZE
      /\ COLS * row >= 0
      /\ COLS * row \in Int
  BY <1>1, RowAndColumn
<1>3. ROWS \in Nat /\ COLS \in Nat /\ TAB_SIZE \in 1 .. COLS /\ VID_BUF_SIZE \in Nat
  BY VideoAssumption, Limit
<1>4. Moved(t, c) =
        CASE c = "LF" -> vid_cursor(row + 1, 0)
          [] c = "CR" -> vid_cursor(row, 0)
          [] c = "BS" -> IF col < 1 THEN vid_cursor(up, COLS + col - 1)
                                    ELSE vid_cursor(row, col - 1)
          [] c = "HT" -> VID_POS(row, IF col < TAB_SIZE THEN TAB_SIZE ELSE col + 1)
          [] OTHER    -> at + 1
  BY DEF Moved
<1>5. at + 1 \in 0 .. VID_BUF_SIZE
  BY <1>1, <1>3 DEF Cells
<1> HIDE DEF at, row, col
<1>6. VID_POS(row, IF col < TAB_SIZE THEN TAB_SIZE ELSE col + 1) \in 0 .. VID_BUF_SIZE
  BY <1>2, <1>3 DEF VID_POS
<1>7. /\ vid_cursor(row + 1, 0) \in 0 .. VID_BUF_SIZE
      /\ vid_cursor(row, 0) \in 0 .. VID_BUF_SIZE
      /\ vid_cursor(row, col - 1) \in 0 .. VID_BUF_SIZE
      /\ vid_cursor(up, COLS + col - 1) \in 0 .. VID_BUF_SIZE
  <2>1. /\ row \in Int /\ row + 1 \in Int /\ 0 \in Int /\ col - 1 \in Int
        /\ up \in Int /\ COLS + col - 1 \in Int
    BY <1>2, <1>3
  <2> HIDE DEF up
  <2> QED
    BY <2>1, CursorClipped
<1> HIDE DEF up
<1> QED
  BY <1>4, <1>5, <1>6, <1>7

(***************************************************************************)
(* In every state of the right type the next character stores inside its   *)
(* terminal (vid_raw_putc and _print).                                     *)
(***************************************************************************)
LEMMA TypeGivesStoresInside == TypeOK => StoresInside
<1> SUFFICES ASSUME TypeOK, NEW t \in Terms, NEW c \in Chars
             PROVE  Stores(t, c) \subseteq Cells
  BY DEF StoresInside
<1> DEFINE at  == At(t)
           row == at \div COLS
           col == at % COLS
<1>1. at \in Cells
  BY AtInside
<1>2. /\ row \in 0 .. ROWS - 1
      /\ col \in 0 .. COLS - 1
      /\ at = COLS * row + col
      /\ COLS * row + COLS <= VID_BUF_SIZE
      /\ COLS * row >= 0
      /\ COLS * row \in Int
      /\ COLS * (row + 1) = COLS * row + COLS
  BY <1>1, RowAndColumn
<1>3. COLS \in Nat /\ TAB_SIZE \in 1 .. COLS /\ VID_BUF_SIZE \in Nat
  BY VideoAssumption, Limit
<1>4. Stores(t, c) =
        CASE c = "LF"           -> at .. VID_POS(row + 1, 0) - 1
          [] c \in {"CR", "BS"} -> {}
          [] c = "HT"           -> at .. VID_POS(row, IF col < TAB_SIZE
                                                        THEN TAB_SIZE - 1 ELSE col)
          [] OTHER              -> {at}
  BY DEF Stores
<1> HIDE DEF at, row, col
<1>5. at .. VID_POS(row + 1, 0) - 1 \subseteq Cells
  BY <1>1, <1>2, <1>3 DEF VID_POS, Cells
<1>6. at .. VID_POS(row, IF col < TAB_SIZE THEN TAB_SIZE - 1 ELSE col) \subseteq Cells
  BY <1>1, <1>2, <1>3 DEF VID_POS, Cells
<1> QED
  BY <1>1, <1>4, <1>5, <1>6

-----------------------------------------------------------------------------
\* What a character leaves of the types: cells that are glyphs, and a cursor
\* within bounds.
LEMMA PutType ==
  ASSUME TypeOK, NEW t \in Terms, NEW c \in Chars, vid_raw_putc(t, c)
  PROVE  /\ cells' \in [Terms -> [Cells -> Glyphs]]
         /\ cursor' \in [Terms -> 0 .. VID_BUF_SIZE]
         /\ Scrolled(t) \in [Cells -> Glyphs]
         /\ Stored(t, c) \in [Cells -> Glyphs]
<1>1. cursor' \in [Terms -> 0 .. VID_BUF_SIZE]
  BY MovedInside DEF TypeOK, vid_raw_putc
<1>2. Scrolled(t) \in [Cells -> Glyphs]
  BY DEF Scrolled, vid_scroll, TypeOK, Glyphs
<1>3. Stored(t, c) \in [Cells -> Glyphs]
  BY <1>2 DEF Stored, Glyphs
<1> QED
  BY <1>1, <1>2, <1>3 DEF vid_raw_putc, TypeOK

\* The characters that the kernel prints of its own accord.
LEMMA MessageChars ==
  ASSUME TypeOK
  PROVE  /\ said < Len(Message) => Message[said + 1] \in Glyphs
         /\ said < Len(IdleMsg) => IdleMsg[said + 1] \in Glyphs
         /\ Glyphs \subseteq Chars
<1>1. /\ said \in Nat
      /\ IdleMsg \in Seq(Glyphs) /\ HaltMsg \in Seq(Glyphs)
  BY VideoAssumption DEF TypeOK
<1>2. ASSUME NEW m \in Seq(Glyphs), said < Len(m)
      PROVE  m[said + 1] \in Glyphs
  BY <1>1, <1>2
<1>3. Message \in Seq(Glyphs)
  BY <1>1 DEF Message
<1> QED
  BY <1>1, <1>2, <1>3 DEF Chars

\* vid_update copies a terminal.
LEMMA UpdateType ==
  ASSUME TypeOK, NEW t \in Terms, vid_update(t)
  PROVE  video' \in [Cells -> Glyphs] /\ from' \in [Cells -> Terms]
BY DEF TypeOK, vid_update

\* vid_clr leaves blank cells and the cursor at the first.
LEMMA ClearType ==
  ASSUME TypeOK, NEW t \in Terms, vid_clr(t)
  PROVE  /\ cells' \in [Terms -> [Cells -> Glyphs]]
         /\ cursor' \in [Terms -> 0 .. VID_BUF_SIZE]
<1>1. [i \in Cells |-> Blank] \in [Cells -> Glyphs] /\ 0 \in 0 .. VID_BUF_SIZE
  BY Limit DEF Glyphs
<1> QED
  BY <1>1 DEF TypeOK, vid_clr

\* Escape counts from one terminal to the other.
LEMMA OtherTerm ==
  ASSUME NEW t \in Terms
  PROVE  (t + 1) % 2 \in Terms /\ (t + 1) % 2 # t
BY DEF Terms, VID_PROC, VID_SYSLOG

\* A step of the terminals keeps the types, the cursors within bounds included.
LEMMA TypeNext == TypeOK /\ [Next]_vars => TypeOK'
<1> SUFFICES ASSUME TypeOK, [Next]_vars PROVE TypeOK'
  OBVIOUS
<1> USE DEF terminals, screen, update
<1>t. VID_PROC \in Terms /\ VID_SYSLOG \in Terms /\ \A f : TermOf(f) \in Terms
  BY DEF Terms, TermOf
<1>1. ASSUME NEW f \in Streams, BeginWrite(f) \/ HaltPrint(f)
      PROVE  TypeOK'
  BY <1>1 DEF TypeOK, BeginWrite, HaltPrint
<1>2. ASSUME NEW c \in Chars, WriteChar(c)
      PROVE  TypeOK'
  <2>1. /\ cells' \in [Terms -> [Cells -> Glyphs]]
        /\ cursor' \in [Terms -> 0 .. VID_BUF_SIZE]
    BY <1>2, <1>t, PutType DEF WriteChar
  <2> QED
    BY <1>2, <2>1 DEF TypeOK, WriteChar
<1>3. CASE EndRaw \/ Drop \/ Fault \/ HaltCall \/ Idle \/ HaltPrinted \/ IdleWrite
  <2>1. CASE EndRaw \/ Drop \/ Fault
    BY <2>1 DEF TypeOK, EndRaw, Drop, Fault
  <2>2. CASE HaltCall \/ Idle \/ HaltPrinted
    BY <2>2 DEF TypeOK, HaltCall, Idle, HaltPrinted
  <2>3. CASE IdleWrite
    BY <2>3 DEF TypeOK, IdleWrite, Streams
  <2> QED
    BY <1>3, <2>1, <2>2, <2>3
<1>4. CASE EndWrite \/ HaltEnd
  <2>1. active_term \in Terms /\ vid_update(active_term)
    BY <1>4 DEF TypeOK, EndWrite, HaltEnd
  <2>2. video' \in [Cells -> Glyphs] /\ from' \in [Cells -> Terms]
    BY <2>1, UpdateType
  <2> QED
    BY <1>4, <2>2 DEF TypeOK, EndWrite, HaltEnd
<1>5. CASE EndPanic
  <2>1. video' \in [Cells -> Glyphs] /\ from' \in [Cells -> Terms]
    BY <1>5, <1>t, UpdateType DEF EndPanic
  <2> QED
    BY <1>5, <1>t, <2>1 DEF TypeOK, EndPanic
<1>6. CASE ClearScreen \/ HaltClear
  <2>1. /\ cells' \in [Terms -> [Cells -> Glyphs]]
        /\ cursor' \in [Terms -> 0 .. VID_BUF_SIZE]
    BY <1>6, <1>t, ClearType DEF ClearScreen, HaltClear
  <2> QED
    BY <1>6, <2>1 DEF TypeOK, ClearScreen, HaltClear
<1>7. ASSUME NEW p \in Moves, MoveCursor(p[1], p[2])
      PROVE  TypeOK'
  <2>1. p[1] \in Int /\ p[2] \in Int
    BY VideoAssumption
  <2>2. vid_cursor(p[1], p[2]) \in 0 .. VID_BUF_SIZE
    BY <2>1, CursorClipped
  <2> QED
    BY <1>7, <2>2 DEF TypeOK, MoveCursor
<1>8. CASE HaltCursor
  <2>1. ROWS \div 2 \in Int /\ (COLS - Len(HaltMsg)) \div 2 \in Int
    BY VideoAssumption
  <2>2. vid_cursor(ROWS \div 2, (COLS - Len(HaltMsg)) \div 2) \in 0 .. VID_BUF_SIZE
    BY <2>1, CursorClipped
  <2>3. cursor' \in [Terms -> 0 .. VID_BUF_SIZE]
    <3>1. PICK k \in 0 .. VID_BUF_SIZE : cursor' = [cursor EXCEPT ![VID_PROC] = k]
      BY <1>8, <2>2 DEF HaltCursor
    <3> QED
      BY <3>1 DEF TypeOK
  <2>4. line' \in 1 .. 4
    BY <1>8 DEF HaltCursor
  <2>5. UNCHANGED <<mode, cells, active_term, next_term, video, from, fd, said,
                    source, copied>>
    BY <1>8 DEF HaltCursor
  <2> QED
    BY <2>3, <2>4, <2>5 DEF TypeOK
<1>9. CASE handle_esc
  <2>1. next_term' \in Terms /\ active_term' \in Terms
    BY <1>9, OtherTerm DEF TypeOK, handle_esc
  <2>2. video' \in [Cells -> Glyphs] /\ from' \in [Cells -> Terms]
    BY <1>9, <2>1, UpdateType DEF handle_esc
  <2> QED
    BY <1>9, <2>1, <2>2 DEF TypeOK, handle_esc
<1>10. CASE PrintChar
  <2>1. Message[said + 1] \in Chars
    BY <1>10, MessageChars DEF PrintChar
  <2>2. /\ cells' \in [Terms -> [Cells -> Glyphs]]
        /\ cursor' \in [Terms -> 0 .. VID_BUF_SIZE]
    BY <1>10, <1>t, <2>1, PutType DEF PrintChar
  <2> QED
    BY <1>10, <2>2 DEF TypeOK, PrintChar
<1>11. CASE IdleUpdate
  BY <1>11, Limit DEF TypeOK, IdleUpdate
<1>12. CASE IdleCopy
  <2>1. copied + 1 \in 0 .. VID_BUF_SIZE /\ source \in Terms
    BY <1>12, Limit DEF TypeOK, IdleCopy, Cells
  <2> QED
    BY <1>12, <2>1 DEF TypeOK, IdleCopy
<1>13. CASE IdleUpdated
  BY <1>13, Limit DEF TypeOK, IdleUpdated
<1>14. CASE EscInChar
  <2> DEFINE c == IdleMsg[said + 1]
  <2>1. c \in Chars
    BY <1>14, MessageChars DEF EscInChar
  <2>2. vid_raw_putc(VID_PROC, c)
    BY <1>14 DEF EscInChar
  <2>3. /\ cells' \in [Terms -> [Cells -> Glyphs]]
        /\ cursor' \in [Terms -> 0 .. VID_BUF_SIZE]
        /\ Scrolled(VID_PROC) \in [Cells -> Glyphs]
        /\ Stored(VID_PROC, c) \in [Cells -> Glyphs]
    BY <1>t, <2>1, <2>2, PutType
  <2>4. next_term' \in Terms /\ active_term' \in Terms
    BY <1>14, OtherTerm DEF TypeOK, EscInChar
  <2>5. Halfway(VID_PROC, c) \subseteq [Cells -> Glyphs]
    <3>1. cells[VID_PROC] \in [Cells -> Glyphs]
      BY <1>t DEF TypeOK
    <3> HIDE DEF c
    <3> QED BY <2>3, <3>1 DEF Halfway
  <2>6. video' \in [Cells -> Glyphs]
    <3>1. PICK v \in Halfway(VID_PROC, c) :
            video' = IF active_term' = VID_PROC THEN v ELSE cells[active_term']
      BY <1>14 DEF EscInChar
    <3> HIDE DEF c
    <3> QED BY <2>4, <2>5, <3>1 DEF TypeOK
  <2>7. from' \in [Cells -> Terms]
    BY <1>14, <2>4 DEF EscInChar
  <2> QED
    BY <1>14, <2>3, <2>4, <2>6, <2>7 DEF TypeOK, EscInChar
<1>15. CASE UNCHANGED vars
  BY <1>15 DEF TypeOK, vars
<1> QED
  BY <1>1, <1>2, <1>3, <1>4, <1>5, <1>6, <1>7, <1>8, <1>9, <1>10, <1>11, <1>12,
     <1>13, <1>14, <1>15 DEF Next, ProcessStep, HaltStep, IdleStep

(***************************************************************************)
(* The types hold in every reachable state: no sequence of writes, cursor  *)
(* moves and scrolls takes a cursor further than right behind the buffer.  *)
(***************************************************************************)
THEOREM VideoTypeCorrect == Spec => []TypeOK
<1>1. Init => TypeOK
  BY Limit DEF Init, TypeOK, Terms, Glyphs
<1> QED
  BY <1>1, TypeNext, PTL DEF Spec

(***************************************************************************)
(* No character that is ever written, to any terminal of any size, is      *)
(* stored outside the cells of its terminal.                               *)
(***************************************************************************)
THEOREM StoresStayInside == Spec => []StoresInside
<1> QED
  BY VideoTypeCorrect, TypeGivesStoresInside, PTL

-----------------------------------------------------------------------------
\* A character of a message is stored as it is, at the cursor.
LEMMA GlyphPut ==
  ASSUME TypeOK, NEW t \in Terms, NEW c \in Glyphs, vid_raw_putc(t, c)
  PROVE  /\ At(t) \in Cells
         /\ cursor'[t] = At(t) + 1
         /\ \A i \in Cells : cells'[t][i] = IF i = At(t) THEN c ELSE Scrolled(t)[i]
<1>1. c \notin Controls /\ (IF c \in Text THEN c ELSE Blank) = c
  BY VideoAssumption DEF Glyphs
<1>2. Stores(t, c) = {At(t)} /\ Moved(t, c) = At(t) + 1
  BY <1>1 DEF Stores, Moved, Controls
<1>3. cells'[t] = Stored(t, c) /\ cursor'[t] = Moved(t, c)
  BY DEF vid_raw_putc, TypeOK
<1>4. \A i \in Cells : Stored(t, c)[i] = IF i = At(t) THEN c ELSE Scrolled(t)[i]
  BY <1>1, <1>2 DEF Stored
<1> QED BY <1>2, <1>3, <1>4, AtInside

(***************************************************************************)
(* One more character of the message: the others stay in front of it, also *)
(* when it scrolls the terminal (vid_print of syscall_halt).               *)
(***************************************************************************)
LEMMA ToldMore ==
  ASSUME TypeOK, NEW t \in Terms, NEW k \in Nat, k < Len(HaltMsg), Told(t, k),
         vid_raw_putc(t, HaltMsg[k + 1])
  PROVE  Told(t, k + 1)'
<1>1. /\ HaltMsg[k + 1] \in Glyphs /\ Len(HaltMsg) \in Nat
      /\ Len(HaltMsg) <= VID_BUF_SIZE - COLS /\ COLS \in Nat /\ VID_BUF_SIZE \in Nat
  BY VideoAssumption, Limit
<1>2. PICK at \in Cells : at = At(t)
  BY <1>1, AtInside
<1>3. /\ cursor'[t] = at + 1
      /\ \A i \in Cells : cells'[t][i] =
           IF i = at THEN HaltMsg[k + 1] ELSE Scrolled(t)[i]
  BY <1>1, <1>2, GlyphPut
<1>4. at \in Int /\ 0 <= at /\ at < VID_BUF_SIZE
  BY <1>1, <1>2 DEF Cells
<1>5. cursor[t] \in 0 .. VID_BUF_SIZE /\ cursor[t] >= k
  BY DEF TypeOK, Told
<1>6. /\ at >= k
      /\ \A j \in 1 .. k : Scrolled(t)[at - k + j - 1] = HaltMsg[j]
  <2>1. CASE ~ Scrolls(t)
    <3>1. at = cursor[t] /\ Scrolled(t) = cells[t]
      BY <1>2, <2>1 DEF At, Scrolled
    <3> QED BY <1>5, <3>1 DEF Told
  <2>2. CASE Scrolls(t)
    <3>1. cursor[t] = VID_BUF_SIZE
      BY <1>1, <1>5, <2>2, Limit DEF Scrolls
    <3>2. at = VID_BUF_SIZE - COLS
      <4>1. at = VID_POS(ROWS - 1, 0)
        BY <1>2, <2>2, Limit DEF At, vid_cursor, Cells
      <4>2. VID_POS(ROWS - 1, 0) + COLS = VID_POS(ROWS - 1, COLS)
        BY VideoAssumption DEF VID_POS
      <4>3. VID_POS(ROWS - 1, 0) \in Int
        BY Limit DEF Cells
      <4> QED BY <1>1, <4>1, <4>2, <4>3, Limit
    <3>3. ASSUME NEW j \in 1 .. k
          PROVE  Scrolled(t)[at - k + j - 1] = HaltMsg[j]
      <4>1. PICK i \in Cells : i = at - k + j - 1
        BY <1>1, <1>4, <3>2 DEF Cells
      <4>2. i + COLS = cursor[t] - k + j - 1 /\ i + COLS \in Cells
        BY <1>1, <3>1, <3>2, <4>1 DEF Cells
      <4>3. Scrolled(t)[i] = cells[t][i + COLS]
        BY <2>2, <4>2 DEF Scrolled, vid_scroll
      <4> QED BY <4>1, <4>2, <4>3 DEF Told
    <3> QED BY <1>1, <3>2, <3>3
  <2> QED BY <2>1, <2>2
<1>7. ASSUME NEW j \in 1 .. k + 1
      PROVE  cells'[t][cursor'[t] - (k + 1) + j - 1] = HaltMsg[j]
  <2>1. PICK i \in Cells : i = at - k + j - 1
    <3>1. at - k + j - 1 \in Int /\ 0 <= at - k + j - 1 /\ at - k + j - 1 < VID_BUF_SIZE
      BY <1>1, <1>4, <1>6
    <3> QED BY <1>1, <3>1 DEF Cells
  <2>2. cursor'[t] - (k + 1) + j - 1 = i
    BY <1>3, <1>4, <2>1
  <2>3. CASE j = k + 1
    BY <1>3, <1>4, <2>1, <2>2, <2>3
  <2>4. CASE j # k + 1
    <3>1. j \in 1 .. k /\ i # at
      BY <1>4, <2>1, <2>4
    <3>2. Scrolled(t)[i] = HaltMsg[j]
      BY <1>6, <2>1, <3>1
    <3> QED BY <1>3, <2>2, <3>1, <3>2
  <2> QED BY <2>3, <2>4
<1>8. cursor'[t] >= k + 1
  BY <1>3, <1>4, <1>6
<1> QED BY <1>7, <1>8 DEF Told

(***************************************************************************)
(* How far syscall_halt has come, and what is on the terminals by then.    *)
(***************************************************************************)
Halting ==
  /\ mode \notin {"halt", "halted"} => line = 1
  /\ mode = "halt" /\ line = 4 => Told(VID_PROC, Len(HaltMsg))
  /\ mode = "halt" /\ fd # NULL =>
       /\ said <= Len(HaltMsg)
       /\ \/ line = 3 /\ fd = "STDOUT" /\ Told(VID_PROC, said)
          \/ line = 4 /\ fd = "SYSLOG" /\ Told(VID_SYSLOG, said)

\* Only the idle process copies the screen with interrupts on.
ScreenInv == ScreenSound /\ Halting /\ (mode # "idle" => source = NULL)

\* No step of a process, of the idle process, of escape or of the halt leaves
\* the screen unsound.
LEMMA ScreenNext == TypeOK /\ ScreenInv /\ [Next]_vars => ScreenInv'
<1> SUFFICES ASSUME TypeOK, ScreenInv, [Next]_vars PROVE ScreenInv'
  OBVIOUS
<1> USE DEF ScreenInv, terminals, screen, update
<1>1. ASSUME mode' \notin {"idle", "halt", "halted"}, Whole', EscapeTurns',
             line' = line, source' = source, mode \notin {"idle", "halt", "halted"}
      PROVE  ScreenInv'
  BY <1>1 DEF ScreenSound, Halting
<1>2. ASSUME vid_update(active_term') PROVE Whole'
  BY <1>2 DEF vid_update, Whole
<1>3. ASSUME UNCHANGED screen PROVE Whole' <=> Whole
  BY <1>3 DEF Whole
<1>4. ASSUME NEW f \in Streams, BeginWrite(f) PROVE ScreenInv'
  <2>1. mode \in {"boot", "user", "panic"} /\ UNCHANGED <<mode, screen, line, source>>
    BY <1>4 DEF BeginWrite
  <2>2. Whole' /\ EscapeTurns'
    BY <1>3, <2>1 DEF ScreenSound, EscapeTurns
  <2> QED BY <1>1, <2>1, <2>2
<1>5. ASSUME NEW c \in Chars, WriteChar(c) PROVE ScreenInv'
  <2>1. mode \in {"boot", "user", "panic"} /\ UNCHANGED <<mode, screen, line, source>>
    BY <1>5 DEF WriteChar
  <2>2. Whole' /\ EscapeTurns'
    BY <1>3, <2>1 DEF ScreenSound, EscapeTurns
  <2> QED BY <1>1, <2>1, <2>2
<1>6. ASSUME NEW p \in Moves, MoveCursor(p[1], p[2]) PROVE ScreenInv'
  <2>1. mode = "user" /\ UNCHANGED <<mode, screen, line, source>>
    BY <1>6 DEF MoveCursor
  <2>2. Whole' /\ EscapeTurns'
    BY <1>3, <2>1 DEF ScreenSound, EscapeTurns
  <2> QED BY <1>1, <2>1, <2>2
<1>7. CASE EndRaw \/ ClearScreen \/ Drop \/ Fault
  <2>1. /\ mode \in {"boot", "user"} /\ mode' \in {"user", "panic"}
        /\ UNCHANGED <<screen, line, source>>
    BY <1>7 DEF EndRaw, ClearScreen, Drop, Fault
  <2>2. Whole' /\ EscapeTurns'
    BY <1>3, <2>1 DEF ScreenSound, EscapeTurns
  <2> QED BY <1>1, <2>1, <2>2
<1>8. CASE EndWrite
  <2>1. /\ mode \in {"boot", "user", "panic"} /\ vid_update(active_term')
        /\ UNCHANGED <<mode, active_term, next_term, line, source>>
    BY <1>8 DEF EndWrite
  <2>2. Whole' /\ EscapeTurns'
    BY <1>2, <2>1 DEF ScreenSound, EscapeTurns
  <2> QED BY <1>1, <2>1, <2>2
<1>9. CASE handle_esc
  <2>1. /\ mode' = mode /\ mode \in {"user", "idle"} /\ Whole'
        /\ next_term' = active_term' /\ line' = line /\ source' = source
    BY <1>2, <1>9 DEF handle_esc
  <2> QED BY <2>1 DEF ScreenSound, Halting, EscapeTurns
<1>10. CASE Idle
  BY <1>10 DEF Idle, ScreenSound, Halting, EscapeTurns
<1>11. CASE IdleStep \/ EscInChar \/ (mode = "idle" /\ PrintChar)
  <2>1. source = NULL => mode = "idle"
    BY <1>11 DEF IdleStep, IdleWrite, IdleUpdate, IdleCopy, IdleUpdated, EscInChar
  <2>2. mode = "idle" /\ mode' = mode /\ line' = line
    BY <1>11, <2>1 DEF IdleStep, IdleWrite, IdleUpdate, IdleCopy, IdleUpdated,
                       EscInChar, PrintChar
  <2>3. next_term' = active_term'
    BY <1>11, <2>2 DEF IdleStep, IdleWrite, IdleUpdate, IdleCopy, IdleUpdated,
                       EscInChar, PrintChar, ScreenSound, EscapeTurns
  <2> QED BY <2>2, <2>3 DEF ScreenSound, Halting, EscapeTurns
<1>12. CASE EndPanic
  <2>1. /\ mode = "panic" /\ mode' = "halt" /\ fd' = NULL /\ Whole'
        /\ line' = line /\ source' = source
    BY <1>2, <1>12 DEF EndPanic
  <2> QED BY <2>1 DEF ScreenSound, Halting, EscapeTurns
<1>13. CASE HaltCall
  <2>1. /\ mode = "user" /\ mode' = "halt" /\ fd' = NULL /\ Whole'
        /\ line' = line /\ source' = source
    BY <1>3, <1>13 DEF HaltCall, ScreenSound
  <2> QED BY <2>1 DEF ScreenSound, Halting, EscapeTurns
<1>14. CASE HaltClear \/ HaltCursor
  <2>1. /\ mode = "halt" /\ mode' = "halt" /\ fd' = NULL /\ Whole'
        /\ line' # 4 /\ source' = source
    BY <1>3, <1>14 DEF HaltClear, HaltCursor, ScreenSound
  <2> QED BY <2>1 DEF ScreenSound, Halting, EscapeTurns
<1>15. ASSUME NEW f \in Streams, HaltPrint(f) PROVE ScreenInv'
  <2>1. /\ mode = "halt" /\ mode' = "halt" /\ Whole' /\ said' = 0
        /\ UNCHANGED <<cells, cursor, line, source>>
        /\ \/ line = 3 /\ fd' = "STDOUT"
           \/ line = 4 /\ fd' = "SYSLOG"
    BY <1>3, <1>15 DEF HaltPrint, ScreenSound
  <2>2. 0 <= Len(HaltMsg) /\ \A t \in Terms : Told(t, said)'
    <3>1. \A t \in Terms : cursor'[t] >= 0
      BY <2>1 DEF TypeOK
    <3> QED BY <2>1, <3>1, VideoAssumption DEF Told
  <2>3. VID_PROC \in Terms /\ VID_SYSLOG \in Terms
    BY DEF Terms
  <2>4. line' = 4 => Told(VID_PROC, Len(HaltMsg))'
    BY <2>1 DEF Halting, Told
  <2> QED BY <2>1, <2>2, <2>3, <2>4 DEF ScreenSound, Halting, EscapeTurns
<1>16. CASE mode # "idle" /\ PrintChar
  <2>1. /\ mode = "halt" /\ mode' = "halt" /\ Whole' /\ said' = said + 1
        /\ fd # NULL /\ UNCHANGED <<fd, line, source>>
        /\ said \in Nat /\ said < Len(HaltMsg) /\ Len(HaltMsg) \in Nat
        /\ vid_raw_putc(TermOf(fd), HaltMsg[said + 1])
    BY <1>3, <1>16, VideoAssumption DEF PrintChar, Message, TypeOK, ScreenSound
  <2>2. VID_PROC \in Terms /\ VID_SYSLOG \in Terms /\ VID_PROC # VID_SYSLOG
    BY DEF Terms, VID_PROC, VID_SYSLOG
  <2>3. said' <= Len(HaltMsg)
    BY <2>1
  <2>4. CASE line = 3 /\ fd = "STDOUT" /\ Told(VID_PROC, said)
    <3>1. TermOf(fd) = VID_PROC
      BY <2>4 DEF TermOf
    <3>2. Told(VID_PROC, said)'
      <4>1. PICK k \in Nat : k = said
        BY <2>1
      <4>2. Told(VID_PROC, k + 1)'
        BY <2>1, <2>2, <2>4, <3>1, <4>1, ToldMore
      <4> QED BY <2>1, <4>1, <4>2 DEF Told
    <3> QED BY <2>1, <2>3, <2>4, <3>2 DEF ScreenSound, Halting, EscapeTurns
  <2>5. CASE line = 4 /\ fd = "SYSLOG" /\ Told(VID_SYSLOG, said)
    <3>1. TermOf(fd) = VID_SYSLOG
      BY <2>5 DEF TermOf
    <3>2. Told(VID_SYSLOG, said)'
      <4>1. PICK k \in Nat : k = said
        BY <2>1
      <4>2. Told(VID_SYSLOG, k + 1)'
        BY <2>1, <2>2, <2>5, <3>1, <4>1, ToldMore
      <4> QED BY <2>1, <4>1, <4>2 DEF Told
    <3>3. cells'[VID_PROC] = cells[VID_PROC] /\ cursor'[VID_PROC] = cursor[VID_PROC]
      BY <2>1, <2>2, <3>1 DEF vid_raw_putc, TypeOK
    <3>4. Told(VID_PROC, Len(HaltMsg))'
      BY <2>1, <2>5, <3>3 DEF Halting, Told
    <3> QED BY <2>1, <2>3, <2>5, <3>2, <3>4 DEF ScreenSound, Halting, EscapeTurns
  <2> QED BY <2>1, <2>4, <2>5 DEF Halting
<1>17. CASE HaltPrinted
  <2>1. /\ mode = "halt" /\ mode' = "halt" /\ Whole' /\ fd' = NULL
        /\ UNCHANGED <<cells, cursor, source>>
    BY <1>3, <1>17 DEF HaltPrinted, ScreenSound
  <2>2. Told(VID_PROC, Len(HaltMsg))
    BY <1>17, VideoAssumption DEF HaltPrinted, Halting, Streams
  <2>3. Told(VID_PROC, Len(HaltMsg))'
    BY <2>1, <2>2 DEF Told
  <2> QED BY <2>1, <2>3 DEF ScreenSound, Halting, EscapeTurns
<1>18. CASE HaltEnd
  <2>1. /\ mode = "halt" /\ mode' = "halted" /\ Whole' /\ source' = source
        /\ video' = cells'[active_term'] /\ UNCHANGED <<cells, cursor>>
    BY <1>2, <1>18 DEF HaltEnd, vid_update
  <2>2. Told(VID_SYSLOG, Len(HaltMsg)) /\ Told(VID_PROC, Len(HaltMsg))
    BY <1>18, VideoAssumption DEF HaltEnd, Halting, Streams
  <2>3. \A t \in Terms : Told(t, Len(HaltMsg))'
    BY <2>1, <2>2 DEF Told, Terms
  <2> QED BY <2>1, <2>3 DEF ScreenSound, Halting, EscapeTurns
<1>19. CASE UNCHANGED vars
  <2>1. Whole' <=> Whole
    BY <1>3, <1>19 DEF vars
  <2>2. \A t \in Terms : Told(t, Len(HaltMsg))' <=> Told(t, Len(HaltMsg))
    BY <1>19 DEF vars, Told
  <2>3. \A t \in Terms : Told(t, said)' <=> Told(t, said)
    BY <1>19 DEF vars, Told
  <2>4. VID_PROC \in Terms /\ VID_SYSLOG \in Terms
    BY DEF Terms
  <2> QED BY <1>19, <2>1, <2>2, <2>3, <2>4
          DEF vars, ScreenSound, Halting, EscapeTurns
<1> HIDE DEF ScreenInv, terminals, screen, update
<1>20. CASE ProcessStep
  BY <1>4, <1>5, <1>6, <1>7, <1>8, <1>20 DEF ProcessStep
<1>21. CASE HaltStep
  BY <1>7, <1>12, <1>13, <1>14, <1>15, <1>17, <1>18, <1>21 DEF HaltStep
<1> QED BY <1>7, <1>9, <1>10, <1>11, <1>16, <1>19, <1>20, <1>21 DEF Next

(***************************************************************************)
(* Whatever processes write, wherever a page fault or a halt comes and     *)
(* however often escape was pressed, the screen is one terminal, the one   *)
(* that escape turns from, and the machine stops with its message on both  *)
(* (handle_esc, panic, syscall_halt); only the idle process can tear it.   *)
(***************************************************************************)
THEOREM ScreenAlwaysSound == Spec => []ScreenSound
<1>1. Init => ScreenInv
  BY DEF Init, ScreenInv, ScreenSound, Halting, EscapeTurns, Whole
<1>2. ScreenInv => ScreenSound
  BY DEF ScreenInv
<1> QED BY <1>1, <1>2, ScreenNext, VideoTypeCorrect, PTL DEF Spec

-----------------------------------------------------------------------------
\* The cells v of a terminal as rows and columns, and a cursor k among them.
AsSheet(v) == [r \in 0 .. ROWS - 1 |-> [c \in 0 .. COLS - 1 |-> v[VID_POS(r, c)]]]
Place(k) == <<k \div COLS, k % COLS>>

LEMMA Sizes ==
  /\ ROWS \in Nat /\ ROWS >= 1 /\ COLS \in Nat /\ COLS >= 1
  /\ TAB_SIZE \in 1 .. COLS /\ VID_BUF_SIZE \in Nat
BY VideoAssumption, Limit

\* A row and a column give the place they come from back.
LEMMA PlaceOf ==
  ASSUME NEW r \in Nat, NEW c \in 0 .. COLS - 1
  PROVE  VID_POS(r, c) \div COLS = r /\ VID_POS(r, c) % COLS = c
<1>1. PICK k \in Nat : k = COLS * r + c
  <2>1. COLS * r \in Nat
    BY Sizes
  <2> QED BY <2>1
<1>2. PICK q \in Nat, m \in 0 .. COLS - 1 :
        k = COLS * q + m /\ q = k \div COLS /\ m = k % COLS
  <2>1. /\ k % COLS \in 0 .. COLS - 1 /\ k \div COLS \in Nat
        /\ k = COLS * (k \div COLS) + (k % COLS)
    BY Sizes
  <2> QED BY <2>1
<1>3. ASSUME NEW x \in Nat, NEW y \in Nat, x < y
      PROVE  COLS * x + COLS <= COLS * y
  <2>1. PICK d \in Nat : y = x + 1 + d
    <3>1. y - x - 1 \in Nat /\ y = x + 1 + (y - x - 1)
      BY <1>3
    <3> QED BY <3>1
  <2>2. COLS * y = COLS * x + COLS + COLS * d
    BY <2>1, Sizes
  <2>3. COLS * d \in Nat /\ COLS * x \in Nat
    BY Sizes
  <2> QED BY <2>2, <2>3, Sizes
<1>4. PICK u \in Nat, v \in Nat : u = COLS * r /\ v = COLS * q
  <2>1. COLS * r \in Nat /\ COLS * q \in Nat
    BY Sizes
  <2> QED BY <2>1
<1>5. u + c = v + m
  BY <1>1, <1>2, <1>4
<1>6. ~ (r < q) /\ ~ (q < r)
  BY <1>3, <1>4, <1>5, Sizes
<1>7. r = q
  BY <1>6
<1>8. m = c
  BY <1>4, <1>5, <1>7
<1> QED BY <1>1, <1>2, <1>7, <1>8 DEF VID_POS

\* The cells are the places of the grid, and the place behind them its end.
LEMMA GridCell ==
  ASSUME NEW r \in 0 .. ROWS - 1, NEW c \in 0 .. COLS - 1
  PROVE  /\ VID_POS(r, c) \in Cells
         /\ VID_POS(r, 0) \in Int
         /\ VID_POS(r, c) = VID_POS(r, 0) + c
         /\ VID_POS(r, c) + COLS = VID_POS(r + 1, c)
         /\ VID_POS(r + 1, c) \in Cells <=> r # ROWS - 1
<1>1. PICK u \in Nat : u = COLS * r
  <2>1. COLS * r \in Nat
    BY Sizes
  <2> QED BY <2>1
<1>2. COLS * (r + 1) = u + COLS
  BY <1>1, Sizes
<1>3. u + COLS <= VID_BUF_SIZE
  <2>1. PICK d \in Nat : ROWS = r + 1 + d
    <3>1. ROWS - r - 1 \in Nat /\ ROWS = r + 1 + (ROWS - r - 1)
      BY Sizes
    <3> QED BY <3>1
  <2>2. COLS * ROWS = u + COLS + COLS * d
    BY <1>1, <2>1, Sizes
  <2>3. COLS * d \in Nat
    BY Sizes
  <2> QED BY <2>2, <2>3, Sizes DEF VID_BUF_SIZE
<1>4. CASE r = ROWS - 1
  <2>1. COLS * (r + 1) = VID_BUF_SIZE
    BY <1>4, Sizes DEF VID_BUF_SIZE
  <2> QED BY <1>1, <1>2, <1>3, <1>4, <2>1, Sizes DEF VID_POS, Cells
<1>5. CASE r # ROWS - 1
  <2>1. PICK d \in Nat : ROWS = r + 2 + d
    <3>1. ROWS - r - 2 \in Nat /\ ROWS = r + 2 + (ROWS - r - 2)
      BY <1>5, Sizes
    <3> QED BY <3>1
  <2>2. COLS * ROWS = u + COLS + COLS + COLS * d
    BY <1>1, <2>1, Sizes
  <2>3. COLS * d \in Nat
    BY Sizes
  <2>4. u + COLS + COLS <= VID_BUF_SIZE
    BY <2>2, <2>3, Sizes DEF VID_BUF_SIZE
  <2> QED BY <1>1, <1>2, <1>3, <1>5, <2>4, Sizes DEF VID_POS, Cells
<1> QED BY <1>4, <1>5

\* The grid that a character is struck on: scrolled, if the sheet is full.
LEMMA ReadyGrid ==
  ASSUME TypeOK, NEW t \in Terms
  PROVE  /\ Grid!Full(t) <=> Scrolls(t)
         /\ Grid!Row(t) = At(t) \div COLS
         /\ Grid!Column(t) = At(t) % COLS
         /\ Grid!Ready(t) = AsSheet(IF Scrolls(t) THEN vid_scroll(cells[t])
                                                  ELSE cells[t])
<1>1. cursor[t] \in 0 .. VID_BUF_SIZE /\ At(t) \in Cells
  BY AtInside DEF TypeOK
<1>2. Grid!Full(t) <=> cursor[t] \div COLS = ROWS
  BY DEF Grid!Full
<1>3. Scrolls(t) <=> cursor[t] = VID_BUF_SIZE
  BY <1>1, Limit DEF Scrolls
<1>4. Grid!Full(t) <=> Scrolls(t)
  <2>1. CASE cursor[t] = VID_BUF_SIZE
    <3>1. VID_BUF_SIZE = VID_POS(ROWS, 0)
      BY Sizes DEF VID_BUF_SIZE, VID_POS
    <3>2. VID_BUF_SIZE \div COLS = ROWS
      BY <3>1, PlaceOf, Sizes
    <3> QED BY <1>2, <1>3, <2>1, <3>2
  <2>2. CASE cursor[t] # VID_BUF_SIZE
    <3>1. cursor[t] \in Cells
      BY <1>1, <2>2, Sizes DEF Cells
    <3>2. cursor[t] \div COLS \in 0 .. ROWS - 1
      BY <3>1, RowAndColumn
    <3> QED BY <1>2, <1>3, <2>2, <3>2, Sizes
  <2> QED BY <2>1, <2>2
<1>5. Grid!Row(t) = At(t) \div COLS /\ Grid!Column(t) = At(t) % COLS
  <2>1. CASE Scrolls(t)
    <3>1. At(t) = VID_POS(ROWS - 1, 0)
      BY <2>1, Limit DEF At, vid_cursor, Cells
    <3>2. At(t) \div COLS = ROWS - 1 /\ At(t) % COLS = 0
      BY <3>1, PlaceOf, Sizes
    <3> QED BY <1>4, <2>1, <3>2 DEF Grid!Row, Grid!Column
  <2>2. CASE ~ Scrolls(t)
    BY <1>4, <2>2 DEF Grid!Row, Grid!Column, At
  <2> QED BY <2>1, <2>2
<1>6. Grid!Ready(t) = AsSheet(IF Scrolls(t) THEN vid_scroll(cells[t])
                                            ELSE cells[t])
  <2>1. CASE ~ Scrolls(t)
    BY <1>4, <2>1 DEF Grid!Ready, AsSheet
  <2>2. CASE Scrolls(t)
    <3>1. ASSUME NEW r \in 0 .. ROWS - 1
          PROVE  Grid!Ready(t)[r] = AsSheet(vid_scroll(cells[t]))[r]
      <4>1. CASE r = ROWS - 1
        <5>1. \A c \in 0 .. COLS - 1 : vid_scroll(cells[t])[VID_POS(r, c)] = Blank
          BY <4>1, GridCell DEF vid_scroll
        <5> QED BY <1>4, <2>2, <4>1, <5>1
                DEF Grid!Ready, Grid!Clean, Grid!Rows, Grid!Columns, AsSheet
      <4>2. CASE r # ROWS - 1
        <5>1. \A c \in 0 .. COLS - 1 :
                vid_scroll(cells[t])[VID_POS(r, c)] = cells[t][VID_POS(r + 1, c)]
          BY <4>2, GridCell DEF vid_scroll
        <5>2. r + 1 \in 0 .. ROWS - 1
          BY <4>2, Sizes
        <5> QED BY <1>4, <2>2, <4>2, <5>1, <5>2
                DEF Grid!Ready, Grid!Rows, AsSheet
      <4> QED BY <4>1, <4>2
    <3>2. /\ Grid!Ready(t) = [r \in 0 .. ROWS - 1 |-> Grid!Ready(t)[r]]
          /\ AsSheet(vid_scroll(cells[t])) =
               [r \in 0 .. ROWS - 1 |-> AsSheet(vid_scroll(cells[t]))[r]]
      BY <1>4, <2>2 DEF Grid!Ready, Grid!Rows, AsSheet
    <3> QED BY <2>2, <3>1, <3>2
  <2> QED BY <2>1, <2>2
<1> QED BY <1>4, <1>5, <1>6

\* Character c is put on the terminal of the write in progress.
Puts(c) == fd # NULL /\ fd' = fd /\ vid_raw_putc(TermOf(fd), c)

(***************************************************************************)
(* vid_raw_putc is a strike on the grid, once its stores are known as      *)
(* columns S of one row and its cursor as a place.                         *)
(***************************************************************************)
LEMMA PutStrikes ==
  ASSUME TypeOK, NEW c \in Chars, Puts(c), NEW t, t = TermOf(fd),
         NEW S, NEW g, g = (IF c \in Text THEN c ELSE Blank),
         NEW h, h = Place(Moved(t, c)),
         \A r \in 0 .. ROWS - 1, k \in 0 .. COLS - 1 :
           VID_POS(r, k) \in Stores(t, c) <=> r = At(t) \div COLS /\ k \in S
  PROVE  Grid!Strike(t, S, g, h)
<1>1. t \in Terms /\ fd # NULL
  BY DEF TermOf, Terms, Puts
<1> DEFINE v == IF Scrolls(t) THEN vid_scroll(cells[t]) ELSE cells[t]
           w == [i \in Cells |-> IF i \in Stores(t, c) THEN g ELSE v[i]]
           row == At(t) \div COLS
<1>2. cells' = [cells EXCEPT ![t] = w]
  BY <1>1 DEF Puts, vid_raw_putc, Stored, Scrolled, TypeOK
<1>3. cursor' = [cursor EXCEPT ![t] = Moved(t, c)] /\ fd' = fd
  BY DEF Puts, vid_raw_putc
<1>4. row \in 0 .. ROWS - 1
  BY <1>1, AtInside, RowAndColumn
<1> HIDE DEF row, v
<1>5. AsSheet(w) = [AsSheet(v) EXCEPT ![row] =
                      [k \in 0 .. COLS - 1 |-> IF k \in S THEN g ELSE @[k]]]
  <2>1. ASSUME NEW r \in 0 .. ROWS - 1, NEW k \in 0 .. COLS - 1
        PROVE  w[VID_POS(r, k)] = IF r = row /\ k \in S THEN g
                                  ELSE v[VID_POS(r, k)]
    BY GridCell DEF row
  <2> HIDE DEF w
  <2>2. PICK A : A = AsSheet(v)
    OBVIOUS
  <2>3. A = [r \in 0 .. ROWS - 1 |-> [k \in 0 .. COLS - 1 |-> v[VID_POS(r, k)]]]
    BY <2>2 DEF AsSheet
  <2>4. [A EXCEPT ![row] = [k \in 0 .. COLS - 1 |->
                              IF k \in S THEN g ELSE @[k]]]
        = [r \in 0 .. ROWS - 1 |-> [k \in 0 .. COLS - 1 |->
             IF r = row /\ k \in S THEN g ELSE v[VID_POS(r, k)]]]
    BY <1>4, <2>3
  <2>5. AsSheet(w) = [r \in 0 .. ROWS - 1 |-> [k \in 0 .. COLS - 1 |->
             IF r = row /\ k \in S THEN g ELSE v[VID_POS(r, k)]]]
    BY <2>1 DEF AsSheet
  <2> QED BY <2>2, <2>4, <2>5
<1>6. Grid!Ready(t) = AsSheet(v) /\ Grid!Row(t) = row
  BY <1>1, ReadyGrid DEF v, row
<1>7. /\ cells \in [Terms -> [Cells -> Glyphs]]
      /\ cursor \in [Terms -> 0 .. VID_BUF_SIZE]
  BY DEF TypeOK
<1> HIDE DEF w
<1>8. [u \in Terms |-> AsSheet(cells'[u])] =
        [[u \in Terms |-> AsSheet(cells[u])] EXCEPT ![t] =
            [Grid!Ready(t) EXCEPT ![Grid!Row(t)] =
               [k \in 0 .. COLS - 1 |-> IF k \in S THEN g ELSE @[k]]]]
  BY <1>1, <1>2, <1>5, <1>6, <1>7
<1>9. [u \in Terms |-> Place(cursor'[u])] =
        [[u \in Terms |-> Place(cursor[u])] EXCEPT ![t] = h]
  BY <1>1, <1>3, <1>7
<1> QED BY <1>1, <1>3, <1>8, <1>9
        DEF Grid!Strike, Grid!Columns, AsSheet, Place

\* The cells between two columns of a row are in that row.
LEMMA SameRow ==
  ASSUME NEW r \in 0 .. ROWS - 1, NEW k \in 0 .. COLS - 1,
         NEW row \in 0 .. ROWS - 1,
         NEW a \in 0 .. COLS - 1, NEW b \in 0 .. COLS - 1
  PROVE  VID_POS(r, k) \in VID_POS(row, a) .. VID_POS(row, b) <=>
           r = row /\ k \in a .. b
<1>1. PICK u \in Nat, v \in Nat : u = COLS * r /\ v = COLS * row
  <2>1. COLS * r \in Nat /\ COLS * row \in Nat
    BY Sizes
  <2> QED BY <2>1
<1>2. ASSUME NEW x \in Nat, NEW y \in Nat, x < y
      PROVE  COLS * x + COLS <= COLS * y
  <2>1. PICK d \in Nat : y = x + 1 + d
    <3>1. y - x - 1 \in Nat /\ y = x + 1 + (y - x - 1)
      BY <1>2
    <3> QED BY <3>1
  <2>2. COLS * y = COLS * x + COLS + COLS * d
    BY <2>1, Sizes
  <2>3. COLS * d \in Nat /\ COLS * x \in Nat
    BY Sizes
  <2> QED BY <2>2, <2>3, Sizes
<1>3. /\ r < row => u + COLS <= v
      /\ row < r => v + COLS <= u
      /\ r = row => u = v
  BY <1>1, <1>2
<1>4. /\ VID_POS(r, k) = u + k
      /\ VID_POS(row, a) = v + a /\ VID_POS(row, b) = v + b
  BY <1>1 DEF VID_POS
<1> QED BY <1>3, <1>4, Sizes

\* One cell on is one column on, or the start of the next row.
LEMMA NextPlace ==
  ASSUME NEW r \in 0 .. ROWS - 1, NEW c \in 0 .. COLS - 1
  PROVE  /\ Place(VID_POS(r, c)) = <<r, c>>
         /\ Place(VID_POS(r + 1, 0)) = <<r + 1, 0>>
         /\ Place(VID_POS(r, c) + 1) = Grid!After(r, c)
         /\ vid_cursor(r, c) = VID_POS(r, c)
         /\ vid_cursor(r + 1, 0) = VID_POS(r + 1, 0)
         /\ VID_POS(r + 1, 0) - 1 = VID_POS(r, COLS - 1)
<1>1. PICK u \in Int : u = VID_POS(r, 0)
  BY GridCell
<1>2. 0 \in 0 .. COLS - 1 /\ COLS - 1 \in 0 .. COLS - 1
  BY Sizes
<1>3. /\ VID_POS(r, c) = u + c /\ VID_POS(r, COLS - 1) = u + COLS - 1
      /\ VID_POS(r + 1, 0) = u + COLS
      /\ u \in Cells /\ u + c \in Cells /\ u + COLS - 1 \in Cells
  <2>1. VID_POS(r, COLS - 1) = u + (COLS - 1)
    BY <1>1, <1>2, GridCell
  <2>2. VID_POS(r, c) = u + c /\ VID_POS(r, 0) + COLS = VID_POS(r + 1, 0)
    BY <1>1, <1>2, GridCell
  <2>3. VID_POS(r, c) \in Cells /\ VID_POS(r, COLS - 1) \in Cells
        /\ VID_POS(r, 0) \in Cells
    BY <1>2, GridCell
  <2> QED BY <1>1, <2>1, <2>2, <2>3, Sizes
<1>4. vid_cursor(r, c) = VID_POS(r, c)
      /\ vid_cursor(r + 1, 0) = VID_POS(r + 1, 0)
  BY <1>1, <1>3, Limit, Sizes DEF vid_cursor, Cells
<1>5. Place(VID_POS(r, c)) = <<r, c>> /\ Place(VID_POS(r + 1, 0)) = <<r + 1, 0>>
  BY <1>2, PlaceOf, Sizes DEF Place
<1>6. CASE c = COLS - 1
  BY <1>1, <1>3, <1>5, <1>6, <1>4, Sizes DEF Grid!After
<1>7. CASE c # COLS - 1
  <2>1. c + 1 \in 0 .. COLS - 1
    BY <1>7, Sizes
  <2>2. VID_POS(r, c + 1) = u + (c + 1)
    BY <1>1, <2>1, GridCell
  <2>3. Place(VID_POS(r, c + 1)) = <<r, c + 1>>
    BY <2>1, PlaceOf, Sizes DEF Place
  <2>4. VID_POS(r, c) + 1 = VID_POS(r, c + 1)
    BY <1>1, <1>3, <2>2
  <2> QED BY <1>1, <1>3, <1>4, <1>5, <1>7, <2>3, <2>4, Sizes DEF Grid!After
<1> QED BY <1>6, <1>7

\* Every character does to the grid what it does to the cells.
LEMMA PutRefines ==
  ASSUME TypeOK, NEW c \in Chars, Puts(c)
  PROVE  Grid!GridNext
<1>1. PICK t \in Terms : t = TermOf(fd)
  BY DEF TermOf, Terms
<1>2. PICK at, row, col : at = At(t) /\ row = at \div COLS /\ col = at % COLS
  OBVIOUS
<1>3. /\ row \in 0 .. ROWS - 1 /\ col \in 0 .. COLS - 1
      /\ at = VID_POS(row, col) /\ at \in Cells
  BY <1>2, AtInside, RowAndColumn DEF VID_POS
<1>4. Grid!Row(t) = row /\ Grid!Column(t) = col
  BY <1>2, ReadyGrid
<1>5. /\ "LF" \notin Text /\ "CR" \notin Text /\ "BS" \notin Text
      /\ "HT" \notin Text
  BY VideoAssumption DEF Controls, Glyphs
<1>6. ASSUME NEW S, NEW g, g = (IF c \in Text THEN c ELSE Blank),
             NEW h, h = Place(Moved(t, c)),
             \A r \in 0 .. ROWS - 1, k \in 0 .. COLS - 1 :
               VID_POS(r, k) \in Stores(t, c) <=> r = row /\ k \in S
      PROVE  Grid!Strike(t, S, g, h)
  BY <1>1, <1>2, <1>6, PutStrikes
<1>7. CASE c = "LF"
  <2>1. Stores(t, c) = VID_POS(row, col) .. VID_POS(row, COLS - 1)
    BY <1>2, <1>3, <1>7, NextPlace DEF Stores
  <2>2. Place(Moved(t, c)) = <<row + 1, 0>>
    BY <1>2, <1>3, <1>7, NextPlace DEF Moved
  <2>3. \A r \in 0 .. ROWS - 1, k \in 0 .. COLS - 1 :
          VID_POS(r, k) \in Stores(t, c) <=> r = row /\ k \in col .. COLS - 1
    BY <1>3, <2>1, SameRow, Sizes
  <2>4. Grid!Strike(t, col .. COLS - 1, Blank, <<row + 1, 0>>)
    BY <1>5, <1>6, <1>7, <2>2, <2>3
  <2>5. Grid!NewLine(t)
    BY <1>4, <2>4 DEF Grid!NewLine, Grid!Strike
  <2> QED BY <2>5 DEF Grid!GridNext
<1>8. CASE c = "CR"
  <2>1. Stores(t, c) = {}
    BY <1>8 DEF Stores
  <2>2. Place(Moved(t, c)) = <<row, 0>>
    <3>1. 0 \in 0 .. COLS - 1
      BY Sizes
    <3> QED BY <1>2, <1>3, <1>8, <3>1, NextPlace DEF Moved
  <2>3. Grid!Strike(t, {}, Blank, <<row, 0>>)
    BY <1>5, <1>6, <1>8, <2>1, <2>2
  <2>4. Grid!CarriageReturn(t)
    BY <1>4, <2>3 DEF Grid!CarriageReturn, Grid!Strike
  <2> QED BY <2>4 DEF Grid!GridNext
<1>9. CASE c = "BS"
  <2> DEFINE h == IF col > 0 THEN <<row, col - 1>>
                  ELSE IF row > 0 THEN <<row - 1, COLS - 1>>
                  ELSE <<0, COLS - 1>>
  <2>1. Stores(t, c) = {}
    BY <1>9 DEF Stores
  <2>2. Moved(t, c) = IF col < 1
                        THEN vid_cursor(IF row - 1 > 0 THEN row - 1 ELSE 0,
                                        COLS + col - 1)
                        ELSE vid_cursor(row, col - 1)
    BY <1>2, <1>9 DEF Moved
  <2>3. Place(Moved(t, c)) = h
    <3>1. CASE col < 1
      <4>1. PICK up \in 0 .. ROWS - 1 :
              /\ up = IF row - 1 > 0 THEN row - 1 ELSE 0
              /\ up = IF row > 0 THEN row - 1 ELSE 0
        BY <1>3, Sizes
      <4>2. COLS + col - 1 = COLS - 1 /\ COLS - 1 \in 0 .. COLS - 1
        BY <1>3, <3>1, Sizes
      <4>3. Moved(t, c) = vid_cursor(up, COLS - 1)
        BY <2>2, <3>1, <4>1, <4>2
      <4>4. Place(Moved(t, c)) = <<up, COLS - 1>>
        BY <4>2, <4>3, NextPlace
      <4> QED BY <1>3, <3>1, <4>1, <4>4
    <3>2. CASE ~ (col < 1)
      <4>1. col - 1 \in 0 .. COLS - 1 /\ col > 0
        BY <1>3, <3>2, Sizes
      <4> QED BY <1>3, <2>2, <3>2, <4>1, NextPlace
    <3> QED BY <3>1, <3>2
  <2>4. Grid!Strike(t, {}, Blank, h)
    BY <1>5, <1>6, <1>9, <2>1, <2>3
  <2>5. Grid!BackSpace(t)
    BY <1>4, <2>4 DEF Grid!BackSpace, Grid!Strike
  <2> QED BY <2>5 DEF Grid!GridNext
<1>10. CASE c = "HT"
  <2>1. PICK last : last = IF col < TAB_SIZE THEN TAB_SIZE - 1 ELSE col
    OBVIOUS
  <2>2. last \in 0 .. COLS - 1
    BY <1>3, <2>1, Sizes
  <2>3. Stores(t, c) = VID_POS(row, col) .. VID_POS(row, last)
    BY <1>2, <1>3, <1>10, <2>1 DEF Stores
  <2>4. Moved(t, c) = VID_POS(row, last) + 1
    <3>1. Moved(t, c) = VID_POS(row, IF col < TAB_SIZE THEN TAB_SIZE ELSE col + 1)
      BY <1>2, <1>10 DEF Moved
    <3>2. (IF col < TAB_SIZE THEN TAB_SIZE ELSE col + 1) = last + 1
      BY <1>3, <2>1, Sizes
    <3>3. COLS * row \in Int
      BY <1>3, Sizes
    <3> QED BY <2>2, <3>1, <3>2, <3>3 DEF VID_POS
  <2>5. Place(Moved(t, c)) = Grid!After(row, last)
    BY <1>3, <2>2, <2>4, NextPlace
  <2>6. \A r \in 0 .. ROWS - 1, k \in 0 .. COLS - 1 :
          VID_POS(r, k) \in Stores(t, c) <=> r = row /\ k \in col .. last
    BY <1>3, <2>2, <2>3, SameRow
  <2>7. Grid!Strike(t, col .. last, Blank, Grid!After(row, last))
    BY <1>5, <1>6, <1>10, <2>5, <2>6
  <2>8. Grid!Tab(t)
    BY <1>4, <2>1, <2>7 DEF Grid!Tab, Grid!Strike
  <2> QED BY <2>8 DEF Grid!GridNext
<1>11. CASE c \in Glyphs
  <2>0. c \notin Controls /\ (IF c \in Text THEN c ELSE Blank) = c
    BY <1>11, VideoAssumption DEF Glyphs
  <2>1. Stores(t, c) = {at} /\ Moved(t, c) = at + 1
    BY <1>2, <2>0 DEF Stores, Moved, Controls
  <2>2. at .. at = {at}
    BY <1>3 DEF Cells
  <2>3. \A r \in 0 .. ROWS - 1, k \in 0 .. COLS - 1 :
          VID_POS(r, k) \in Stores(t, c) <=> r = row /\ k \in {col}
    <3>1. col .. col = {col}
      BY <1>3
    <3>2. Stores(t, c) = VID_POS(row, col) .. VID_POS(row, col)
      BY <1>3, <2>1, <2>2
    <3> QED BY <1>3, <3>1, <3>2, SameRow
  <2>4. Place(Moved(t, c)) = Grid!After(row, col)
    BY <1>3, <2>1, NextPlace
  <2>5. Grid!Strike(t, {col}, c, Grid!After(row, col))
    BY <1>6, <2>0, <2>3, <2>4
  <2>6. Grid!Strike(t, {Grid!Column(t)}, c,
                    Grid!After(Grid!Row(t), Grid!Column(t)))
    BY <1>4, <2>5 DEF Grid!Strike
  <2>7. Grid!Type(t)
    BY <1>11, <2>6 DEF Grid!Type
  <2> QED BY <2>7 DEF Grid!GridNext
<1> QED BY <1>7, <1>8, <1>9, <1>10, <1>11 DEF Chars, Controls

-----------------------------------------------------------------------------
\* Blank cells are a clean sheet, and the first of them is its first place.
LEMMA CleanGrid ==
  AsSheet([i \in Cells |-> Blank]) = Grid!Clean /\ Place(0) = <<0, 0>>
<1>1. AsSheet([i \in Cells |-> Blank]) = Grid!Clean
  BY GridCell DEF AsSheet, Grid!Clean, Grid!Rows, Grid!Columns
<1>2. 0 \in 0 .. ROWS - 1 /\ 0 \in 0 .. COLS - 1 /\ VID_POS(0, 0) = 0
  BY Sizes DEF VID_POS
<1> QED BY <1>1, <1>2, NextPlace

\* Wherever the cursor may be is a place of the head.
LEMMA HeadPlaces ==
  ASSUME NEW k \in 0 .. VID_BUF_SIZE
  PROVE  Place(k) \in Grid!Heads
<1>1. CASE k \in Cells
  BY <1>1, RowAndColumn DEF Place, Grid!Heads, Grid!Rows, Grid!Columns
<1>2. CASE k = VID_BUF_SIZE
  <2>1. VID_BUF_SIZE = VID_POS(ROWS, 0) /\ 0 \in 0 .. COLS - 1
    BY Sizes DEF VID_BUF_SIZE, VID_POS
  <2> QED BY <1>2, <2>1, PlaceOf, Sizes DEF Place, Grid!Heads
<1> QED BY <1>1, <1>2, Sizes DEF Cells

\* The cells of the processes' terminal, cleared between two writes.
LEMMA ClearRefines ==
  ASSUME TypeOK, fd = NULL, fd' = NULL, vid_clr(VID_PROC)
  PROVE  Grid!GridNext
<1>1. /\ cells \in [Terms -> [Cells -> Glyphs]]
      /\ cursor \in [Terms -> 0 .. VID_BUF_SIZE]
      /\ VID_PROC \in Terms
  BY DEF TypeOK, Terms
<1>2. [u \in Terms |-> AsSheet(cells'[u])] =
        [[u \in Terms |-> AsSheet(cells[u])] EXCEPT ![VID_PROC] = Grid!Clean]
  BY <1>1, CleanGrid DEF vid_clr
<1>3. [u \in Terms |-> Place(cursor'[u])] =
        [[u \in Terms |-> Place(cursor[u])] EXCEPT ![VID_PROC] = <<0, 0>>]
  BY <1>1, CleanGrid DEF vid_clr
<1>4. Grid!Clear(VID_PROC)
  BY <1>2, <1>3 DEF Grid!Clear, AsSheet, Place
<1> QED BY <1>1, <1>4 DEF Grid!GridNext

\* Its cursor, moved between two writes.
LEMMA MoveRefines ==
  ASSUME TypeOK, fd = NULL, fd' = NULL, cells' = cells,
         NEW k \in 0 .. VID_BUF_SIZE, cursor' = [cursor EXCEPT ![VID_PROC] = k]
  PROVE  Grid!GridNext
<1>1. cursor \in [Terms -> 0 .. VID_BUF_SIZE] /\ VID_PROC \in Terms
  BY DEF TypeOK, Terms
<1>2. PICK h \in Grid!Heads : h = Place(k)
  BY HeadPlaces
<1>3. [u \in Terms |-> Place(cursor'[u])] =
        [[u \in Terms |-> Place(cursor[u])] EXCEPT ![VID_PROC] = h]
  BY <1>1, <1>2
<1>4. [u \in Terms |-> <<cursor'[u] \div COLS, cursor'[u] % COLS>>] =
        [[u \in Terms |-> <<cursor[u] \div COLS, cursor[u] % COLS>>]
          EXCEPT ![VID_PROC] = h]
  BY <1>3 DEF Place
<1> HIDE DEF Grid!Heads
<1>5. \E x \in Grid!Heads :
        [u \in Terms |-> <<cursor'[u] \div COLS, cursor'[u] % COLS>>] =
          [[u \in Terms |-> <<cursor[u] \div COLS, cursor[u] % COLS>>]
            EXCEPT ![VID_PROC] = x]
  BY <1>2, <1>4, Zenon
<1>6. Grid!Move(VID_PROC)
  BY <1>5, Zenon DEF Grid!Move, TermOf
<1> QED BY <1>1, <1>6 DEF Grid!GridNext

\* A write begins, or one ends or is given up.
LEMMA WriteRefines ==
  ASSUME TypeOK, UNCHANGED <<cells, cursor>>,
         \/ fd = NULL /\ fd' \in Streams
         \/ fd' = NULL
  PROVE  [Grid!GridNext]_(Grid!gridvars)
<1>1. CASE fd = NULL /\ fd' \in Streams
  <2>1. fd' # NULL
    BY <1>1, VideoAssumption
  <2>2. PICK t \in Terms : t = TermOf(fd')
    BY DEF TermOf, Terms
  <2>3. Grid!Begin(t)
    BY <1>1, <2>1, <2>2 DEF Grid!Begin
  <2> QED BY <2>3 DEF Grid!GridNext
<1>2. CASE fd # NULL /\ fd' = NULL
  <2>1. PICK t \in Terms : t = TermOf(fd)
    BY DEF TermOf, Terms
  <2>2. Grid!End(t)
    BY <1>2, <2>1 DEF Grid!End
  <2> QED BY <2>2 DEF Grid!GridNext
<1>3. CASE fd = NULL /\ fd' = NULL
  BY <1>3 DEF Grid!gridvars
<1> QED BY <1>1, <1>2, <1>3

(***************************************************************************)
(* The terminals implement the grid, whatever its rows, columns and tab    *)
(* stop: the arithmetic of vid_raw_putc, vid_scroll and vid_cursor on one  *)
(* array of cells adds up to rows and columns.                             *)
(***************************************************************************)
THEOREM TerminalIsGrid == Spec => ImplementsGrid
<1>1. Init => Grid!GridInit
  <2> SUFFICES ASSUME Init PROVE Grid!GridInit
    OBVIOUS
  <2>1. [t \in Terms |-> AsSheet(cells[t])] = [t \in Terms |-> Grid!Clean]
    BY CleanGrid DEF Init
  <2>2. [t \in Terms |-> Place(cursor[t])] = [t \in Terms |-> <<0, 0>>]
    BY CleanGrid DEF Init
  <2> QED BY <2>1, <2>2 DEF Grid!GridInit, AsSheet, Place, Init
<1>2. TypeOK /\ [Next]_vars => [Grid!GridNext]_(Grid!gridvars)
  <2> SUFFICES ASSUME TypeOK, [Next]_vars
               PROVE  [Grid!GridNext]_(Grid!gridvars)
    OBVIOUS
  <2> USE DEF terminals, screen, update
  <2>1. CASE ProcessStep
    <3>1. ASSUME NEW f \in Streams, BeginWrite(f) PROVE [Grid!GridNext]_(Grid!gridvars)
      BY <3>1, WriteRefines DEF BeginWrite
    <3>2. ASSUME NEW c \in Chars, WriteChar(c) PROVE Grid!GridNext
      BY <3>2, PutRefines DEF WriteChar, Puts
    <3>3. CASE EndRaw \/ EndWrite
      BY <3>3, WriteRefines DEF EndRaw, EndWrite
    <3>4. ASSUME NEW p \in Moves, MoveCursor(p[1], p[2]) PROVE Grid!GridNext
      <4>1. PICK k \in 0 .. VID_BUF_SIZE : k = vid_cursor(p[1], p[2])
        BY CursorClipped, VideoAssumption
      <4>2. fd = NULL /\ fd' = NULL /\ cells' = cells
            /\ cursor' = [cursor EXCEPT ![VID_PROC] = k]
        BY <3>4, <4>1 DEF MoveCursor
      <4> QED BY <4>2, MoveRefines
    <3>5. CASE ClearScreen
      BY <3>5, ClearRefines DEF ClearScreen
    <3> QED BY <2>1, <3>1, <3>2, <3>3, <3>4, <3>5 DEF ProcessStep
  <2>2. CASE HaltStep
    <3>1. CASE Fault \/ HaltPrinted \/ HaltEnd
      BY <3>1, WriteRefines DEF Fault, HaltPrinted, HaltEnd
    <3>2. CASE EndPanic \/ HaltCall
      BY <3>2 DEF EndPanic, HaltCall, Grid!gridvars
    <3>3. CASE HaltClear
      BY <3>3, ClearRefines DEF HaltClear
    <3>4. CASE HaltCursor
      <4>1. ROWS \div 2 \in Int /\ (COLS - Len(HaltMsg)) \div 2 \in Int
        BY VideoAssumption
      <4>2. PICK k \in 0 .. VID_BUF_SIZE :
              k = vid_cursor(ROWS \div 2, (COLS - Len(HaltMsg)) \div 2)
        BY <4>1, CursorClipped
      <4>3. fd = NULL /\ fd' = NULL /\ cells' = cells
            /\ cursor' = [cursor EXCEPT ![VID_PROC] = k]
        BY <3>4, <4>2 DEF HaltCursor
      <4> QED BY <4>3, MoveRefines
    <3>5. ASSUME NEW f \in Streams, HaltPrint(f) PROVE [Grid!GridNext]_(Grid!gridvars)
      BY <3>5, WriteRefines DEF HaltPrint
    <3> QED BY <2>2, <3>1, <3>2, <3>3, <3>4, <3>5 DEF HaltStep
  <2>3. CASE IdleStep
    <3>1. CASE IdleWrite \/ IdleUpdated
      BY <3>1, WriteRefines DEF IdleWrite, IdleUpdated, Streams
    <3>2. CASE IdleUpdate \/ IdleCopy
      BY <3>2 DEF IdleUpdate, IdleCopy, Grid!gridvars
    <3> QED BY <2>3, <3>1, <3>2 DEF IdleStep
  <2>4. CASE PrintChar
    <3>1. Message[said + 1] \in Chars
      BY <2>4, MessageChars DEF PrintChar
    <3>2. Puts(Message[said + 1])
      BY <2>4 DEF PrintChar, Puts
    <3> QED BY <3>1, <3>2, PutRefines
  <2>5. CASE EscInChar
    <3>1. IdleMsg[said + 1] \in Chars
      BY <2>5, MessageChars DEF EscInChar
    <3>2. Puts(IdleMsg[said + 1])
      BY <2>5, VideoAssumption DEF EscInChar, Puts, TermOf, Streams
    <3> QED BY <3>1, <3>2, PutRefines
  <2>6. CASE Drop \/ Idle \/ handle_esc \/ UNCHANGED vars
    BY <2>6 DEF Drop, Idle, handle_esc, vars, Grid!gridvars
  <2> HIDE DEF terminals, screen, update
  <2> QED BY <2>1, <2>2, <2>3, <2>4, <2>5, <2>6 DEF Next
<1> QED BY <1>1, <1>2, VideoTypeCorrect, PTL
        DEF Spec, ImplementsGrid, Grid!GridSpec
=============================================================================
