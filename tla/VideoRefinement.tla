-------------------------- MODULE VideoRefinement --------------------------
(***************************************************************************)
(* The terminals implement TextGrid: cell VID_POS(r, c) is row r, column c.*)
(***************************************************************************)
EXTENDS Video

Grid == INSTANCE TextGrid WITH
          Sheets <- Terms, Nobody <- NULL, Height <- ROWS, Width <- COLS,
          TabStop <- TAB_SIZE, Empty <- Blank, Glyphs <- Glyphs,
          sheet <- [t \in Terms |-> [r \in 0 .. ROWS - 1 |->
                      [c \in 0 .. COLS - 1 |-> cells[t][VID_POS(r, c)]]]],
          head <- [t \in Terms |-> <<cursor[t] \div COLS, cursor[t] % COLS>>],
          typing <- IF fd = NULL THEN NULL ELSE TermOf(fd)

(***************************************************************************)
(* Seen as rows and columns, every character does to its terminal what it  *)
(* does to a sheet of paper: text fills the row and goes on in the next, a *)
(* full sheet loses its first row and no other, and the other terminal is  *)
(* left alone (vid_raw_putc, vid_scroll and vid_cursor together).          *)
(***************************************************************************)
ImplementsGrid == Grid!GridSpec

=============================================================================
