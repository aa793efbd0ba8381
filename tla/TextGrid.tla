------------------------------ MODULE TextGrid ------------------------------
(***************************************************************************)
(* What a terminal promises: a sheet of rows and columns with a print head *)
(* on it.  A head below the last row stands for a full sheet: the sheet is *)
(* pulled up by one row just before the next character is typed.           *)
(***************************************************************************)
EXTENDS Integers

CONSTANTS Sheets, Nobody, Height, Width, TabStop, Empty, Glyphs

VARIABLES
  sheet, \* sheet[t][r][c]: the glyph at row r, column c
  head,  \* head[t] = <<row, column>>
  typing \* the sheet that is being typed on, Nobody between two texts

gridvars == <<typing, head, sheet>>

Rows    == 0 .. Height - 1
Columns == 0 .. Width - 1
Heads   == (Rows \X Columns) \cup {<<Height, 0>>}

Clean == [r \in Rows |-> [c \in Columns |-> Empty]]

\* One place to the right, or to the start of the next row.
After(r, c) == IF c = Width - 1 THEN <<r + 1, 0>> ELSE <<r, c + 1>>

\* The sheet, and the head, in which t takes its next character.
Full(t) == head[t][1] = Height
Ready(t) ==
  IF Full(t)
    THEN [r \in Rows |-> IF r = Height - 1 THEN Clean[r] ELSE sheet[t][r + 1]]
    ELSE sheet[t]
Row(t)    == IF Full(t) THEN Height - 1 ELSE head[t][1]
Column(t) == IF Full(t) THEN 0 ELSE head[t][2]

\* Glyph g goes to the columns S of the head's row, the head to h.
Strike(t, S, g, h) ==
  /\ typing = t
  /\ head' = [head EXCEPT ![t] = h]
  /\ sheet' = [sheet EXCEPT ![t] =
                 [Ready(t) EXCEPT ![Row(t)] =
                    [c \in Columns |-> IF c \in S THEN g ELSE @[c]]]]
  /\ UNCHANGED typing

Type(t) ==
  \E g \in Glyphs : Strike(t, {Column(t)}, g, After(Row(t), Column(t)))

NewLine(t) == Strike(t, Column(t) .. Width - 1, Empty, <<Row(t) + 1, 0>>)

CarriageReturn(t) == Strike(t, {}, Empty, <<Row(t), 0>>)

\* From the first place of the sheet the head goes to the end of its row.
BackSpace(t) ==
  Strike(t, {}, Empty,
         IF Column(t) > 0 THEN <<Row(t), Column(t) - 1>>
         ELSE IF Row(t) > 0 THEN <<Row(t) - 1, Width - 1>>
         ELSE <<0, Width - 1>>)

\* Up to the one tab stop of the row, and past it by one place.
Tab(t) ==
  LET last == IF Column(t) < TabStop THEN TabStop - 1 ELSE Column(t)
  IN  Strike(t, Column(t) .. last, Empty, After(Row(t), last))

Move(t) ==
  /\ typing = Nobody
  /\ \E h \in Heads : head' = [head EXCEPT ![t] = h]
  /\ UNCHANGED <<sheet, typing>>

Clear(t) ==
  /\ typing = Nobody
  /\ head' = [head EXCEPT ![t] = <<0, 0>>]
  /\ sheet' = [sheet EXCEPT ![t] = Clean]
  /\ UNCHANGED typing

Begin(t) == typing = Nobody /\ typing' = t /\ UNCHANGED <<head, sheet>>

End(t) == typing = t /\ typing' = Nobody /\ UNCHANGED <<head, sheet>>

GridInit ==
  /\ sheet = [t \in Sheets |-> Clean]
  /\ head = [t \in Sheets |-> <<0, 0>>]
  /\ typing = Nobody

GridNext ==
  \E t \in Sheets :
    \/ Begin(t) \/ End(t)
    \/ Type(t) \/ NewLine(t) \/ CarriageReturn(t) \/ BackSpace(t) \/ Tab(t)
    \/ Move(t) \/ Clear(t)

GridSpec == GridInit /\ [][GridNext]_gridvars

=============================================================================
