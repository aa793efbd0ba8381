------------------------------ MODULE MCClock ------------------------------
(***************************************************************************)
(* The clock for TLC, around the instants at which registers carry.        *)
(***************************************************************************)
EXTENDS Clock

At(h, m, s, d, mo, y) ==
  [hour |-> h, min |-> m, sec |-> s, day |-> d, mon |-> mo, year |-> y]

\* Before a minute, an hour, noon, midnight, a leap day and a year end.
CarryTimes ==
  {At(9, 30, 59, 7, 8, 15), At(10, 59, 58, 19, 10, 15), At(11, 59, 59, 5, 5, 15),
   At(23, 59, 58, 9, 6, 15), At(23, 59, 59, 28, 2, 16), At(23, 59, 59, 31, 12, 99)}

AllModes == [bcd : BOOLEAN, h24 : BOOLEAN]

\* 58:60:00, 00:00:00, 58:58:23, 60:08:24, 88:00:00 and 10:59:22; then 31/04/15,
\* 30/02/16 and 05/05/15.
Arguments ==
  {<<53, 56, 58, 54, 48, 58, 48, 48>>,
   <<48, 48, 58, 48, 48, 58, 48, 48>>, <<53, 56, 58, 53, 56, 58, 50, 51>>,
   <<54, 48, 58, 48, 56, 58, 50, 52>>, <<56, 56, 58, 48, 48, 58, 48, 48>>,
   <<49, 48, 58, 53, 57, 58, 50, 50>>, <<51, 49, 47, 48, 52, 47, 49, 53>>,
   <<51, 48, 47, 48, 50, 47, 49, 54>>, <<48, 53, 47, 48, 53, 47, 49, 53>>}
=============================================================================
