------------------------------ MODULE Console ------------------------------
(***************************************************************************)
(* How a process gets characters from the keyboard: the conversion of key  *)
(* codes (kbrd_key_to_ascii of Kernel/keyboard.c) and the loop of the read *)
(* syscall (Kernel/syscall/io.c), getc with its one character of pushback  *)
(* (Userland/libc/getc.c) and scanf (Userland/libc/scanf.c).               *)
(*                                                                         *)
(* The key buffer itself is module Keyboard, which implements a queue: a   *)
(* read takes whatever keys were pressed since the last one, up to the     *)
(* first KEY_UNKNOWN, and shift and caps lock are those of the moment of   *)
(* the read.  A character is its code.                                     *)
(***************************************************************************)
EXTENDS Integers, Sequences, SequencesExt

CONSTANTS
  Keys,    \* the codes in kbrdscancode_std of the keys that are pressed
  Burst,   \* bound: keys that one read takes
  Garbage, \* what a character that is read before it is written may hold
  SCANF_MAX_STR_BUFFER, \* characters of a string that scanf stores
  MAX_DIGITS            \* digits of a number that scanf reads

ASSUME ConsoleAssumption ==
  /\ Keys \subseteq Nat
  /\ Burst \in Nat \ {0}
  /\ Garbage \subseteq -128 .. 127
  /\ {SCANF_MAX_STR_BUFFER, MAX_DIGITS} \subseteq Nat \ {0, 1}

BACKSPACE == 8
ENTER     == 10
SPACE     == 32
NoChar    == -1
IsDigit(c) == c \in 48 .. 57

VARIABLES
  unchar, \* the character pushed back, NoChar if there is none
  scan    \* the conversion under way: its format, its phase and the
          \* characters it has stored

console == <<unchar, scan>>

-----------------------------------------------------------------------------
\* What shift makes of digits and punctuation: codes, paired.
Shifted ==
  LET plain == <<48, 49, 50, 51, 52, 53, 54, 55, 56, 57,
                 61, 44, 46, 47, 59, 39, 91, 93, 96, 45, 43, 92>>
      with  == <<41, 33, 64, 35, 36, 37, 94, 38, 42, 40,
                 43, 60, 62, 63, 58, 34, 123, 125, 126, 95, 61, 124>>
  IN  [c \in ToSet(plain) |-> with[CHOOSE i \in DOMAIN plain : plain[i] = c]]

(***************************************************************************)
(* The code is cut to its low byte first, so that F8 and F10 become        *)
(* backspace and newline and TAB becomes 0.                                *)
(***************************************************************************)
kbrd_key_to_ascii(code, shift_hold, caps_lock) ==
  LET key == code % 256
  IN  CASE key >= 128 -> 0
        [] key \in 97 .. 122 /\ shift_hold # caps_lock -> key - 32
        [] key \in DOMAIN Shifted /\ shift_hold /\ ~ caps_lock -> Shifted[key]
        [] OTHER -> key

\* What the loop of syscall_read stores, 0 where it leaves buf as it was.
Stored(ks, shift_hold, caps_lock) ==
  [i \in DOMAIN ks |-> kbrd_key_to_ascii(ks[i], shift_hold, caps_lock)]
Reads ==
  {Stored(ks, s, c) : ks \in UNION {[1 .. n -> Keys] : n \in 1 .. Burst},
                      s \in BOOLEAN, c \in BOOLEAN}

(***************************************************************************)
(* fgetc reads into a buffer of one character: it returns the first one,   *)
(* or what happened to be there if the first key has no character.  The    *)
(* characters of further keys go over its stack frame: they are lost, or   *)
(* the process is (Smashed).                                               *)
(***************************************************************************)
InputChars ==
  UNION {IF r[1] = 0 THEN Garbage ELSE {r[1]} : r \in Reads}
Smashing == \E r \in Reads : \E i \in 2 .. Len(r) : r[i] # 0

fgetc(c) == IF unchar # NoChar THEN c = unchar ELSE c \in InputChars

Smashed == unchar = NoChar /\ Smashing

-----------------------------------------------------------------------------
NoScan == [fmt |-> "none", phase |-> "none", idx |-> 0]

\* scanf is called with one conversion.
Begin(fmt) == [fmt |-> fmt, phase |-> "convert", idx |-> 0]

\* vfscanf after a conversion: it gives up if nothing was stored.
Converted(n) ==
  IF n = 0 THEN NoScan ELSE [scan EXCEPT !.phase = "skip", !.idx = n]

\* One character of read_base_10; the one that is no digit is pushed back.
read_base_10(c) ==
  LET n == IF IsDigit(c) THEN scan.idx + 1 ELSE scan.idx
  IN  /\ scan' = IF IsDigit(c) /\ n < MAX_DIGITS
                   THEN [scan EXCEPT !.idx = n] ELSE Converted(n)
      /\ unchar' = IF IsDigit(c) THEN NoChar ELSE c

\* Fault: the end of a string is pushed back as that of a number is.
read_str_pushback(c) ==
  LET ends == c \in {SPACE, ENTER}
      n    == IF ends THEN scan.idx ELSE scan.idx + 1
  IN  /\ scan' = IF ~ ends /\ n < SCANF_MAX_STR_BUFFER - 1
                   THEN [scan EXCEPT !.idx = n] ELSE Converted(n)
      /\ unchar' = IF ends THEN c ELSE NoChar

\* Fault: no room is left for the final zero.
read_str_full(c) ==
  LET ends == c \in {SPACE, ENTER}
      n    == IF ends THEN scan.idx ELSE scan.idx + 1
  IN  /\ scan' = IF ~ ends /\ n < SCANF_MAX_STR_BUFFER
                   THEN [scan EXCEPT !.idx = n] ELSE Converted(n)
      /\ unchar' = NoChar

\* One character of read_str.
read_str(c) ==
  LET ends == c \in {SPACE, ENTER}
      n    == IF ends THEN scan.idx ELSE scan.idx + 1
  IN  /\ scan' = IF ~ ends /\ n < SCANF_MAX_STR_BUFFER - 1
                   THEN [scan EXCEPT !.idx = n] ELSE Converted(n)
      /\ unchar' = NoChar

\* read_fmt: the next character that the conversion takes.
read_fmt(c) ==
  /\ scan.phase = "convert"
  /\ \/ scan.fmt = "d" /\ read_base_10(c)
     \/ scan.fmt = "s" /\ read_str(c)
     \/ scan.fmt = "c" /\ scan' = Converted(1) /\ unchar' = NoChar

\* vfscanf skips spaces behind the conversion, and the character after them.
skip(c) ==
  /\ scan.phase = "skip"
  /\ scan' = IF c = SPACE THEN scan ELSE NoScan
  /\ unchar' = NoChar

ScanTypeOK ==
  /\ unchar \in {NoChar} \cup InputChars
  /\ scan.fmt \in {"none", "d", "s", "c"}
  /\ scan.phase \in {"none", "convert", "skip"}
  /\ scan.idx \in 0 .. (IF scan.fmt = "d" THEN MAX_DIGITS
                                         ELSE SCANF_MAX_STR_BUFFER - 1)

=============================================================================
