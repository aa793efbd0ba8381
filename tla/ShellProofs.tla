----------------------------- MODULE ShellProofs -----------------------------
(***************************************************************************)
(* Proofs about the shell, for every line length, number of arguments and  *)
(* table of commands that ShellAssumption allows.                          *)
(*                                                                         *)
(* Two loops need an argument of their own.  get_arguments cuts the line   *)
(* in place: CutUpTo says what it has done when it has come to an index,   *)
(* and counts the words of the line that have begun by there, so that args *)
(* is never full before the line ends.  parse_command takes the first name *)
(* that the line starts with: as no name starts another there is only one, *)
(* and what follows it decides whether it is the line's first word.        *)
(* ShellInv is the inductive invariant; the refinement of CommandLine      *)
(* follows from it and from what the two loops compute.                    *)
(***************************************************************************)
EXTENDS Shell, FiniteSetTheorems, WellFoundedInduction, SequenceTheorems, TLAPS

-----------------------------------------------------------------------------
\* The conversion under way: what it has stored fits, with room for more
\* while it goes on.
ScanInv ==
  /\ scan \in [fmt : {"none", "d", "s", "c"}, phase : {"none", "convert", "skip"},
               idx : Nat]
  /\ scan.phase = "none" <=> scan = NoScan
  /\ scan.phase = "convert" =>
       scan.idx < IF scan.fmt = "d" THEN MAX_DIGITS ELSE SCANF_MAX_STR_BUFFER - 1
  /\ ScanTypeOK

(***************************************************************************)
(* scanf_cmd: only the number that it asks for first leaves a character    *)
(* behind, and the string that it asks for next takes that one before      *)
(* anything else.                                                          *)
(***************************************************************************)
TrialInv ==
  /\ pc \in {"prompt", "getchar"} => scan = NoScan
  /\ pc = "scanf" =>
       /\ trial \in 1 .. 6
       /\ trial = 1 => scan = NoScan
       /\ scan # NoScan => scan.fmt = Trials[trial - 1]
       /\ unchar # NoChar =>
            trial = 2 \/ (trial = 3 /\ scan.phase = "convert")
  /\ PushbackStays

\* The line editor: behind the line there are only zeros, whatever pc is.
EditInv ==
  /\ shell_buffer \in [Index -> {0} \cup InputChars]
  /\ curr_pos \in 0 .. SHELL_BUFFER_SIZE - 2
  /\ \A i \in Index : i >= curr_pos => shell_buffer[i] = 0
  /\ BufferClean

ShellInv ==
  /\ pc \in Open \cup Closed /\ trial \in 0 .. 6
  /\ ScanInv /\ TrialInv /\ EditInv

-----------------------------------------------------------------------------
\* The sizes are numbers, and a line has room for a character.
LEMMA Sizes ==
  /\ SHELL_BUFFER_SIZE \in Nat /\ SHELL_BUFFER_SIZE > 1
  /\ MAX_ARGS \in Nat
  /\ MAX_DIGITS \in Nat /\ MAX_DIGITS > 1
  /\ SCANF_MAX_STR_BUFFER \in Nat /\ SCANF_MAX_STR_BUFFER > 1
BY ConsoleAssumption, ShellAssumption

\* A conversion that ends leaves the scan as vfscanf wants it.
LEMMA ConvertedOK ==
  ASSUME ScanInv, scan.phase = "convert", NEW n \in Nat, scan' = Converted(n),
         n <= IF scan.fmt = "d" THEN MAX_DIGITS ELSE SCANF_MAX_STR_BUFFER - 1,
         unchar' \in {NoChar} \cup InputChars
  PROVE  ScanInv' /\ (scan' # NoScan => scan'.fmt = scan.fmt)
<1>1. CASE n = 0
  BY <1>1, Sizes DEF Converted, ScanInv, ScanTypeOK, NoScan
<1>2. CASE n # 0
  <2>1. scan' = [scan EXCEPT !.phase = "skip", !.idx = n]
    BY <1>2 DEF Converted
  <2>2. scan \in [fmt : {"none", "d", "s", "c"},
                  phase : {"none", "convert", "skip"}, idx : Nat]
    BY DEF ScanInv
  <2>3. /\ scan' \in [fmt : {"none", "d", "s", "c"},
                      phase : {"none", "convert", "skip"}, idx : Nat]
        /\ scan'.fmt = scan.fmt /\ scan'.phase = "skip" /\ scan'.idx = n
    BY <2>1, <2>2
  <2> QED BY <2>3, Sizes DEF ScanInv, ScanTypeOK, NoScan
<1> QED BY <1>1, <1>2

\* A conversion that goes on.
LEMMA GoesOn ==
  ASSUME ScanInv, scan.phase = "convert", NEW n \in Nat,
         scan' = [scan EXCEPT !.idx = n],
         n < IF scan.fmt = "d" THEN MAX_DIGITS ELSE SCANF_MAX_STR_BUFFER - 1,
         unchar' \in {NoChar} \cup InputChars
  PROVE  ScanInv' /\ (scan' # NoScan => scan'.fmt = scan.fmt)
BY Sizes DEF ScanInv, ScanTypeOK, NoScan

\* One character of a conversion: only a number pushes one back.
LEMMA ReadStep ==
  ASSUME ScanInv, NEW c \in InputChars \cup {unchar}, fgetc(c),
         read_fmt(c) \/ skip(c)
  PROVE  /\ ScanInv'
         /\ scan' # NoScan => scan'.fmt = scan.fmt
         /\ unchar' # NoChar => scan.fmt = "d"
<1>1. c \in {NoChar} \cup InputChars
  BY DEF ScanInv, ScanTypeOK
<1>2. CASE skip(c)
  BY <1>1, <1>2, Sizes DEF skip, ScanInv, ScanTypeOK, NoScan
<1>3. CASE read_fmt(c)
  <2>0. scan.phase = "convert" /\ scan.idx \in Nat
    BY <1>3 DEF read_fmt, ScanInv
  <2>1. CASE scan.fmt = "d" /\ read_base_10(c)
    <3> DEFINE n == IF IsDigit(c) THEN scan.idx + 1 ELSE scan.idx
    <3>1. /\ scan' = IF IsDigit(c) /\ n < MAX_DIGITS
                      THEN [scan EXCEPT !.idx = n] ELSE Converted(n)
          /\ unchar' \in {NoChar} \cup InputChars
      BY <1>1, <2>1 DEF read_base_10
    <3>2. n \in Nat /\ n <= MAX_DIGITS
      BY <2>0, <2>1, Sizes DEF ScanInv
    <3> HIDE DEF n
    <3> QED BY <2>0, <2>1, <3>1, <3>2, ConvertedOK, GoesOn
  <2>2. CASE scan.fmt = "s" /\ read_str(c)
    <3> DEFINE ends == c \in {SPACE, ENTER}
               n == IF ends THEN scan.idx ELSE scan.idx + 1
    <3>1. /\ scan' = IF ~ ends /\ n < SCANF_MAX_STR_BUFFER - 1
                      THEN [scan EXCEPT !.idx = n] ELSE Converted(n)
          /\ unchar' = NoChar
      BY <2>2 DEF read_str
    <3>2. n \in Nat /\ n <= SCANF_MAX_STR_BUFFER - 1
      BY <2>0, <2>2, Sizes DEF ScanInv
    <3> HIDE DEF n, ends
    <3> QED BY <2>0, <2>2, <3>1, <3>2, ConvertedOK, GoesOn
  <2>3. CASE scan.fmt = "c" /\ scan' = Converted(1) /\ unchar' = NoChar
    <3>1. 1 \in Nat /\ 1 <= SCANF_MAX_STR_BUFFER - 1
      BY Sizes
    <3> QED BY <2>0, <2>3, <3>1, ConvertedOK
  <2> QED BY <1>3, <2>1, <2>2, <2>3 DEF read_fmt
<1> QED BY <1>2, <1>3

-----------------------------------------------------------------------------
\* A set of natural numbers has a least element.
LEMMA Least ==
  ASSUME NEW T, T \subseteq Nat, T # {}
  PROVE  \E x \in T : \A y \in T : x <= y
<1> DEFINE R == OpToRel(<, Nat)
<1>1. IsWellFoundedOn(R, Nat)
  BY NatLessThanWellFounded
<1>2. \A x, y \in Nat : y < x => <<y, x>> \in R
  BY DEF OpToRel
<1> HIDE DEF R
<1>3. PICK x \in T : \A y \in T : ~ (<<y, x>> \in R)
  BY <1>1, WFMin
<1>4. \A y \in T : ~ (y < x)
  BY <1>2, <1>3
<1> QED BY <1>3, <1>4

\* The least element of a set of natural numbers is its Min.
LEMMA MinIsLeast ==
  ASSUME NEW T, T \subseteq Nat, T # {}
  PROVE  Min(T) \in T /\ \A y \in T : Min(T) <= y
BY Least DEF Min

(***************************************************************************)
(* f is what a loop computes that starts with a at lo and makes F[i] of    *)
(* what it has at each i up to hi.                                         *)
(***************************************************************************)
IsLoop(f, a, F, S, lo, hi) ==
  /\ f \in [lo .. hi -> S]
  /\ f[lo] = a
  /\ \A i \in lo + 1 .. hi : f[i] = F[i][f[i - 1]]

\* A loop can be run up to any index.
LEMMA Loops ==
  ASSUME NEW S, NEW a \in S, NEW F \in [Nat -> [S -> S]], NEW lo \in Nat,
         NEW hi \in Nat, lo <= hi
  PROVE  \E f : IsLoop(f, a, F, S, lo, hi)
<1> USE DEF IsLoop
<1> DEFINE Good(m, f) == IsLoop(f, a, F, S, lo, m)
           T == {m \in Nat : lo <= m /\ \A f : ~ Good(m, f)}
<1>1. Good(lo, [i \in lo .. lo |-> a])
  OBVIOUS
<1>2. ASSUME NEW m \in Nat, lo <= m, NEW f, Good(m, f)
      PROVE  \E g : Good(m + 1, g)
  <2> DEFINE g == [i \in lo .. m + 1 |-> IF i = m + 1 THEN F[i][f[m]] ELSE f[i]]
  <2>1. g \in [lo .. m + 1 -> S]
    BY <1>2
  <2>2. g[lo] = a
    BY <1>2
  <2>3. ASSUME NEW i \in lo + 1 .. m + 1 PROVE g[i] = F[i][g[i - 1]]
    <3>1. CASE i = m + 1
      BY <1>2, <3>1
    <3>2. CASE i # m + 1
      <4>1. i \in lo + 1 .. m /\ i - 1 \in lo .. m + 1 /\ i - 1 # m + 1
        BY <3>2
      <4> QED BY <4>1, <1>2
    <3> QED BY <3>1, <3>2
  <2> QED BY <2>1, <2>2, <2>3
<1>3. T = {}
  <2>1. SUFFICES ASSUME T # {} PROVE FALSE
    OBVIOUS
  <2>2. PICK m \in T : \A y \in T : m <= y
    BY <2>1, Least
  <2>3. m # lo
    BY <1>1, <2>2
  <2>4. m - 1 \in Nat /\ lo <= m - 1 /\ ~ (m <= m - 1)
    BY <2>2, <2>3
  <2>5. PICK f : Good(m - 1, f)
    <3>1. m - 1 \notin T
      <4> HIDE DEF T
      <4> QED BY <2>2, <2>4
    <3> HIDE DEF IsLoop
    <3> QED BY <2>4, <3>1
  <2>6. \E g : Good(m - 1 + 1, g)
    BY <1>2, <2>4, <2>5
  <2>7. m - 1 + 1 = m
    BY <2>2
  <2> QED BY <2>2, <2>6, <2>7
<1>4. hi \notin T
  BY <1>3
<1> HIDE DEF IsLoop
<1> QED BY <1>4

-----------------------------------------------------------------------------
Chars == {0} \cup InputChars

\* b holds a line of n characters, and zeros behind it.
IsLine(b, n) ==
  /\ b \in [Index -> Chars] /\ n \in 0 .. SHELL_BUFFER_SIZE - 2
  /\ \A i \in Index : b[i] = 0 <=> i >= n

\* The first n characters of b as a sequence.
Line(b, n) == [i \in 1 .. n |-> b[i - 1]]

\* How many words of s have begun by position i.
Begun(s, i) == Cardinality({h \in CL!Starts(s) : h <= i})

\* What get_arguments computes with: the buffer, ptr and args.
Cuts == [buffer : [Index -> Chars], ptr : BOOLEAN, args : Seq(Index)]

\* The places where words begin are finitely many.
LEMMA StartsFinite ==
  ASSUME NEW n \in Nat, NEW s, DOMAIN s = 1 .. n
  PROVE  /\ IsFiniteSet(CL!Starts(s)) /\ CL!Starts(s) \subseteq 1 .. n
         /\ \A i \in Int : /\ IsFiniteSet({h \in CL!Starts(s) : h <= i})
                           /\ Begun(s, i) \in Nat
<1>1. CL!Starts(s) \subseteq 1 .. n
  BY DEF CL!Starts
<1>2. IsFiniteSet(1 .. n)
  BY FS_Interval
<1>3. IsFiniteSet(CL!Starts(s))
  BY <1>1, <1>2, FS_Subset
<1>4. ASSUME NEW i \in Int
      PROVE  /\ IsFiniteSet({h \in CL!Starts(s) : h <= i})
             /\ Begun(s, i) \in Nat
  <2>1. {h \in CL!Starts(s) : h <= i} \in SUBSET CL!Starts(s)
    OBVIOUS
  <2>2. IsFiniteSet({h \in CL!Starts(s) : h <= i})
    BY <1>3, <2>1, FS_Subset
  <2> QED BY <2>2, FS_CardinalityType DEF Begun
<1> QED BY <1>1, <1>3, <1>4

\* One more word has begun where one begins, and nowhere else.
LEMMA BegunStep ==
  ASSUME NEW n \in Nat, NEW s, DOMAIN s = 1 .. n, NEW i \in Int
  PROVE  Begun(s, i) = IF i \in CL!Starts(s) THEN Begun(s, i - 1) + 1
                       ELSE Begun(s, i - 1)
<1> DEFINE before == {h \in CL!Starts(s) : h <= i - 1}
           upto   == {h \in CL!Starts(s) : h <= i}
<1>1. CL!Starts(s) \subseteq Int
  BY StartsFinite
<1>2. CASE i \in CL!Starts(s)
  <2>1. upto = before \cup {i} /\ i \notin before
    BY <1>1, <1>2
  <2>2. IsFiniteSet(before)
    BY StartsFinite
  <2>3. Cardinality(upto) = Cardinality(before) + 1
    <3> HIDE DEF upto, before
    <3> QED BY <2>1, <2>2, FS_AddElement
  <2> QED BY <1>2, <2>3 DEF Begun
<1>3. CASE i \notin CL!Starts(s)
  <2>1. upto = before
    BY <1>1, <1>3
  <2> QED BY <1>3, <2>1 DEF Begun
<1> QED BY <1>2, <1>3

\* The number of words that have begun tells where the last of them begins.
LEMMA BegunUnique ==
  ASSUME NEW n \in Nat, NEW s, DOMAIN s = 1 .. n,
         NEW i \in CL!Starts(s), NEW j \in CL!Starts(s), i < j
  PROVE  Begun(s, i) < Begun(s, j)
<1> DEFINE before == {h \in CL!Starts(s) : h <= i}
           upto   == {h \in CL!Starts(s) : h <= j}
<1>1. CL!Starts(s) \subseteq Int /\ IsFiniteSet(upto)
  <2>1. j \in Int
    BY StartsFinite
  <2> QED BY <2>1, StartsFinite
<1>2. before \in SUBSET upto /\ before # upto
  <2>1. j \in upto /\ j \notin before
    BY <1>1
  <2> QED BY <1>1, <2>1
<1>3. Cardinality(before) < Cardinality(upto)
  <2> HIDE DEF before, upto
  <2>1. Cardinality(before) <= Cardinality(upto)
        /\ (Cardinality(before) = Cardinality(upto) => before = upto)
    BY <1>1, <1>2, FS_Subset
  <2>2. Cardinality(before) \in Nat /\ Cardinality(upto) \in Nat
    BY <1>1, <1>2, FS_Subset, FS_CardinalityType
  <2> QED BY <1>2, <2>1, <2>2
<1> QED BY <1>3 DEF Begun

\* One turn of the loop of get_arguments, before args is full.
LEMMA CutStep ==
  ASSUME NEW b \in [Index -> Chars], NEW i \in Index, NEW s \in Cuts,
         Len(s.args) # MAX_ARGS
  PROVE  cut_at(b, i, s) =
           IF b[i] = SPACE
             THEN [buffer |-> [s.buffer EXCEPT ![i] = 0], ptr |-> FALSE,
                   args |-> s.args]
             ELSE [buffer |-> s.buffer, ptr |-> TRUE,
                   args |-> IF s.ptr THEN s.args ELSE Append(s.args, i)]
<1>1. CASE b[i] = SPACE
  <2>1. cut_at(b, i, s) = [s EXCEPT !.buffer[i] = 0, !.ptr = FALSE]
    BY <1>1 DEF cut_at
  <2> QED BY <1>1, <2>1 DEF Cuts
<1>2. CASE b[i] # SPACE
  <2>1. cut_at(b, i, s) =
          [s EXCEPT !.ptr = TRUE,
                    !.args = IF s.ptr THEN s.args ELSE Append(s.args, i)]
    BY <1>2 DEF cut_at
  <2> QED BY <1>2, <2>1 DEF Cuts
<1> QED BY <1>1, <1>2

\* One turn of the loop keeps the types.
LEMMA CutType ==
  ASSUME NEW b \in [Index -> Chars], NEW i \in Index, NEW s \in Cuts
  PROVE  cut_at(b, i, s) \in Cuts
<1>1. CASE Len(s.args) = MAX_ARGS
  BY <1>1 DEF cut_at
<1>2. CASE Len(s.args) # MAX_ARGS
  <2>1. [s.buffer EXCEPT ![i] = 0] \in [Index -> Chars]
    BY DEF Cuts, Chars
  <2>2. (IF s.ptr THEN s.args ELSE Append(s.args, i)) \in Seq(Index)
    BY DEF Cuts
  <2>3. s.buffer \in [Index -> Chars] /\ s.args \in Seq(Index)
    BY DEF Cuts
  <2>4. CASE b[i] = SPACE
    <3>1. cut_at(b, i, s) = [buffer |-> [s.buffer EXCEPT ![i] = 0], ptr |-> FALSE,
                             args |-> s.args]
      BY <1>2, <2>4, CutStep
    <3> QED BY <2>1, <2>3, <3>1 DEF Cuts
  <2>5. CASE b[i] # SPACE
    <3>1. cut_at(b, i, s) = [buffer |-> s.buffer, ptr |-> TRUE,
                             args |-> IF s.ptr THEN s.args ELSE Append(s.args, i)]
      BY <1>2, <2>5, CutStep
    <3> QED BY <2>2, <2>3, <3>1 DEF Cuts
  <2> QED BY <2>4, <2>5
<1> QED BY <1>1, <1>2

-----------------------------------------------------------------------------
\* The loop of get_arguments, at each index from lead to end.
Loop(b, lead, end) ==
  CHOOSE loop : loop =
    [i \in lead .. end |->
       IF i = lead THEN [buffer |-> b, ptr |-> FALSE, args |-> <<>>]
       ELSE cut_at(b, i - 1, loop[i - 1])]

\* The loop takes its turns one after the other.
LEMMA LoopTurns ==
  ASSUME NEW b \in [Index -> Chars], NEW lead \in Index, NEW end \in Index,
         lead <= end
  PROVE  /\ Loop(b, lead, end)[lead] = [buffer |-> b, ptr |-> FALSE, args |-> <<>>]
         /\ \A i \in lead + 1 .. end :
              Loop(b, lead, end)[i] = cut_at(b, i - 1, Loop(b, lead, end)[i - 1])
<1> DEFINE first == [buffer |-> b, ptr |-> FALSE, args |-> <<>>]
           Turn(i, s) == cut_at(b, i - 1, s)
           F == [i \in Nat |-> [s \in Cuts |->
                   IF i \in lead + 1 .. end THEN Turn(i, s) ELSE s]]
           Eq(f) == f = [i \in lead .. end |->
                           IF i = lead THEN first ELSE Turn(i, f[i - 1])]
<1>1. lead \in Nat /\ end \in Nat /\ \A i \in lead + 1 .. end : i - 1 \in Index
  BY Sizes DEF Index
<1>2. first \in Cuts
  BY DEF Cuts
<1>3. F \in [Nat -> [Cuts -> Cuts]]
  <2>1. ASSUME NEW i \in Nat, NEW s \in Cuts
        PROVE  (IF i \in lead + 1 .. end THEN Turn(i, s) ELSE s) \in Cuts
    BY <1>1, CutType
  <2> QED BY <2>1
<1>4. PICK f : IsLoop(f, first, F, Cuts, lead, end)
  <2> HIDE DEF F, first
  <2> QED BY <1>1, <1>2, <1>3, Loops
<1>5. f \in [lead .. end -> Cuts] /\ f[lead] = first
      /\ \A i \in lead + 1 .. end : f[i] = F[i][f[i - 1]]
  BY <1>4 DEF IsLoop
<1>6. \A i \in lead + 1 .. end : f[i] = Turn(i, f[i - 1])
  <2> TAKE i \in lead + 1 .. end
  <2>1. i \in Nat /\ i - 1 \in lead .. end
    BY <1>1
  <2>2. f[i - 1] \in Cuts
    BY <1>5, <2>1
  <2>3. F[i][f[i - 1]] = Turn(i, f[i - 1])
    <3> HIDE DEF Turn
    <3> QED BY <2>1, <2>2
  <2> QED BY <1>5, <2>3
<1> HIDE DEF F, first, Turn
<1>7. Eq(f)
  <2>1. f = [i \in lead .. end |-> f[i]]
    BY <1>5
  <2>2. \A i \in lead .. end : f[i] = IF i = lead THEN first ELSE Turn(i, f[i - 1])
    BY <1>1, <1>5, <1>6
  <2> QED BY <2>1, <2>2
<1>8. Eq(Loop(b, lead, end))
  BY <1>7 DEF Loop, first, Turn
<1> DEFINE g == Loop(b, lead, end)
<1>9. g[lead] = first /\ \A i \in lead + 1 .. end : g[i] = Turn(i, g[i - 1])
  <2> HIDE DEF g
  <2>1. g = [i \in lead .. end |-> IF i = lead THEN first ELSE Turn(i, g[i - 1])]
    BY <1>8 DEF g
  <2>2. \A i \in lead + 1 .. end : i \in lead .. end /\ i # lead
    BY <1>1
  <2>3. lead \in lead .. end
    BY <1>1
  <2> QED BY <2>1, <2>2, <2>3
<1> QED BY <1>9 DEF first, Turn, g

\* get_arguments runs the loop from the first character that is no space to the
\* end of the line.
LEMMA ArgumentsLoop ==
  ASSUME NEW b, NEW n, IsLine(b, n), NEW from \in Nat, from <= n
  PROVE  \E lead \in from .. n :
           /\ get_arguments(b, from) = Loop(b, lead, n)[n]
           /\ b[lead] # SPACE /\ \A i \in from .. lead - 1 : b[i] = SPACE
<1> DEFINE T == {i \in Index : i >= from /\ b[i] # SPACE}
           U(lead) == {i \in Index : i >= lead /\ b[i] = 0}
<1>1. n \in Index /\ n \in Nat /\ b[n] = 0 /\ SPACE # 0
      /\ Index \subseteq Nat /\ \A i \in 0 .. n : i \in Index
  BY Sizes DEF IsLine, Index, SPACE
<1>2. Min(T) \in T /\ \A y \in T : Min(T) <= y
  <2>1. n \in T /\ T \subseteq Nat
    BY <1>1
  <2> HIDE DEF T
  <2> QED BY <2>1, MinIsLeast
<1>3. PICK lead \in Nat : lead = Min(T) /\ lead \in T /\ \A y \in T : lead <= y
  BY <1>1, <1>2
<1>4. lead \in from .. n /\ b[lead] # SPACE
  BY <1>1, <1>3
<1>5. \A i \in from .. lead - 1 : b[i] = SPACE
  BY <1>1, <1>3, <1>4
<1>6. Min(U(lead)) = n
  <2>1. n \in U(lead) /\ U(lead) \subseteq Nat /\ \A y \in U(lead) : n <= y
    <3>1. \A y \in U(lead) : y \in Index /\ b[y] = 0
      OBVIOUS
    <3>2. \A y \in Index : b[y] = 0 => y >= n
      BY DEF IsLine
    <3>3. n \in U(lead)
      BY <1>1, <1>4
    <3> HIDE DEF U
    <3> QED BY <1>1, <3>1, <3>2, <3>3
  <2>2. Min(U(lead)) \in U(lead) /\ \A y \in U(lead) : Min(U(lead)) <= y
    <3> HIDE DEF U
    <3> QED BY <2>1, MinIsLeast
  <2> HIDE DEF U
  <2>3. Min(U(lead)) \in Nat /\ n <= Min(U(lead)) /\ Min(U(lead)) <= n
    BY <2>1, <2>2
  <2> QED BY <1>1, <2>3
<1>7. get_arguments(b, from) = Loop(b, Min(T), Min(U(Min(T))))[Min(U(Min(T)))]
  BY DEF get_arguments, Loop
<1> HIDE DEF T, U
<1>8. get_arguments(b, from) = Loop(b, lead, n)[n]
  BY <1>3, <1>6, <1>7
<1> QED BY <1>4, <1>5, <1>8

-----------------------------------------------------------------------------
(***************************************************************************)
(* The line starts with a word of from characters, and args has room for   *)
(* the words behind it.                                                    *)
(***************************************************************************)
HasName(b, n, from) ==
  /\ IsLine(b, n) /\ from \in 1 .. n
  /\ \A i \in 0 .. from - 1 : b[i] # SPACE
  /\ b[from] \in {SPACE, 0}
  /\ from + 2 * MAX_ARGS > SHELL_BUFFER_SIZE - 2

\* What get_arguments has done to the line when it has come to index i.
CutUpTo(b, n, from, lead, i, s) ==
  /\ s \in Cuts
  /\ \A j \in Index : s.buffer[j] =
       IF lead <= j /\ j < i /\ b[j] = SPACE THEN 0 ELSE b[j]
  /\ s.ptr <=> (lead < i /\ b[i - 1] # SPACE)
  /\ Len(s.args) + 1 = Begun(Line(b, n), i)
  /\ \A k \in 1 .. Len(s.args) :
       /\ s.args[k] + 1 \in CL!Starts(Line(b, n)) /\ lead <= s.args[k]
       /\ Begun(Line(b, n), s.args[k] + 1) = k + 1
  /\ 2 * Len(s.args) <= i - from
  /\ from < i /\ ~ s.ptr => 2 * Len(s.args) + 1 <= i - from

\* The parts of CutUpTo make it up.
LEMMA CutParts ==
  ASSUME NEW b, NEW n, NEW from, NEW lead, NEW i, NEW s, s \in Cuts,
         \A j \in Index : s.buffer[j] =
           IF lead <= j /\ j < i /\ b[j] = SPACE THEN 0 ELSE b[j],
         s.ptr <=> (lead < i /\ b[i - 1] # SPACE),
         Len(s.args) + 1 = Begun(Line(b, n), i),
         \A k \in 1 .. Len(s.args) :
           /\ s.args[k] + 1 \in CL!Starts(Line(b, n)) /\ lead <= s.args[k]
           /\ Begun(Line(b, n), s.args[k] + 1) = k + 1,
         2 * Len(s.args) <= i - from,
         from < i /\ ~ s.ptr => 2 * Len(s.args) + 1 <= i - from
  PROVE  CutUpTo(b, n, from, lead, i, s)
BY Zenon DEF CutUpTo

\* Where words begin, by the index in the buffer.
LEMMA StartIndex ==
  ASSUME NEW b, NEW n, IsLine(b, n), NEW i \in 0 .. n - 1
  PROVE  i + 1 \in CL!Starts(Line(b, n)) <=>
           b[i] # SPACE /\ (i = 0 \/ b[i - 1] = SPACE)
<1> DEFINE s == Line(b, n)
<1>1. n \in Nat /\ DOMAIN s = 1 .. n /\ \A j \in 1 .. n : s[j] = b[j - 1]
  BY Sizes DEF IsLine, Line
<1>2. i + 1 \in 1 .. n /\ i + 1 - 1 = i
  BY <1>1
<1>3. CL!Blank(s, i + 1) <=> b[i] = SPACE
  BY <1>1, <1>2 DEF CL!Blank
<1>4. CL!Blank(s, i) <=> i = 0 \/ b[i - 1] = SPACE
  BY <1>1 DEF CL!Blank
<1>5. CL!Blank(s, i + 1 - 1) <=> CL!Blank(s, i)
  BY <1>2
<1> HIDE DEF s
<1>6. i + 1 \in CL!Starts(s) <=> ~ CL!Blank(s, i + 1) /\ CL!Blank(s, i + 1 - 1)
  BY <1>1, <1>2 DEF CL!Starts
<1> QED BY <1>3, <1>4, <1>5, <1>6 DEF s

\* Only the name begins before the arguments.
LEMMA OnlyName ==
  ASSUME NEW b, NEW n, NEW from, HasName(b, n, from), NEW lead \in from .. n,
         \A i \in from .. lead - 1 : b[i] = SPACE
  PROVE  Begun(Line(b, n), lead) = 1
<1> DEFINE s == Line(b, n)
           T == {h \in CL!Starts(s) : h <= lead}
<1>1. n \in Nat /\ from \in 1 .. n /\ IsLine(b, n) /\ DOMAIN s = 1 .. n
  BY Sizes DEF HasName, IsLine, Line
<1>2. CL!Starts(s) \subseteq 1 .. n
  BY <1>1, StartsFinite
<1>3. \A i \in 0 .. lead - 1 : i + 1 \in CL!Starts(s) <=> i = 0
  <2> TAKE i \in 0 .. lead - 1
  <2>1. i \in 0 .. n - 1
    BY <1>1
  <2>2. i + 1 \in CL!Starts(s) <=> b[i] # SPACE /\ (i = 0 \/ b[i - 1] = SPACE)
    BY <1>1, <2>1, StartIndex
  <2>3. CASE i < from
    <3>1. b[i] # SPACE /\ (i # 0 => b[i - 1] # SPACE)
      BY <1>1, <2>3 DEF HasName
    <3> QED BY <2>2, <3>1
  <2>4. CASE i >= from
    <3>1. b[i] = SPACE /\ i # 0
      BY <1>1, <2>4
    <3> QED BY <2>2, <3>1
  <2> QED BY <1>1, <2>3, <2>4
<1>4. T = {1}
  <2>1. \A h \in T : h \in 1 .. lead /\ h - 1 \in 0 .. lead - 1 /\ h - 1 + 1 = h
    BY <1>1, <1>2
  <2>2. 0 \in 0 .. lead - 1 /\ 0 + 1 = 1 /\ 1 <= lead
    BY <1>1
  <2>3. 1 \in T
    BY <1>3, <2>2
  <2>4. \A h \in T : h \in CL!Starts(s)
    OBVIOUS
  <2> HIDE DEF T
  <2>5. \A h \in T : h = 1
    BY <1>1, <1>3, <2>1, <2>4
  <2> QED BY <2>3, <2>5
<1> QED BY <1>4, FS_Singleton DEF Begun

\* Before the first turn nothing has been cut.
LEMMA CutFirst ==
  ASSUME NEW b, NEW n, NEW from, HasName(b, n, from), NEW lead \in from .. n,
         \A i \in from .. lead - 1 : b[i] = SPACE
  PROVE  CutUpTo(b, n, from, lead, lead,
                 [buffer |-> b, ptr |-> FALSE, args |-> <<>>])
<1> DEFINE s == [buffer |-> b, ptr |-> FALSE, args |-> <<>>]
<1>1. b \in [Index -> Chars] /\ lead \in Nat /\ from \in Nat /\ Index \subseteq Nat
  BY Sizes DEF HasName, IsLine, Index
<1>2. s \in Cuts /\ s.buffer = b /\ s.ptr = FALSE /\ s.args = <<>> /\ Len(s.args) = 0
  BY <1>1 DEF Cuts
<1>3. Begun(Line(b, n), lead) = 1
  BY OnlyName
<1> HIDE DEF s
<1>4. \A j \in Index : s.buffer[j] =
        IF lead <= j /\ j < lead /\ b[j] = SPACE THEN 0 ELSE b[j]
  BY <1>1, <1>2
<1>5. /\ s.ptr <=> (lead < lead /\ b[lead - 1] # SPACE)
      /\ \A k \in 1 .. Len(s.args) :
           /\ s.args[k] + 1 \in CL!Starts(Line(b, n)) /\ lead <= s.args[k]
           /\ Begun(Line(b, n), s.args[k] + 1) = k + 1
  BY <1>1, <1>2
<1>6. /\ Len(s.args) + 1 = Begun(Line(b, n), lead)
      /\ 2 * Len(s.args) <= lead - from
      /\ from < lead => 2 * Len(s.args) + 1 <= lead - from
  BY <1>1, <1>2, <1>3
<1>7. CutUpTo(b, n, from, lead, lead, s)
  BY <1>2, <1>4, <1>5, <1>6, Zenon DEF CutUpTo
<1> QED BY <1>7 DEF s

\* Each turn cuts one character more.
LEMMA CutTurn ==
  ASSUME NEW b, NEW n, NEW from, HasName(b, n, from), NEW lead \in from .. n,
         \A i \in from .. lead - 1 : b[i] = SPACE, b[lead] # SPACE,
         NEW i \in lead .. n - 1, NEW s, CutUpTo(b, n, from, lead, i, s)
  PROVE  CutUpTo(b, n, from, lead, i + 1, cut_at(b, i, s))
<1> DEFINE t == cut_at(b, i, s)
           w == Line(b, n)
           m == Len(s.args)
<1>1. /\ n \in Nat /\ from \in 1 .. n /\ lead \in Nat /\ i \in Nat /\ i \in Index
      /\ n <= SHELL_BUFFER_SIZE - 2 /\ IsLine(b, n) /\ b \in [Index -> Chars]
      /\ Index \subseteq Nat /\ DOMAIN w = 1 .. n
  BY Sizes DEF HasName, IsLine, Index, Line
<1>2. s \in Cuts /\ m \in Nat /\ s.args \in Seq(Index) /\ s.buffer \in [Index -> Chars]
      /\ s.ptr \in BOOLEAN
  BY DEF CutUpTo, Cuts
<1>3. from < lead
  <2>1. CASE lead = from
    <3>1. b[from] = 0
      BY <2>1 DEF HasName
    <3>2. from \in Index /\ from >= n
      BY <1>1, <2>1, <3>1, Sizes DEF IsLine, Index
    <3> QED BY <1>1, <2>1, <3>2
  <2> QED BY <1>1, <2>1
<1>4. m # MAX_ARGS
  <2>1. 2 * m <= i - from
    BY DEF CutUpTo
  <2>2. from + 2 * MAX_ARGS > SHELL_BUFFER_SIZE - 2
    BY DEF HasName
  <2> QED BY <1>1, <1>2, <2>1, <2>2, Sizes
<1>5. t = IF b[i] = SPACE
            THEN [buffer |-> [s.buffer EXCEPT ![i] = 0], ptr |-> FALSE,
                  args |-> s.args]
            ELSE [buffer |-> s.buffer, ptr |-> TRUE,
                  args |-> IF s.ptr THEN s.args ELSE Append(s.args, i)]
  BY <1>1, <1>2, <1>4, CutStep
<1>6. t \in Cuts
  BY <1>1, <1>2, CutType
<1>7. s.ptr <=> b[i - 1] # SPACE
  <2>1. s.ptr <=> (lead < i /\ b[i - 1] # SPACE)
    BY DEF CutUpTo
  <2>2. i = lead => b[i - 1] = SPACE
    BY <1>1, <1>3
  <2>3. i = lead \/ lead < i
    BY <1>1
  <2> QED BY <2>1, <2>2, <2>3, Zenon
<1>8. i + 1 \in CL!Starts(w) <=> b[i] # SPACE /\ ~ s.ptr
  <2>1. i \in 0 .. n - 1 /\ i # 0
    BY <1>1, <1>3
  <2> QED BY <1>1, <1>7, <2>1, StartIndex
<1>9. Begun(w, i + 1) = IF i + 1 \in CL!Starts(w) THEN Begun(w, i) + 1
                        ELSE Begun(w, i)
  <2>1. i + 1 \in Int /\ i + 1 - 1 = i
    BY <1>1
  <2> HIDE DEF w
  <2>2. Begun(w, i + 1) = IF i + 1 \in CL!Starts(w) THEN Begun(w, i + 1 - 1) + 1
                          ELSE Begun(w, i + 1 - 1)
    BY <1>1, <2>1, BegunStep
  <2> QED BY <2>1, <2>2
<1>10. m + 1 = Begun(w, i)
  BY DEF CutUpTo
<1>11. /\ \A k \in 1 .. m : /\ s.args[k] + 1 \in CL!Starts(w) /\ lead <= s.args[k]
                            /\ Begun(w, s.args[k] + 1) = k + 1
       /\ 2 * m <= i - from
       /\ ~ s.ptr => 2 * m + 1 <= i - from
  BY <1>1, <1>3 DEF CutUpTo
<1>12. \A j \in Index : t.buffer[j] =
         IF lead <= j /\ j < i + 1 /\ b[j] = SPACE THEN 0 ELSE b[j]
  <2> TAKE j \in Index
  <2>1. s.buffer[j] = IF lead <= j /\ j < i /\ b[j] = SPACE THEN 0 ELSE b[j]
    BY DEF CutUpTo
  <2>2. j < i + 1 <=> j < i \/ j = i
    BY <1>1
  <2>3. t.buffer = IF b[i] = SPACE THEN [s.buffer EXCEPT ![i] = 0] ELSE s.buffer
    BY <1>5
  <2> HIDE DEF t
  <2>4. t.buffer[j] = IF b[i] = SPACE /\ j = i THEN 0 ELSE s.buffer[j]
    BY <1>1, <1>2, <2>3
  <2>5. lead <= i /\ ~ (i < i)
    BY <1>1
  <2> QED BY <2>1, <2>2, <2>4, <2>5
<1>13. t.ptr <=> (lead < i + 1 /\ b[(i + 1) - 1] # SPACE)
  <2>1. lead < i + 1 /\ (i + 1) - 1 = i
    BY <1>1
  <2>2. (b[i] = SPACE => t.ptr = FALSE) /\ (b[i] # SPACE => t.ptr = TRUE)
    BY <1>5
  <2> HIDE DEF t
  <2> QED BY <2>1, <2>2, Zenon
<1>14. CASE i + 1 \in CL!Starts(w)
  <2>1. b[i] # SPACE /\ ~ s.ptr
    BY <1>8, <1>14
  <2>2. t.args = Append(s.args, i) /\ t.ptr = TRUE
    BY <1>5, <2>1
  <2>3. /\ Len(t.args) = m + 1 /\ t.args[m + 1] = i
        /\ \A k \in 1 .. m : t.args[k] = s.args[k]
    BY <1>1, <1>2, <2>2
  <2>4. Begun(w, i + 1) = m + 1 + 1
    BY <1>9, <1>10, <1>14
  <2> HIDE DEF t, w, m
  <2>5. ASSUME NEW k \in 1 .. Len(t.args)
        PROVE  /\ t.args[k] + 1 \in CL!Starts(w) /\ lead <= t.args[k]
               /\ Begun(w, t.args[k] + 1) = k + 1
    <3>1. CASE k = m + 1
      <4>1. t.args[k] = i /\ lead <= i /\ k + 1 = m + 1 + 1
        BY <1>1, <2>3, <3>1
      <4> QED BY <1>14, <2>4, <4>1
    <3>2. CASE k # m + 1
      <4>1. k \in 1 .. m
        BY <1>2, <2>3, <3>2
      <4> QED BY <1>11, <2>3, <4>1
    <3> QED BY <3>1, <3>2
  <2>6. 2 * Len(t.args) <= (i + 1) - from
    BY <1>1, <1>2, <1>11, <2>1, <2>3
  <2>7. Len(t.args) + 1 = Begun(w, i + 1)
    BY <2>3, <2>4
  <2>8. t.ptr
    BY <2>2
  <2>9. CutUpTo(b, n, from, lead, i + 1, t)
    BY <1>6, <1>12, <1>13, <2>5, <2>6, <2>7, <2>8, CutParts, Zenon DEF w
  <2> QED BY <2>9 DEF t
<1>15. CASE i + 1 \notin CL!Starts(w)
  <2>1. t.args = s.args /\ Begun(w, i + 1) = m + 1
    BY <1>5, <1>8, <1>9, <1>10, <1>15
  <2>2. 2 * m <= (i + 1) - from /\ 2 * m + 1 <= (i + 1) - from
    BY <1>1, <1>2, <1>11
  <2>3. Len(t.args) = m
    BY <2>1
  <2> HIDE DEF t, w, m
  <2>4. \A k \in 1 .. Len(t.args) :
          /\ t.args[k] + 1 \in CL!Starts(w) /\ lead <= t.args[k]
          /\ Begun(w, t.args[k] + 1) = k + 1
    BY <1>11, <2>1, <2>3
  <2>5. /\ Len(t.args) + 1 = Begun(w, i + 1)
        /\ 2 * Len(t.args) <= (i + 1) - from
        /\ 2 * Len(t.args) + 1 <= (i + 1) - from
    BY <2>1, <2>2, <2>3
  <2>6. CutUpTo(b, n, from, lead, i + 1, t)
    BY <1>6, <1>12, <1>13, <2>4, <2>5, CutParts, Zenon DEF w
  <2> QED BY <2>6 DEF t
<1> QED BY <1>14, <1>15

(***************************************************************************)
(* get_arguments: args holds where the words behind the name begin, and    *)
(* each of them has a zero behind it.                                      *)
(***************************************************************************)
LEMMA ArgumentsCut ==
  ASSUME NEW b, NEW n, NEW from, HasName(b, n, from)
  PROVE  \E lead \in from .. n :
           CutUpTo(b, n, from, lead, n, get_arguments(b, from))
<1>1. n \in Nat /\ from \in Nat /\ from <= n /\ IsLine(b, n) /\ n \in Index
      /\ b \in [Index -> Chars] /\ \A i \in 0 .. n : i \in Index
  BY Sizes DEF HasName, IsLine, Index
<1>2. PICK lead \in from .. n :
        /\ get_arguments(b, from) = Loop(b, lead, n)[n]
        /\ b[lead] # SPACE /\ \A i \in from .. lead - 1 : b[i] = SPACE
  BY <1>1, ArgumentsLoop
<1> DEFINE g == Loop(b, lead, n)
           Good(i) == CutUpTo(b, n, from, lead, i, g[i])
           T == {i \in lead .. n : ~ Good(i)}
<1>3. lead \in Nat /\ lead \in Index
  BY <1>1
<1>4. /\ g[lead] = [buffer |-> b, ptr |-> FALSE, args |-> <<>>]
      /\ \A i \in lead + 1 .. n : g[i] = cut_at(b, i - 1, g[i - 1])
  BY <1>1, <1>3, LoopTurns
<1> HIDE DEF g
<1>5. Good(lead)
  BY <1>2, <1>4, CutFirst
<1>6. ASSUME NEW i \in lead .. n - 1, Good(i) PROVE Good(i + 1)
  <2>1. CutUpTo(b, n, from, lead, i + 1, cut_at(b, i, g[i]))
    BY <1>2, <1>6, CutTurn
  <2>2. i + 1 \in lead + 1 .. n /\ i + 1 - 1 = i
    BY <1>1, <1>3
  <2>3. g[i + 1] = cut_at(b, i, g[i])
    BY <1>4, <2>2
  <2> QED BY <2>1, <2>3
<1>7. T = {}
  <2>1. SUFFICES ASSUME T # {} PROVE FALSE
    OBVIOUS
  <2>2. PICK m \in T : \A y \in T : m <= y
    <3>1. T \subseteq Nat
      BY <1>1, <1>3
    <3> HIDE DEF T
    <3> QED BY <2>1, <3>1, Least
  <2>3. m \in lead .. n /\ ~ Good(m)
    BY <2>2
  <2> HIDE DEF Good
  <2>4. m # lead
    BY <1>5, <2>3
  <2>5. m - 1 \in lead .. n /\ m - 1 \in lead .. n - 1 /\ ~ (m <= m - 1)
        /\ m - 1 + 1 = m
    BY <1>1, <1>3, <2>3, <2>4
  <2>6. m - 1 \notin T
    <3> HIDE DEF T
    <3> QED BY <2>2, <2>5
  <2>7. Good(m - 1)
    BY <2>5, <2>6
  <2>8. Good(m - 1 + 1)
    BY <1>6, <2>5, <2>7
  <2> QED BY <2>3, <2>5, <2>8
<1>8. n \in lead .. n
  BY <1>1
<1>9. Good(n)
  <2> HIDE DEF Good
  <2> QED BY <1>7, <1>8
<1> QED BY <1>2, <1>9 DEF g

-----------------------------------------------------------------------------
\* A line is a sequence of its characters.
LEMMA LineSeq ==
  ASSUME NEW b, NEW n, IsLine(b, n)
  PROVE  /\ n \in Nat /\ n <= SHELL_BUFFER_SIZE - 2 /\ n \in Index
         /\ b \in [Index -> Chars] /\ 0 .. n \subseteq Index
         /\ Line(b, n) \in Seq(Chars) /\ Len(Line(b, n)) = n
         /\ DOMAIN Line(b, n) = 1 .. n
         /\ \A i \in 1 .. n : Line(b, n)[i] = b[i - 1]
<1>1. n \in Nat /\ n <= SHELL_BUFFER_SIZE - 2 /\ n \in Index
      /\ b \in [Index -> Chars] /\ 0 .. n \subseteq Index
  BY Sizes DEF IsLine, Index
<1>2. \A i \in 1 .. n : b[i - 1] \in Chars
  <2> TAKE i \in 1 .. n
  <2>1. i - 1 \in 0 .. n
    BY <1>1
  <2> QED BY <1>1, <2>1
<1> QED BY <1>1, <1>2 DEF Line

\* The word at i ends before the first blank.
LEMMA WordIs ==
  ASSUME NEW n \in Nat, NEW s, DOMAIN s = 1 .. n, Len(s) = n,
         NEW i \in 1 .. n, NEW j \in i .. n,
         CL!Blank(s, j + 1), \A k \in i .. j : ~ CL!Blank(s, k)
  PROVE  CL!WordAt(s, i) = SubSeq(s, i, j)
<1> DEFINE P(h) == CL!Blank(s, h + 1) /\ \A k \in i .. h : ~ CL!Blank(s, k)
<1>1. P(j)
  OBVIOUS
<1>2. ASSUME NEW h \in i .. n, P(h) PROVE h = j
  <2>1. CASE h < j
    <3>1. h + 1 \in i .. j
      BY <2>1
    <3> QED BY <1>2, <3>1
  <2>2. CASE j < h
    <3>1. j + 1 \in i .. h
      BY <2>2
    <3> QED BY <1>2, <3>1
  <2> QED BY <2>1, <2>2
<1> HIDE DEF P
<1>3. (CHOOSE h \in i .. n : P(h)) = j
  BY <1>1, <1>2
<1> QED BY <1>3 DEF P, CL!WordAt

(***************************************************************************)
(* The string that starts at a word, in a buffer whose spaces have become  *)
(* zeros, is the word.                                                     *)
(***************************************************************************)
LEMMA StringWord ==
  ASSUME NEW b, NEW n, IsLine(b, n), NEW c, NEW p \in 0 .. n - 1, b[p] # SPACE,
         \A j \in Index : j >= p => c[j] = IF b[j] = SPACE THEN 0 ELSE b[j]
  PROVE  String(c, p) = CL!WordAt(Line(b, n), p + 1)
<1> DEFINE s == Line(b, n)
           T == {i \in Index : i >= p /\ c[i] = 0}
<1>1. /\ n \in Nat /\ n \in Index /\ 0 .. n \subseteq Index /\ p \in Nat /\ p \in Index
      /\ s \in Seq(Chars) /\ Len(s) = n /\ DOMAIN s = 1 .. n
      /\ \A i \in 1 .. n : s[i] = b[i - 1]
  <2>1. /\ n \in Nat /\ n \in Index /\ 0 .. n \subseteq Index
        /\ s \in Seq(Chars) /\ Len(s) = n /\ DOMAIN s = 1 .. n
        /\ \A i \in 1 .. n : s[i] = b[i - 1]
    BY LineSeq, Zenon
  <2>2. p \in Nat /\ p \in 0 .. n
    BY <2>1
  <2> QED BY <2>1, <2>2, Zenon
<1>2. SPACE # 0 /\ Index \subseteq Nat /\ \A i \in Index : b[i] = 0 <=> i >= n
  BY Sizes DEF SPACE, IsLine, Index
<1>3. n \in T /\ p \notin T /\ T \subseteq Nat
  <2>1. n >= p /\ p >= p /\ ~ (p >= n)
    BY <1>1
  <2>2. c[n] = 0
    BY <1>1, <1>2, <2>1
  <2>3. c[p] = b[p] /\ b[p] # 0
    BY <1>1, <1>2, <2>1
  <2> QED BY <1>1, <1>2, <2>1, <2>2, <2>3
<1>4. PICK e \in Nat : e = Min(T) /\ e \in T /\ \A y \in T : e <= y
  <2> HIDE DEF T
  <2> QED BY <1>3, MinIsLeast
<1>5. e \in p + 1 .. n /\ e \in Index /\ c[e] = 0
  BY <1>1, <1>3, <1>4
<1>6. \A i \in p .. e - 1 : i \in Index /\ b[i] # SPACE /\ c[i] = b[i]
  <2> TAKE i \in p .. e - 1
  <2>1. i \in Index /\ i >= p /\ i < n /\ ~ (e <= i)
    BY <1>1, <1>5
  <2>2. c[i] # 0
    BY <1>4, <2>1
  <2> QED BY <2>1, <2>2
<1>7. b[e] = SPACE \/ e = n
  <2>1. CASE b[e] # SPACE
    <3>1. b[e] = 0
      BY <1>5, <2>1, <1>1
    <3> QED BY <1>1, <1>2, <1>5, <3>1
  <2> QED BY <2>1
<1>8. CL!Blank(s, e + 1)
  <2>1. CASE e = n
    BY <1>1, <2>1 DEF CL!Blank
  <2>2. CASE e # n
    <3>1. e + 1 \in 1 .. n /\ (e + 1) - 1 = e
      BY <1>1, <1>5, <2>2
    <3>2. s[e + 1] = b[e]
      BY <1>1, <3>1
    <3> QED BY <1>7, <2>2, <3>2 DEF CL!Blank
  <2> QED BY <2>1, <2>2
<1>9. \A k \in p + 1 .. e : ~ CL!Blank(s, k)
  <2> TAKE k \in p + 1 .. e
  <2>1. k \in 1 .. n /\ k - 1 \in p .. e - 1
    BY <1>1, <1>5
  <2> QED BY <1>1, <1>6, <2>1 DEF CL!Blank
<1>10. CL!WordAt(s, p + 1) = SubSeq(s, p + 1, e)
  <2>1. p + 1 \in 1 .. n
    BY <1>1
  <2> HIDE DEF s
  <2>2. \A i \in 1 .. n : \A j \in i .. n :
          CL!Blank(s, j + 1) /\ (\A k \in i .. j : ~ CL!Blank(s, k))
            => CL!WordAt(s, i) = SubSeq(s, i, j)
    <3>1. n \in Nat /\ DOMAIN s = 1 .. n /\ Len(s) = n
      BY <1>1
    <3>2. ASSUME NEW i \in 1 .. n, NEW j \in i .. n, CL!Blank(s, j + 1),
                 \A k \in i .. j : ~ CL!Blank(s, k)
          PROVE  CL!WordAt(s, i) = SubSeq(s, i, j)
      BY <3>1, <3>2, WordIs, Zenon
    <3> QED BY <3>2, Zenon
  <2> QED BY <1>5, <1>8, <1>9, <2>1, <2>2
<1>11. String(c, p) = [i \in 1 .. e - p |-> c[p + i - 1]]
  BY <1>4 DEF String
<1>12. SubSeq(s, p + 1, e) = [i \in 1 .. e - p |-> c[p + i - 1]]
  <2> DEFINE u == SubSeq(s, p + 1, e)
  <2>0. \A i \in p + 1 .. e : s[i] \in Chars
    BY <1>1, <1>5
  <2>1. u \in Seq(Chars) /\ Len(u) = e - p
        /\ \A i \in 1 .. e - p : u[i] = s[(p + 1) + i - 1]
    <3>1. p + 1 \in Int /\ e \in Int /\ p + 1 <= e /\ e - (p + 1) + 1 = e - p
      BY <1>1, <1>5
    <3> HIDE DEF s
    <3> QED BY <2>0, <3>1, SubSeqProperties
  <2>2. ASSUME NEW i \in 1 .. e - p PROVE u[i] = c[p + i - 1]
    <3>1. /\ (p + 1) + i - 1 \in 1 .. n /\ ((p + 1) + i - 1) - 1 = p + i - 1
          /\ p + i - 1 \in p .. e - 1
      BY <1>1, <1>5
    <3>2. s[(p + 1) + i - 1] = b[p + i - 1]
      BY <1>1, <3>1
    <3> QED BY <1>6, <2>1, <3>1, <3>2
  <2> HIDE DEF u
  <2>3. DOMAIN u = 1 .. e - p /\ u = [i \in DOMAIN u |-> u[i]]
    BY <2>1
  <2>4. u = [i \in 1 .. e - p |-> c[p + i - 1]]
    BY <2>2, <2>3
  <2> QED BY <2>4 DEF u
<1> QED BY <1>10, <1>11, <1>12

\* CommandLine's Cardinality is the usual one.
LEMMA SameCardinality ==
  ASSUME NEW S
  PROVE  CL!Cardinality(S) = Cardinality(S)
BY Zenon DEF CL!Cardinality, Cardinality

\* The w-th word begins where w words have begun.
LEMMA WordPick ==
  ASSUME NEW n \in Nat, NEW s, DOMAIN s = 1 .. n, NEW i \in CL!Starts(s)
  PROVE  /\ Begun(s, i) \in 1 .. Cardinality(CL!Starts(s))
         /\ CL!Words(s)[Begun(s, i)] = CL!WordAt(s, i)
<1> DEFINE St == CL!Starts(s)
           before == {h \in St : h <= i}
<1>1. IsFiniteSet(St) /\ St \subseteq 1 .. n /\ IsFiniteSet(before) /\ i \in Nat
  <2>1. IsFiniteSet(St) /\ St \subseteq 1 .. n
    BY StartsFinite
  <2>2. i \in Int
    BY <2>1
  <2> QED BY <2>1, <2>2, StartsFinite
<1>2. Begun(s, i) \in 1 .. Cardinality(St)
  <2>1. before \in SUBSET St /\ i \in before
    BY <1>1
  <2>2. Cardinality(before) \in Nat /\ Cardinality(St) \in Nat
        /\ Cardinality(before) <= Cardinality(St)
    <3> HIDE DEF before, St
    <3> QED BY <1>1, <2>1, FS_Subset, FS_CardinalityType
  <2>3. Cardinality(before) # 0
    <3> HIDE DEF before, St
    <3> QED BY <1>1, <2>1, FS_EmptySet
  <2> QED BY <2>2, <2>3 DEF Begun
<1>3. ASSUME NEW h \in St, Begun(s, h) = Begun(s, i) PROVE h = i
  <2>0. h \in Int /\ i \in Int
    BY <1>1
  <2>1. h \in Int /\ i \in Int /\ Begun(s, h) \in Nat /\ Begun(s, i) \in Nat
    BY <2>0, StartsFinite, Zenon
  <2>2. CASE h < i
    BY <1>3, <2>1, <2>2, BegunUnique
  <2>3. CASE i < h
    BY <1>3, <2>1, <2>3, BegunUnique
  <2> QED BY <2>1, <2>2, <2>3
<1> HIDE DEF St, before
<1>4. (CHOOSE h \in St : CL!Cardinality({j \in St : j <= h}) = Begun(s, i)) = i
  <2>1. \A h \in St : CL!Cardinality({j \in St : j <= h}) = Begun(s, h)
    BY SameCardinality, Zenon DEF Begun, St
  <2>2. \A h \in St : Begun(s, h) = Begun(s, i) <=> h = i
    BY <1>3
  <2>3. \A h \in St : CL!Cardinality({j \in St : j <= h}) = Begun(s, i) <=> h = i
    BY <2>1, <2>2, Zenon
  <2>4. i \in St
    BY DEF St
  <2> QED BY <2>3, <2>4
<1>5. \A w \in 1 .. CL!Cardinality(St) : CL!Words(s)[w] =
        CL!WordAt(s, CHOOSE h \in St : CL!Cardinality({j \in St : j <= h}) = w)
  BY DEF CL!Words, St
<1>6. CL!Words(s)[Begun(s, i)] =
        CL!WordAt(s, CHOOSE h \in St : CL!Cardinality({j \in St : j <= h}) = Begun(s, i))
  BY <1>2, <1>5, SameCardinality
<1> QED BY <1>2, <1>4, <1>6 DEF St

-----------------------------------------------------------------------------
\* f is the length of the line's first word, which the line starts with.
IsFirst(b, n, f) ==
  /\ IsLine(b, n) /\ f \in 1 .. n
  /\ \A i \in 0 .. f - 1 : b[i] # SPACE
  /\ b[f] \in {SPACE, 0}

\* A line that does not start with a space starts with a word.
LEMMA SomeFirst ==
  ASSUME NEW b, NEW n, IsLine(b, n), n > 0, b[0] # SPACE
  PROVE  \E f \in 1 .. n : IsFirst(b, n, f)
<1> DEFINE T == {i \in 0 .. n : b[i] \in {SPACE, 0}}
<1>1. n \in Nat /\ n \in Index /\ 0 .. n \subseteq Index
      /\ \A i \in Index : b[i] = 0 <=> i >= n
  BY LineSeq DEF IsLine
<1>2. n \in T /\ T \subseteq Nat /\ 0 \notin T
  <2>1. 0 \in Index /\ ~ (0 >= n) /\ n \in 0 .. n
    BY <1>1
  <2>2. b[n] = 0 /\ b[0] # 0
    BY <1>1, <2>1
  <2> QED BY <1>1, <2>1, <2>2
<1>3. PICK f \in T : \A y \in T : f <= y
  <2> HIDE DEF T
  <2> QED BY <1>2, Least
<1>4. f \in 1 .. n /\ b[f] \in {SPACE, 0}
  BY <1>1, <1>2, <1>3
<1>5. \A i \in 0 .. f - 1 : b[i] # SPACE
  <2> TAKE i \in 0 .. f - 1
  <2>1. i \in 0 .. n /\ ~ (f <= i)
    BY <1>1, <1>4
  <2> QED BY <1>3, <2>1
<1> QED BY <1>4, <1>5 DEF IsFirst

\* The first word begins the line.
LEMMA FirstWord ==
  ASSUME NEW b, NEW n, NEW f, IsFirst(b, n, f)
  PROVE  /\ CL!Words(Line(b, n))[1] \in Seq(Chars)
         /\ Len(CL!Words(Line(b, n))[1]) = f
         /\ \A i \in 1 .. f : CL!Words(Line(b, n))[1][i] = b[i - 1]
         /\ ~ CL!Blank(Line(b, n), 1) /\ Line(b, n) # <<>>
         /\ Cardinality(CL!Starts(Line(b, n))) >= 1
<1> DEFINE s == Line(b, n)
           W == CL!Words(s)[1]
<1>1. /\ n \in Nat /\ n \in Index /\ 0 .. n \subseteq Index /\ IsLine(b, n)
      /\ s \in Seq(Chars) /\ Len(s) = n /\ DOMAIN s = 1 .. n
      /\ \A i \in 1 .. n : s[i] = b[i - 1]
  BY LineSeq DEF IsFirst
<1>2. f \in 1 .. n /\ b[f] \in {SPACE, 0} /\ \A i \in 0 .. f - 1 : b[i] # SPACE
  BY DEF IsFirst
<1>3. 1 \in CL!Starts(s)
  <2>1. 0 \in 0 .. n - 1 /\ b[0] # SPACE /\ 0 + 1 = 1
    BY <1>1, <1>2
  <2>2. 0 + 1 \in CL!Starts(s)
    BY <1>1, <2>1, StartIndex
  <2> QED BY <2>1, <2>2
<1>4. Begun(s, 1) = 1
  <2>1. CL!Starts(s) \subseteq 1 .. n
    BY <1>1, StartsFinite
  <2>2. {h \in CL!Starts(s) : h <= 1} = {1}
    BY <1>1, <1>3, <2>1
  <2> QED BY <2>2, FS_Singleton DEF Begun
<1>5. W = CL!WordAt(s, 1) /\ Cardinality(CL!Starts(s)) >= 1
  <2>1. /\ Begun(s, 1) \in 1 .. Cardinality(CL!Starts(s))
        /\ CL!Words(s)[Begun(s, 1)] = CL!WordAt(s, 1)
    <3> HIDE DEF s, W
    <3> QED BY <1>1, <1>3, WordPick
  <2>2. Cardinality(CL!Starts(s)) \in Nat
    BY <1>1, StartsFinite, FS_CardinalityType
  <2> QED BY <1>4, <2>1, <2>2
<1>6. \A k \in 1 .. f : ~ CL!Blank(s, k)
  <2> TAKE k \in 1 .. f
  <2>1. k \in 1 .. n /\ k - 1 \in 0 .. f - 1
    BY <1>1, <1>2
  <2> QED BY <1>1, <1>2, <2>1 DEF CL!Blank
<1>7. CL!Blank(s, f + 1)
  <2>1. CASE f = n
    BY <1>1, <2>1 DEF CL!Blank
  <2>2. CASE f # n
    <3>1. f + 1 \in 1 .. n /\ (f + 1) - 1 = f /\ f \in Index /\ ~ (f >= n)
      BY <1>1, <1>2, <2>2
    <3>2. s[f + 1] = b[f] /\ b[f] # 0
      BY <1>1, <3>1 DEF IsLine
    <3> QED BY <1>2, <3>2 DEF CL!Blank
  <2> QED BY <2>1, <2>2
<1>8. W = SubSeq(s, 1, f)
  <2>1. 1 \in 1 .. n /\ f \in 1 .. n
    BY <1>1, <1>2
  <2>2. CL!WordAt(s, 1) = SubSeq(s, 1, f)
    <3> HIDE DEF s
    <3> QED BY <1>1, <1>6, <1>7, <2>1, WordIs, Zenon
  <2> QED BY <1>5, <2>2
<1>9. W \in Seq(Chars) /\ Len(W) = f /\ \A i \in 1 .. f : W[i] = b[i - 1]
  <2>1. \A i \in 1 .. f : s[i] \in Chars
    BY <1>1, <1>2
  <2>2. 1 \in Int /\ f \in Int /\ 1 <= f /\ f - 1 + 1 = f
    BY <1>1, <1>2
  <2>3. SubSeq(s, 1, f) \in Seq(Chars) /\ Len(SubSeq(s, 1, f)) = f
        /\ \A i \in 1 .. f : SubSeq(s, 1, f)[i] = s[1 + i - 1]
    <3> HIDE DEF s, W
    <3> QED BY <2>1, <2>2, SubSeqProperties
  <2>4. \A i \in 1 .. f : i \in 1 .. n /\ 1 + i - 1 = i
    BY <1>1, <1>2
  <2> HIDE DEF s, W
  <2> QED BY <1>1, <1>8, <2>3, <2>4
<1>10. ~ CL!Blank(s, 1) /\ s # <<>>
  <2>1. 1 \in 1 .. f /\ 1 \in DOMAIN s
    BY <1>1, <1>2
  <2> QED BY <1>1, <1>6, <2>1
<1> HIDE DEF s, W
<1> QED BY <1>5, <1>9, <1>10 DEF s, W

\* get_arguments finds the words behind the name.
LEMMA OtherWords ==
  ASSUME NEW b, NEW n, NEW from, HasName(b, n, from), NEW lead \in from .. n,
         NEW cut, CutUpTo(b, n, from, lead, n, cut)
  PROVE  Tail(CL!Words(Line(b, n))) =
           [a \in DOMAIN cut.args |-> String(cut.buffer, cut.args[a])]
<1> DEFINE s == Line(b, n)
           W == CL!Words(s)
           m == Len(cut.args)
           N == Cardinality(CL!Starts(s))
<1>1. /\ n \in Nat /\ n \in Index /\ 0 .. n \subseteq Index /\ IsLine(b, n)
      /\ Len(s) = n /\ DOMAIN s = 1 .. n /\ Index \subseteq Nat
  BY LineSeq, Sizes DEF HasName, Index
<1>2. m \in Nat /\ cut.args \in Seq(Index) /\ DOMAIN cut.args = 1 .. m
  BY DEF CutUpTo, Cuts
<1>3. N = m + 1
  <2>1. {h \in CL!Starts(s) : h <= n} = CL!Starts(s)
    <3>1. CL!Starts(s) \subseteq 1 .. n
      BY <1>1, StartsFinite
    <3> QED BY <1>1, <3>1
  <2>2. m + 1 = Begun(s, n)
    BY DEF CutUpTo
  <2> QED BY <2>1, <2>2 DEF Begun
<1>4. ASSUME NEW k \in 1 .. m
      PROVE  W[k + 1] = String(cut.buffer, cut.args[k])
  <2> DEFINE p == cut.args[k]
  <2>1. p + 1 \in CL!Starts(s) /\ lead <= p /\ Begun(s, p + 1) = k + 1 /\ p \in Nat
    <3>1. p + 1 \in CL!Starts(s) /\ lead <= p /\ Begun(s, p + 1) = k + 1
      BY DEF CutUpTo
    <3>2. p \in Index
      BY <1>2
    <3>3. p \in Nat
      BY <1>1, <3>2, Zenon
    <3> QED BY <3>1, <3>3
  <2>2. CL!Starts(s) \subseteq 1 .. n
    BY <1>1, StartsFinite
  <2>3. p \in 0 .. n - 1
    <3> HIDE DEF p
    <3>1. p + 1 \in 1 .. n
      BY <2>1, <2>2
    <3> QED BY <1>1, <2>1, <3>1
  <2>4. b[p] # SPACE
    BY <1>1, <2>1, <2>3, StartIndex
  <2>5. \A j \in Index : j >= p => cut.buffer[j] = IF b[j] = SPACE THEN 0 ELSE b[j]
    <3> TAKE j \in Index
    <3> HAVE j >= p
    <3>1. cut.buffer[j] = IF lead <= j /\ j < n /\ b[j] = SPACE THEN 0 ELSE b[j]
      BY DEF CutUpTo
    <3>2. lead <= j
      BY <1>1, <2>1
    <3>3. b[j] = SPACE => j < n
      <4>1. b[j] = 0 <=> j >= n
        BY DEF IsLine, HasName
      <4> QED BY <1>1, <4>1 DEF SPACE
    <3> QED BY <3>1, <3>2, <3>3
  <2>6. W[k + 1] = CL!WordAt(s, p + 1)
    <3> HIDE DEF s, p, W
    <3>1. CL!Words(s)[Begun(s, p + 1)] = CL!WordAt(s, p + 1)
      BY <1>1, <2>1, WordPick
    <3> QED BY <2>1, <3>1 DEF W
  <2>7. String(cut.buffer, p) = CL!WordAt(s, p + 1)
    <3> HIDE DEF p
    <3> QED BY <1>1, <2>3, <2>4, <2>5, StringWord
  <2> QED BY <2>6, <2>7
<1>5. DOMAIN W = 1 .. N
  BY SameCardinality DEF CL!Words
<1>6. W \in Seq({W[w] : w \in 1 .. N}) /\ Len(W) = N
  <2>1. N \in Nat
    BY <1>2, <1>3
  <2>2. W = [w \in 1 .. N |-> W[w]]
    BY <1>5 DEF CL!Words
  <2> HIDE DEF W, N
  <2> QED BY <2>1, <2>2
<1> HIDE DEF W, N, s
<1>7. W # <<>> /\ Len(W) = m + 1
  BY <1>2, <1>3, <1>6
<1>8. DOMAIN Tail(W) = 1 .. m /\ \A k \in 1 .. m : Tail(W)[k] = W[k + 1]
  BY <1>2, <1>6, <1>7
<1>9. Tail(W) = [k \in DOMAIN Tail(W) |-> Tail(W)[k]]
  <2> DEFINE S == {W[w] : w \in 1 .. N}
             t == Tail(W)
  <2>1. t \in Seq(S)
    <3> HIDE DEF S
    <3> QED BY <1>6, <1>7, HeadTailProperties DEF S
  <2> HIDE DEF S, t
  <2>2. t = [k \in DOMAIN t |-> t[k]]
    BY <2>1
  <2> QED BY <2>2 DEF t
<1>10. Tail(W) = [a \in 1 .. m |-> String(cut.buffer, cut.args[a])]
  BY <1>4, <1>8, <1>9
<1> QED BY <1>2, <1>10 DEF W, s

-----------------------------------------------------------------------------
\* The names are as initialize_cmd_table has them.
LEMMA NameOf ==
  ASSUME NEW i \in DOMAIN cmd_table
  PROVE  LET name == cmd_table[i].name IN
         /\ i \in Nat \ {0} /\ name \in Names
         /\ name \in Seq(Nat \ {0, SPACE}) /\ DOMAIN name = 1 .. Len(name)
         /\ Len(name) \in 1 .. SHELL_BUFFER_SIZE - 1
         /\ \A k \in 1 .. Len(name) : name[k] # 0 /\ name[k] # SPACE
         /\ Len(name) + 2 * MAX_ARGS > SHELL_BUFFER_SIZE - 2
<1> DEFINE name == cmd_table[i].name
<1>1. cmd_table \in Seq([name : Seq(Nat \ {0, SPACE}), func : STRING])
  BY ShellAssumption
<1>2. i \in Nat \ {0} /\ cmd_table[i] \in [name : Seq(Nat \ {0, SPACE}), func : STRING]
  <2> DEFINE R == [name : Seq(Nat \ {0, SPACE}), func : STRING]
  <2>1. cmd_table \in Seq(R)
    BY <1>1
  <2> HIDE DEF R
  <2>2. i \in Nat \ {0} /\ cmd_table[i] \in R
    BY <2>1
  <2> QED BY <2>2 DEF R
<1>3. name \in Seq(Nat \ {0, SPACE})
  BY <1>2
<1>4. name \in Names /\ Len(name) \in 1 .. SHELL_BUFFER_SIZE - 1
  BY ShellAssumption DEF Names
<1> HIDE DEF name
<1>5. DOMAIN name = 1 .. Len(name)
      /\ \A k \in 1 .. Len(name) : name[k] # 0 /\ name[k] # SPACE
  BY <1>3
<1>6. Len(name) + 2 * MAX_ARGS > SHELL_BUFFER_SIZE - 2
  BY <1>4, ShellAssumption
<1> QED BY <1>2, <1>3, <1>4, <1>5, <1>6 DEF name

\* Of two names that a buffer starts with, the shorter starts the longer.
LEMMA StartsBoth ==
  ASSUME NEW b, NEW i \in DOMAIN cmd_table, NEW j \in DOMAIN cmd_table,
         substr(cmd_table[i].name, b), substr(cmd_table[j].name, b),
         Len(cmd_table[i].name) <= Len(cmd_table[j].name)
  PROVE  i = j
<1> DEFINE x == cmd_table[i].name
           y == cmd_table[j].name
           S == Nat \ {0, SPACE}
<1>1. /\ x \in Seq(S) /\ DOMAIN x = 1 .. Len(x) /\ Len(x) \in Nat
      /\ y \in Seq(S) /\ DOMAIN y = 1 .. Len(y) /\ Len(y) \in Nat
  BY NameOf
<1>2. /\ \A k \in 1 .. Len(x) : x[k] = b[k - 1]
      /\ \A k \in 1 .. Len(y) : y[k] = b[k - 1]
  BY <1>1 DEF substr
<1>3. Len(x) <= Len(y)
  OBVIOUS
<1>4. IsPrefix(x, y)
  <2> HIDE DEF x, y, S
  <2>1. \A k \in 1 .. Len(x) : x[k] = y[k]
    BY <1>1, <1>2, <1>3
  <2>2. SubSeq(x, 1, Len(x)) = SubSeq(y, 1, Len(x))
    BY <1>1, <1>3, <2>1
  <2> QED BY <1>3, <2>2 DEF IsPrefix
<1> QED BY <1>4, ShellAssumption

\* A buffer starts with one name at most.
LEMMA OneFound ==
  ASSUME NEW b, NEW i \in DOMAIN cmd_table, NEW j \in DOMAIN cmd_table,
         substr(cmd_table[i].name, b), substr(cmd_table[j].name, b)
  PROVE  i = j
<1>1. Len(cmd_table[i].name) \in Nat /\ Len(cmd_table[j].name) \in Nat
  BY NameOf, Sizes
<1>2. CASE Len(cmd_table[i].name) <= Len(cmd_table[j].name)
  BY <1>2, StartsBoth
<1>3. CASE Len(cmd_table[j].name) <= Len(cmd_table[i].name)
  BY <1>3, StartsBoth
<1> QED BY <1>1, <1>2, <1>3

\* parse_command finds the name that the buffer starts with.
LEMMA ParseFinds ==
  ASSUME NEW b, NEW i \in DOMAIN cmd_table, substr(cmd_table[i].name, b),
         b[Len(cmd_table[i].name)] \in {SPACE, 0}
  PROVE  parse_command(b) = i
<1> DEFINE found == {j \in DOMAIN cmd_table : substr(cmd_table[j].name, b)}
<1>1. found = {i}
  BY OneFound
<1>2. i \in Nat /\ i # 0
  BY NameOf
<1> HIDE DEF found
<1>3. Min(found) = i
  <2>1. found \subseteq Nat /\ found # {}
    BY <1>1, <1>2
  <2>2. Min(found) \in found
    BY <2>1, MinIsLeast
  <2> QED BY <1>1, <2>2
<1>4. found # {}
  BY <1>1
<1> QED BY <1>2, <1>3, <1>4 DEF parse_command, found

\* What parse_command finds is a name that the buffer starts with.
LEMMA ParseFound ==
  ASSUME NEW b, NEW i, i = parse_command(b), i # 0
  PROVE  /\ i \in DOMAIN cmd_table /\ substr(cmd_table[i].name, b)
         /\ b[Len(cmd_table[i].name)] \in {SPACE, 0}
<1> DEFINE found == {j \in DOMAIN cmd_table : substr(cmd_table[j].name, b)}
           cmd_no == IF found = {} THEN 0 ELSE Min(found)
<1>1. /\ cmd_no # 0 /\ i = cmd_no
      /\ b[Len(cmd_table[cmd_no].name)] \in {SPACE, 0}
  BY DEF parse_command
<1>2. found # {} /\ i = Min(found)
  BY <1>1
<1>3. found \subseteq Nat
  BY NameOf
<1>4. i \in found
  <2> HIDE DEF found, cmd_no
  <2> QED BY <1>2, <1>3, MinIsLeast
<1> QED BY <1>1, <1>4

\* The command that parse_command finds is the line's first word.
LEMMA ParseFirst ==
  ASSUME NEW b, NEW n, IsLine(b, n), NEW i \in DOMAIN cmd_table,
         substr(cmd_table[i].name, b), b[Len(cmd_table[i].name)] \in {SPACE, 0}
  PROVE  LET name == cmd_table[i].name IN
         /\ IsFirst(b, n, Len(name)) /\ HasName(b, n, Len(name))
         /\ CL!Words(Line(b, n))[1] = name
<1> DEFINE name == cmd_table[i].name
           f == Len(name)
           W == CL!Words(Line(b, n))[1]
<1>1. /\ name \in Seq(Nat \ {0, SPACE}) /\ DOMAIN name = 1 .. f
      /\ f \in 1 .. SHELL_BUFFER_SIZE - 1
      /\ \A k \in 1 .. f : name[k] # 0 /\ name[k] # SPACE
      /\ f + 2 * MAX_ARGS > SHELL_BUFFER_SIZE - 2
  BY NameOf
<1>2. \A k \in 1 .. f : name[k] = b[k - 1]
  BY <1>1 DEF substr
<1>3. n \in Nat /\ \A k \in Index : b[k] = 0 <=> k >= n
  BY LineSeq DEF IsLine
<1> HIDE DEF name, W
<1>4. f \in 1 .. n
  <2>1. f \in 1 .. f /\ f - 1 \in Index /\ f \in Nat /\ f >= 1
    BY <1>1, Sizes DEF Index
  <2>2. b[f - 1] # 0
    BY <1>1, <1>2, <2>1
  <2>3. ~ (f - 1 >= n)
    BY <1>3, <2>1, <2>2
  <2> QED BY <1>3, <2>1, <2>3
<1>5. \A k \in 0 .. f - 1 : b[k] # SPACE
  <2> TAKE k \in 0 .. f - 1
  <2>1. k + 1 \in 1 .. f /\ (k + 1) - 1 = k
    BY <1>4
  <2> QED BY <1>1, <1>2, <2>1
<1>6. b[f] \in {SPACE, 0}
  BY DEF name
<1>7. IsFirst(b, n, f) /\ HasName(b, n, f)
  BY <1>1, <1>4, <1>5, <1>6 DEF IsFirst, HasName
<1>8. W \in Seq(Chars) /\ Len(W) = f /\ \A k \in 1 .. f : W[k] = b[k - 1]
  BY <1>7, FirstWord DEF W
<1>9. W = name
  <2>1. \A k \in 1 .. f : W[k] = name[k]
    BY <1>2, <1>8
  <2> QED BY <1>1, <1>8, <2>1
<1> QED BY <1>7, <1>9 DEF name, W

\* parse_command finds no command in a line that invokes none.
LEMMA InvokesNone ==
  ASSUME NEW b, NEW n, IsLine(b, n), parse_command(b) = 0
  PROVE  CL!Invocation(Line(b, n)) = None
<1> DEFINE s == Line(b, n)
<1>1. n \in Nat /\ Len(s) = n /\ DOMAIN s = 1 .. n /\ s \in Seq(Chars)
      /\ \A i \in 1 .. n : s[i] = b[i - 1]
  BY LineSeq
<1>2. CASE n = 0
  <2>1. s = <<>>
    BY <1>1, <1>2
  <2> QED BY <2>1 DEF CL!Invocation, CL!None, None
<1>3. CASE n # 0 /\ b[0] = SPACE
  <2>1. 1 \in 1 .. n /\ 1 - 1 = 0
    BY <1>1, <1>3
  <2>2. CL!Blank(s, 1)
    BY <1>1, <1>3, <2>1 DEF CL!Blank
  <2> QED BY <2>2 DEF CL!Invocation, CL!None, None
<1>4. CASE n # 0 /\ b[0] # SPACE
  <2>1. n > 0
    BY <1>1, <1>4
  <2>2. PICK f \in 1 .. n : IsFirst(b, n, f)
    BY <1>4, <2>1, SomeFirst
  <2> DEFINE W == CL!Words(s)[1]
  <2>3. W \in Seq(Chars) /\ Len(W) = f /\ \A k \in 1 .. f : W[k] = b[k - 1]
    BY <2>2, FirstWord
  <2>4. W \notin Names
    <3>1. SUFFICES ASSUME W \in Names PROVE FALSE
      OBVIOUS
    <3>2. PICK i \in DOMAIN cmd_table : W = cmd_table[i].name
      BY <3>1 DEF Names
    <3> HIDE DEF W
    <3>3. substr(cmd_table[i].name, b) /\ b[Len(cmd_table[i].name)] \in {SPACE, 0}
      <4>1. DOMAIN W = 1 .. f
        BY <2>3
      <4>2. substr(W, b)
        BY <2>3, <4>1 DEF substr
      <4>3. b[Len(W)] \in {SPACE, 0}
        BY <2>2, <2>3 DEF IsFirst
      <4> QED BY <3>2, <4>2, <4>3
    <3>4. parse_command(b) = i
      BY <3>3, ParseFinds
    <3> QED BY <3>4, NameOf
  <2> QED BY <2>4 DEF CL!Invocation, CL!None, None
<1> QED BY <1>2, <1>3, <1>4

(***************************************************************************)
(* excecute_command runs what the line invokes: the command that its first *)
(* word names, with the other words as its arguments.                      *)
(***************************************************************************)
LEMMA InvokesCommand ==
  ASSUME NEW b, NEW n, IsLine(b, n), NEW i, i = parse_command(b), i # 0
  PROVE  LET cut == get_arguments(b, Len(cmd_table[i].name)) IN
         /\ \E lead \in Nat : CutUpTo(b, n, Len(cmd_table[i].name), lead, n, cut)
         /\ CL!Invocation(Line(b, n)) =
              [cmd  |-> cmd_table[i].name,
               args |-> [a \in DOMAIN cut.args |-> String(cut.buffer, cut.args[a])]]
<1> DEFINE name == cmd_table[i].name
           f == Len(name)
           cut == get_arguments(b, f)
           s == Line(b, n)
           W == CL!Words(s)
           args == [a \in DOMAIN cut.args |-> String(cut.buffer, cut.args[a])]
<1>1. /\ i \in DOMAIN cmd_table /\ substr(cmd_table[i].name, b)
      /\ b[Len(cmd_table[i].name)] \in {SPACE, 0}
  BY ParseFound
<1>2. IsFirst(b, n, f) /\ HasName(b, n, f) /\ W[1] = name
  BY <1>1, ParseFirst
<1>3. name \in Names
  BY <1>1, NameOf
<1>4. ~ CL!Blank(s, 1) /\ s # <<>>
  BY <1>2, FirstWord
<1>5. PICK lead \in f .. n : CutUpTo(b, n, f, lead, n, cut)
  BY <1>2, ArgumentsCut
<1>6. lead \in Nat
  BY <1>2 DEF IsFirst
<1>7. Tail(W) = args
  <2> HIDE DEF cut
  <2> QED BY <1>2, <1>5, OtherWords
<1> HIDE DEF s, cut, args, name
<1>8. CL!Invocation(s) = [cmd |-> name, args |-> args]
  BY <1>2, <1>3, <1>4, <1>7 DEF CL!Invocation
<1> QED BY <1>5, <1>6, <1>8 DEF s, cut, args, name

-----------------------------------------------------------------------------
\* What becomes of the shell is one of its states.
LEMMA OutcomesKnown ==
  ASSUME NEW func, NEW args, NEW next \in Outcomes(func, args)
  PROVE  next \in Open \cup Closed
<1>1. /\ halt_system(args) \subseteq Open \cup Closed
      /\ setcolor(args) \subseteq Open \cup Closed
      /\ kill_cmd(args) \subseteq Open \cup Closed
      /\ consumer_cmd(args) \subseteq Open \cup Closed
      /\ producer_cmd(args) \subseteq Open \cup Closed
      /\ exec_malloc(args) \subseteq Open \cup Closed
      /\ {"getchar"} \subseteq Open \cup Closed
      /\ {"scanf"} \subseteq Open \cup Closed
      /\ {"prompt"} \subseteq Open \cup Closed
  BY DEF halt_system, setcolor, kill_cmd, consumer_cmd, producer_cmd,
         exec_malloc, Open, Closed
<1>2. Outcomes(func, args) \subseteq Open \cup Closed
  BY <1>1 DEF Outcomes
<1> QED BY <1>2

\* A buffer that holds nothing behind the line.
Holds(buffer) ==
  /\ buffer \in [Index -> Chars] /\ curr_pos \in 0 .. SHELL_BUFFER_SIZE - 2
  /\ \A i \in Index : i >= curr_pos => buffer[i] = 0

\* A new line starts in an empty buffer.
LEMMA PromptClean ==
  ASSUME NEW buffer, Holds(buffer), Prompt(buffer)
  PROVE  EditInv' /\ pc' = "prompt" /\ trial' = 0 /\ curr_pos' = 0
<1>1. /\ pc' = "prompt" /\ trial' = 0 /\ curr_pos' = 0
      /\ shell_buffer' = [i \in Index |-> IF i < curr_pos THEN 0 ELSE buffer[i]]
  BY DEF Prompt, clean_buffer
<1>2. \A i \in Index : (IF i < curr_pos THEN 0 ELSE buffer[i]) = 0
  BY DEF Holds, Index
<1>3. shell_buffer' = [i \in Index |-> 0]
  BY <1>1, <1>2
<1>4. \A i \in Index : i >= 0
  BY DEF Index
<1> QED BY <1>1, <1>3, <1>4, Sizes DEF EditInv, BufferClean, Chars

\* The line that the shell edits.
LEMMA AtPrompt ==
  ASSUME ShellInv, pc = "prompt"
  PROVE  /\ IsLine(shell_buffer, curr_pos) /\ Holds(shell_buffer)
         /\ unchar = NoChar /\ scan = NoScan
         /\ [shell_buffer EXCEPT ![curr_pos] = 0] = shell_buffer
<1>1. IsLine(shell_buffer, curr_pos) /\ Holds(shell_buffer)
  BY DEF ShellInv, EditInv, BufferClean, IsLine, Holds, Chars
<1>2. unchar = NoChar /\ scan = NoScan
  BY DEF ShellInv, TrialInv, PushbackStays
<1>3. curr_pos \in Index /\ shell_buffer \in [Index -> Chars]
      /\ shell_buffer[curr_pos] = 0
  <2>1. curr_pos \in Index /\ shell_buffer \in [Index -> Chars] /\ curr_pos >= curr_pos
    BY <1>1, LineSeq
  <2> QED BY <1>1, <2>1 DEF Holds
<1> QED BY <1>1, <1>2, <1>3

(***************************************************************************)
(* Enter: the line's command is invoked, and nothing but zeros is left     *)
(* behind the line.                                                        *)
(***************************************************************************)
LEMMA Executes ==
  ASSUME NEW b, IsLine(b, curr_pos), excecute_command(b)
  PROVE  /\ EditInv' /\ pc' \in Open \cup Closed /\ trial' \in 0 .. 1
         /\ pc' = "scanf" => trial' = 1
         /\ pc' = "prompt" => curr_pos' = 0
         /\ invoked' = CL!Invocation(Line(b, curr_pos))
<1> DEFINE cmd_no == parse_command(b)
           name == cmd_table[cmd_no].name
           cut == get_arguments(b, Len(name))
           args == [a \in DOMAIN cut.args |-> String(cut.buffer, cut.args[a])]
<1>1. Holds(b)
  BY DEF IsLine, Holds
<1>2. CASE cmd_no = 0
  <2>1. invoked' = None /\ Prompt(b)
    BY <1>2 DEF excecute_command
  <2>2. invoked' = CL!Invocation(Line(b, curr_pos))
    BY <1>2, <2>1, InvokesNone
  <2>3. EditInv' /\ pc' = "prompt" /\ trial' = 0 /\ curr_pos' = 0
    BY <1>1, <2>1, PromptClean
  <2> QED BY <2>2, <2>3 DEF Open
<1>3. CASE cmd_no # 0
  <2>1. /\ invoked' = [cmd |-> name, args |-> args]
        /\ \E next \in Outcomes(cmd_table[cmd_no].func, args) :
             IF next = "prompt" THEN Prompt(cut.buffer)
             ELSE /\ pc' = next
                  /\ trial' = IF next = "scanf" THEN 1 ELSE 0
                  /\ shell_buffer' = cut.buffer
                  /\ UNCHANGED curr_pos
    BY <1>3 DEF excecute_command
  <2>2. PICK next \in Outcomes(cmd_table[cmd_no].func, args) :
             IF next = "prompt" THEN Prompt(cut.buffer)
             ELSE /\ pc' = next
                  /\ trial' = IF next = "scanf" THEN 1 ELSE 0
                  /\ shell_buffer' = cut.buffer
                  /\ UNCHANGED curr_pos
    BY <2>1
  <2>3. next \in Open \cup Closed
    BY OutcomesKnown
  <2>4. /\ \E lead \in Nat : CutUpTo(b, curr_pos, Len(name), lead, curr_pos, cut)
        /\ CL!Invocation(Line(b, curr_pos)) = [cmd |-> name, args |-> args]
    BY <1>3, InvokesCommand
  <2>5. invoked' = CL!Invocation(Line(b, curr_pos))
    BY <2>1, <2>4
  <2>6. Holds(cut.buffer)
    <3> HIDE DEF cut, name
    <3>1. PICK lead \in Nat : CutUpTo(b, curr_pos, Len(name), lead, curr_pos, cut)
      BY <2>4
    <3>2. cut.buffer \in [Index -> Chars]
      BY <3>1 DEF CutUpTo, Cuts
    <3>3. ASSUME NEW i \in Index, i >= curr_pos PROVE cut.buffer[i] = 0
      <4>1. b[i] = 0
        BY <1>1, <3>3 DEF Holds
      <4>2. cut.buffer[i] =
              IF lead <= i /\ i < curr_pos /\ b[i] = SPACE THEN 0 ELSE b[i]
        BY <3>1 DEF CutUpTo
      <4> QED BY <4>1, <4>2
    <3> QED BY <1>1, <3>2, <3>3 DEF Holds
  <2> HIDE DEF cut, args, name
  <2>7. CASE next = "prompt"
    <3>1. EditInv' /\ pc' = "prompt" /\ trial' = 0 /\ curr_pos' = 0
      BY <2>2, <2>6, <2>7, PromptClean
    <3> QED BY <2>5, <3>1 DEF Open
  <2>8. CASE next # "prompt"
    <3>1. /\ pc' = next /\ trial' = IF next = "scanf" THEN 1 ELSE 0
          /\ shell_buffer' = cut.buffer /\ curr_pos' = curr_pos
      BY <2>2, <2>8
    <3>2. EditInv'
      BY <2>6, <2>8, <3>1 DEF Holds, EditInv, BufferClean, Chars
    <3> QED BY <2>3, <2>5, <2>8, <3>1, <3>2
  <2> QED BY <2>7, <2>8
<1> QED BY <1>2, <1>3

-----------------------------------------------------------------------------
\* The invariant holds when the shell starts.
LEMMA ShellStarts ==
  ASSUME Init
  PROVE  ShellInv
<1>1. /\ unchar = NoChar /\ scan = NoScan /\ curr_pos = 0 /\ pc = "prompt"
      /\ trial = 0 /\ shell_buffer = [i \in Index |-> 0]
  BY DEF Init
<1>2. ScanInv
  BY <1>1, Sizes DEF ScanInv, ScanTypeOK, NoScan
<1>3. TrialInv
  BY <1>1 DEF TrialInv, PushbackStays
<1>4. EditInv
  <2>1. \A i \in Index : i >= 0
    BY DEF Index
  <2> QED BY <1>1, <2>1, Sizes DEF EditInv, BufferClean
<1> QED BY <1>1, <1>2, <1>3, <1>4 DEF ShellInv, Open

\* What update_shell does to the characters read.
LEMMA PromptReads ==
  ASSUME ShellInv, pc = "prompt", unchar' = NoChar, UNCHANGED scan,
         pc' = "scanf" => trial' = 1
  PROVE  ScanInv' /\ TrialInv'
<1>1. scan = NoScan
  BY AtPrompt
<1>2. ScanInv'
  BY <1>1 DEF ShellInv, ScanInv, ScanTypeOK
<1>3. TrialInv'
  BY <1>1 DEF TrialInv, PushbackStays
<1> QED BY <1>2, <1>3

\* Erasing a character.
LEMMA BackspaceKeeps ==
  ASSUME ShellInv, pc = "prompt", update_shell_backspace
  PROVE  EditInv'
<1>1. CASE curr_pos > 0
  <2> DEFINE p == curr_pos - 1
  <2>1. /\ curr_pos' = p /\ shell_buffer' = [shell_buffer EXCEPT ![p] = 0]
        /\ pc' = pc
    BY <1>1 DEF update_shell_backspace
  <2>2. p \in 0 .. SHELL_BUFFER_SIZE - 2 /\ p \in Index /\ curr_pos \in Nat
    BY <1>1, Sizes DEF ShellInv, EditInv, Index
  <2>3. shell_buffer \in [Index -> {0} \cup InputChars]
        /\ \A i \in Index : shell_buffer[i] = 0 <=> i >= curr_pos
    BY DEF ShellInv, EditInv, BufferClean
  <2>4. \A i \in Index : i >= p <=> i = p \/ i >= curr_pos
    BY <2>2 DEF Index
  <2> HIDE DEF p
  <2>5. \A i \in Index : shell_buffer'[i] = 0 <=> i >= p
    BY <2>1, <2>2, <2>3, <2>4
  <2>6. shell_buffer' \in [Index -> {0} \cup InputChars]
    BY <2>1, <2>2, <2>3
  <2> QED BY <2>1, <2>2, <2>5, <2>6 DEF EditInv, BufferClean
<1>2. CASE ~ (curr_pos > 0)
  <2>1. UNCHANGED <<shell_buffer, curr_pos, pc>>
    BY <1>2 DEF update_shell_backspace
  <2> QED BY <2>1 DEF ShellInv, EditInv, BufferClean
<1> QED BY <1>1, <1>2

\* Adding a character.
LEMMA CharKeeps ==
  ASSUME ShellInv, pc = "prompt", NEW key, update_shell_char(key)
  PROVE  EditInv' /\ key \in InputChars
<1>1. key \in InputChars /\ key # 0
  <2>1. unchar = NoChar
    BY AtPrompt
  <2> QED BY <2>1 DEF update_shell_char, fgetc
<1>2. /\ curr_pos' = curr_pos + 1 /\ pc' = pc
      /\ shell_buffer' = [shell_buffer EXCEPT ![curr_pos] = key]
      /\ curr_pos < SHELL_BUFFER_SIZE - 2
  BY DEF update_shell_char
<1>3. curr_pos \in Nat /\ curr_pos \in Index
      /\ curr_pos + 1 \in 0 .. SHELL_BUFFER_SIZE - 2
  BY <1>2, Sizes DEF ShellInv, EditInv, Index
<1>4. shell_buffer \in [Index -> {0} \cup InputChars]
      /\ \A i \in Index : shell_buffer[i] = 0 <=> i >= curr_pos
  BY DEF ShellInv, EditInv, BufferClean
<1>5. \A i \in Index : i >= curr_pos + 1 <=> i >= curr_pos /\ i # curr_pos
  BY <1>3 DEF Index
<1>6. \A i \in Index : shell_buffer'[i] = 0 <=> i >= curr_pos + 1
  BY <1>1, <1>2, <1>3, <1>4, <1>5
<1>7. shell_buffer' \in [Index -> {0} \cup InputChars]
  BY <1>1, <1>2, <1>3, <1>4
<1> QED BY <1>1, <1>2, <1>3, <1>6, <1>7 DEF EditInv, BufferClean

\* What ends the shell leaves the line alone.
LEMMA EndKeeps ==
  ASSUME ShellInv, UNCHANGED <<shell_buffer, curr_pos>>, pc' # "prompt"
  PROVE  EditInv'
BY DEF ShellInv, EditInv, BufferClean

\* update_shell, for every key.
LEMMA UpdateKeeps ==
  ASSUME ShellInv, update_shell
  PROVE  ShellInv'
<1>1. pc = "prompt" /\ unchar' = NoChar /\ UNCHANGED scan
  BY DEF update_shell
<1>2. trial \in 0 .. 6
  BY DEF ShellInv
<1>3. CASE update_shell_null
  <2>1. pc' = "ended" /\ UNCHANGED <<shell_buffer, curr_pos, trial>>
    BY <1>3 DEF update_shell_null
  <2>2. ScanInv' /\ TrialInv' /\ EditInv'
    BY <1>1, <2>1, PromptReads, EndKeeps
  <2> QED BY <1>2, <2>1, <2>2 DEF ShellInv, Closed
<1>4. CASE update_shell_enter
  <2>1. IsLine(shell_buffer, curr_pos) /\ excecute_command(shell_buffer)
    BY <1>1, <1>4, AtPrompt DEF update_shell_enter
  <2>2. /\ EditInv' /\ pc' \in Open \cup Closed /\ trial' \in 0 .. 1
        /\ pc' = "scanf" => trial' = 1
    BY <2>1, Executes
  <2>3. ScanInv' /\ TrialInv'
    BY <1>1, <2>2, PromptReads
  <2> QED BY <2>2, <2>3 DEF ShellInv
<1>5. CASE update_shell_backspace
  <2>1. UNCHANGED <<pc, trial>>
    BY <1>5 DEF update_shell_backspace
  <2>2. EditInv'
    BY <1>1, <1>5, BackspaceKeeps
  <2>3. ScanInv' /\ TrialInv'
    BY <1>1, <2>1, PromptReads
  <2> QED BY <1>1, <1>2, <2>1, <2>2, <2>3 DEF ShellInv, Open
<1>6. ASSUME NEW key, update_shell_full(key) PROVE ShellInv'
  <2>1. pc' = "ended" /\ UNCHANGED <<shell_buffer, curr_pos, trial>>
    BY <1>6 DEF update_shell_full
  <2>2. ScanInv' /\ TrialInv' /\ EditInv'
    BY <1>1, <2>1, PromptReads, EndKeeps
  <2> QED BY <1>2, <2>1, <2>2 DEF ShellInv, Closed
<1>7. ASSUME NEW key, update_shell_char(key) PROVE ShellInv'
  <2>1. UNCHANGED <<pc, trial>>
    BY <1>7 DEF update_shell_char
  <2>2. EditInv'
    BY <1>1, <1>7, CharKeeps
  <2>3. ScanInv' /\ TrialInv'
    BY <1>1, <2>1, PromptReads
  <2> QED BY <1>1, <1>2, <2>1, <2>2, <2>3 DEF ShellInv, Open
<1> QED BY <1>3, <1>4, <1>5, <1>6, <1>7 DEF update_shell

\* The line is held in the buffer whatever the shell is doing.
LEMMA AlwaysHolds ==
  ASSUME ShellInv
  PROVE  Holds(shell_buffer)
BY DEF ShellInv, EditInv, Holds, Chars

\* getchar_cmd.
LEMMA GetcharKeeps ==
  ASSUME ShellInv, getchar_cmd
  PROVE  ShellInv' /\ pc' = "prompt" /\ curr_pos' = 0
<1>1. Prompt(shell_buffer) /\ unchar' = NoChar /\ UNCHANGED scan /\ pc = "getchar"
  BY DEF getchar_cmd
<1>2. EditInv' /\ pc' = "prompt" /\ trial' = 0 /\ curr_pos' = 0
  BY <1>1, AlwaysHolds, PromptClean
<1>3. scan = NoScan
  BY <1>1 DEF ShellInv, TrialInv
<1>4. ScanInv'
  BY <1>1 DEF ShellInv, ScanInv, ScanTypeOK
<1>5. TrialInv'
  BY <1>1, <1>2, <1>3 DEF TrialInv, PushbackStays
<1> QED BY <1>2, <1>4, <1>5 DEF ShellInv, Open

\* scanf_cmd between two conversions.
LEMMA CallKeeps ==
  ASSUME ShellInv, scanf_call
  PROVE  ShellInv' /\ (pc' = pc \/ (pc' = "prompt" /\ curr_pos' = 0))
<1>1. pc = "scanf" /\ scan = NoScan /\ unchar' = unchar
  BY DEF scanf_call
<1>2. trial \in 1 .. 6 /\ (unchar # NoChar => trial = 2)
  BY <1>1 DEF ShellInv, TrialInv, NoScan
<1>3. CASE trial \in DOMAIN Trials
  <2>1. /\ scan' = Begin(Trials[trial]) /\ trial' = trial + 1
        /\ UNCHANGED <<pc, shell_buffer, curr_pos>>
    BY <1>3 DEF scanf_call
  <2>2. trial \in 1 .. 5 /\ Trials[trial] \in {"d", "s", "c"}
    BY <1>3 DEF Trials
  <2>3. scan' = [fmt |-> Trials[trial], phase |-> "convert", idx |-> 0]
    BY <2>1 DEF Begin
  <2>4. ScanInv'
    BY <1>1, <2>2, <2>3, Sizes DEF ShellInv, ScanInv, ScanTypeOK, NoScan
  <2>5. TrialInv'
    <3>1. trial' \in 2 .. 6 /\ trial' - 1 = trial
      BY <2>1, <2>2
    <3>2. scan'.fmt = Trials[trial] /\ scan'.phase = "convert"
      BY <2>3
    <3>3. unchar' # NoChar => trial' = 3
      BY <1>1, <1>2, <2>1
    <3> QED BY <1>1, <2>1, <3>1, <3>2, <3>3 DEF TrialInv, PushbackStays
  <2>6. EditInv'
    BY <2>1 DEF ShellInv, EditInv, BufferClean
  <2> QED BY <1>1, <2>1, <2>2, <2>4, <2>5, <2>6 DEF ShellInv, Open
<1>4. CASE trial \notin DOMAIN Trials
  <2>1. Prompt(shell_buffer) /\ UNCHANGED scan
    BY <1>4 DEF scanf_call
  <2>2. EditInv' /\ pc' = "prompt" /\ trial' = 0 /\ curr_pos' = 0
    BY <2>1, AlwaysHolds, PromptClean
  <2>3. trial # 2
    BY <1>4 DEF Trials
  <2>4. ScanInv'
    BY <1>1, <2>1 DEF ShellInv, ScanInv, ScanTypeOK
  <2>5. TrialInv'
    BY <1>1, <1>2, <2>1, <2>2, <2>3 DEF TrialInv, PushbackStays
  <2> QED BY <2>2, <2>4, <2>5 DEF ShellInv, Open
<1> QED BY <1>3, <1>4

\* scanf_cmd in a conversion.
LEMMA ScanKeeps ==
  ASSUME ShellInv, scanf_char
  PROVE  ShellInv'
<1>1. pc = "scanf" /\ UNCHANGED <<shell_buffer, curr_pos, pc, trial, invoked>>
  BY DEF scanf_char
<1>2. PICK c \in InputChars \cup {unchar} : fgetc(c) /\ (read_fmt(c) \/ skip(c))
  BY DEF scanf_char
<1>3. ScanInv
  BY DEF ShellInv
<1>4. /\ ScanInv'
      /\ scan' # NoScan => scan'.fmt = scan.fmt
      /\ unchar' # NoChar => scan.fmt = "d"
  BY <1>2, <1>3, ReadStep
<1>5. scan # NoScan
  BY <1>2 DEF read_fmt, skip, NoScan
<1>6. trial \in 2 .. 6 /\ scan.fmt = Trials[trial - 1]
  BY <1>1, <1>5 DEF ShellInv, TrialInv
<1>7. scan.fmt = "d" => trial = 2
  BY <1>6 DEF Trials
<1>8. TrialInv'
  BY <1>1, <1>4, <1>6, <1>7 DEF TrialInv, PushbackStays
<1>9. EditInv'
  BY <1>1 DEF ShellInv, EditInv, BufferClean
<1> QED BY <1>1, <1>4, <1>8, <1>9 DEF ShellInv

\* The shell loses its stack.
LEMMA CrashKeeps ==
  ASSUME ShellInv, crash
  PROVE  ShellInv'
<1>1. /\ pc' = "crashed" /\ unchar = NoChar
      /\ UNCHANGED <<unchar, scan, shell_buffer, curr_pos, trial, invoked>>
  BY DEF crash, Smashed, console
<1>2. EditInv'
  BY <1>1, EndKeeps
<1>3. ScanInv'
  BY <1>1 DEF ShellInv, ScanInv, ScanTypeOK
<1>4. TrialInv'
  BY <1>1 DEF TrialInv, PushbackStays
<1> QED BY <1>1, <1>2, <1>3, <1>4 DEF ShellInv, Closed

\* Every step keeps the invariant.
LEMMA ShellKeeps ==
  ASSUME ShellInv, [Next]_vars
  PROVE  ShellInv'
<1>1. CASE UNCHANGED vars
  BY <1>1 DEF vars, console, ShellInv, ScanInv, ScanTypeOK, TrialInv,
     PushbackStays, EditInv, BufferClean
<1>2. CASE Next
  BY <1>2, UpdateKeeps, GetcharKeeps, CallKeeps, ScanKeeps, CrashKeeps DEF Next
<1> QED BY <1>1, <1>2

\* The shell is always as ShellInv says.
LEMMA ShellAlways == Spec => []ShellInv
<1>1. Init => ShellInv
  BY ShellStarts
<1>2. ShellInv /\ [Next]_vars => ShellInv'
  BY ShellKeeps
<1> QED BY <1>1, <1>2, PTL DEF Spec

-----------------------------------------------------------------------------
(***************************************************************************)
(* No string that scanf stores and no line overruns its buffer, whatever   *)
(* is typed (update_shell, read_str, read_base_10).                        *)
(***************************************************************************)
THEOREM ShellTypeCorrect == Spec => []TypeOK
<1>1. ShellInv => TypeOK
  <2>1. Len(Trials) + 1 = 6
    BY DEF Trials
  <2> QED BY <2>1 DEF ShellInv, ScanInv, EditInv, TypeOK
<1> QED BY <1>1, ShellAlways, PTL

(***************************************************************************)
(* At the prompt the buffer holds the line and nothing else: whatever      *)
(* command ran before and however get_arguments cut its line, clean_buffer *)
(* has removed it.                                                         *)
(***************************************************************************)
THEOREM BufferStaysClean == Spec => []BufferClean
<1>1. ShellInv => BufferClean
  BY DEF ShellInv, EditInv
<1> QED BY <1>1, ShellAlways, PTL

(***************************************************************************)
(* A character that scanf pushed back never reaches the shell's next line. *)
(***************************************************************************)
THEOREM PushbackIsRead == Spec => []PushbackStays
<1>1. ShellInv => PushbackStays
  BY DEF ShellInv, TrialInv
<1> QED BY <1>1, ShellAlways, PTL

-----------------------------------------------------------------------------
\* The line that the user sees.
UserLine == IF pc = "prompt"
              THEN [i \in 1 .. curr_pos |-> shell_buffer[i - 1]] ELSE <<>>

\* What CommandLine's variables stand for.
LEMMA CommandVars ==
  ASSUME UserLine' = UserLine, invoked' = invoked, pc \in Open <=> pc' \in Open
  PROVE  UNCHANGED CL!clvars
BY DEF UserLine, CL!clvars

\* A line that has no characters is empty.
LEMMA NoUserLine ==
  /\ pc # "prompt" \/ curr_pos = 0 => UserLine = <<>>
  /\ pc' # "prompt" \/ curr_pos' = 0 => UserLine' = <<>>
BY DEF UserLine

\* The shell ends without an invocation.
LEMMA Closes ==
  ASSUME pc \in Open, pc' \in Closed, invoked' = invoked
  PROVE  CL!Close
<1>1. UserLine' = <<>>
  BY NoUserLine DEF Closed
<1> QED BY <1>1 DEF UserLine, CL!Close, Open, Closed

\* Backspace erases the last character.
LEMMA Erases ==
  ASSUME ShellInv, pc = "prompt", update_shell_backspace
  PROVE  [CL!CLNext]_(CL!clvars)
<1>1. IsLine(shell_buffer, curr_pos)
  BY AtPrompt
<1>2. curr_pos \in Nat /\ Line(shell_buffer, curr_pos) \in Seq(Chars)
      /\ Len(Line(shell_buffer, curr_pos)) = curr_pos
      /\ shell_buffer \in [Index -> Chars] /\ 0 .. curr_pos \subseteq Index
  BY <1>1, LineSeq
<1>3. pc' = pc /\ invoked' = invoked
  BY DEF update_shell_backspace
<1>4. CASE curr_pos > 0
  <2>1. /\ curr_pos' = curr_pos - 1
        /\ shell_buffer' = [shell_buffer EXCEPT ![curr_pos - 1] = 0]
    BY <1>4 DEF update_shell_backspace
  <2>2. UserLine = Line(shell_buffer, curr_pos)
    BY DEF UserLine, Line
  <2>3. UserLine' = [i \in 1 .. curr_pos - 1 |-> shell_buffer[i - 1]]
    <3>1. UserLine' = [i \in 1 .. curr_pos' |-> shell_buffer'[i - 1]]
      BY <1>3 DEF UserLine
    <3>2. ASSUME NEW i \in 1 .. curr_pos - 1
          PROVE  shell_buffer'[i - 1] = shell_buffer[i - 1]
      <4>1. i - 1 \in 0 .. curr_pos /\ i - 1 # curr_pos - 1
        BY <1>2
      <4> QED BY <1>2, <2>1, <4>1
    <3> QED BY <2>1, <3>1, <3>2
  <2>4. SubSeq(UserLine, 1, curr_pos - 1) =
          [i \in 1 .. curr_pos - 1 |-> shell_buffer[i - 1]]
    <3>1. \A i \in 1 .. curr_pos - 1 : UserLine[i] = shell_buffer[i - 1]
      BY <1>2, <2>2, <1>1, LineSeq
    <3>2. SubSeq(UserLine, 1, curr_pos - 1) =
            [i \in 1 .. curr_pos - 1 |-> UserLine[i]]
      BY <1>2, <1>4, <2>2
    <3> QED BY <3>1, <3>2
  <2>5. UserLine # <<>> /\ Len(UserLine) = curr_pos
    BY <1>2, <1>4, <2>2
  <2>6. UserLine' = SubSeq(UserLine, 1, Len(UserLine) - 1)
    BY <2>3, <2>4, <2>5
  <2>7. CL!Erase
    BY <1>3, <2>5, <2>6 DEF CL!Erase, UserLine, Open
  <2> QED BY <2>7 DEF CL!CLNext
<1>5. CASE ~ (curr_pos > 0)
  <2>1. UNCHANGED <<shell_buffer, curr_pos>>
    BY <1>5 DEF update_shell_backspace
  <2>2. UNCHANGED CL!clvars
    BY <1>3, <2>1, CommandVars DEF UserLine
  <2> QED BY <2>2
<1> QED BY <1>4, <1>5

\* A character is added to the line's end.
LEMMA Types ==
  ASSUME ShellInv, pc = "prompt", NEW key, update_shell_char(key)
  PROVE  CL!CLNext
<1>1. IsLine(shell_buffer, curr_pos)
  BY AtPrompt
<1>2. /\ curr_pos \in Nat /\ Line(shell_buffer, curr_pos) \in Seq(Chars)
      /\ Len(Line(shell_buffer, curr_pos)) = curr_pos
      /\ shell_buffer \in [Index -> Chars] /\ 0 .. curr_pos \subseteq Index
      /\ \A i \in 1 .. curr_pos : Line(shell_buffer, curr_pos)[i] = shell_buffer[i - 1]
  BY <1>1, LineSeq
<1>3. key \in InputChars \ {0, ENTER, BACKSPACE}
  BY CharKeeps DEF update_shell_char
<1>4. /\ curr_pos' = curr_pos + 1 /\ pc' = pc /\ invoked' = None
      /\ shell_buffer' = [shell_buffer EXCEPT ![curr_pos] = key]
      /\ curr_pos < SHELL_BUFFER_SIZE - 2
  BY DEF update_shell_char
<1>5. UserLine = Line(shell_buffer, curr_pos)
  BY DEF UserLine, Line
<1>6. UserLine' = Append(UserLine, key)
  <2>1. UserLine' = [i \in 1 .. curr_pos + 1 |-> shell_buffer'[i - 1]]
    BY <1>4 DEF UserLine
  <2>2. Append(UserLine, key) =
          [i \in 1 .. curr_pos + 1 |-> IF i = curr_pos + 1 THEN key ELSE UserLine[i]]
    <3> DEFINE u == Append(UserLine, key)
    <3>1. UserLine \in Seq(Chars) /\ Len(UserLine) = curr_pos /\ key \in Chars
      BY <1>2, <1>3, <1>5 DEF Chars
    <3>2. /\ u \in Seq(Chars) /\ Len(u) = curr_pos + 1 /\ u[curr_pos + 1] = key
          /\ \A i \in 1 .. curr_pos : u[i] = UserLine[i]
      BY <3>1, AppendProperties
    <3> HIDE DEF u
    <3>3. DOMAIN u = 1 .. curr_pos + 1 /\ u = [i \in DOMAIN u |-> u[i]]
      BY <1>2, <3>2
    <3>4. \A i \in 1 .. curr_pos + 1 :
            u[i] = IF i = curr_pos + 1 THEN key ELSE UserLine[i]
      BY <1>2, <3>2
    <3>5. u = [i \in 1 .. curr_pos + 1 |-> IF i = curr_pos + 1 THEN key ELSE UserLine[i]]
      BY <3>3, <3>4
    <3> QED BY <3>5 DEF u
  <2>3. ASSUME NEW i \in 1 .. curr_pos + 1
        PROVE  shell_buffer'[i - 1] = IF i = curr_pos + 1 THEN key ELSE UserLine[i]
    <3>1. i - 1 \in 0 .. curr_pos /\ (i - 1 = curr_pos <=> i = curr_pos + 1)
      BY <1>2
    <3>2. shell_buffer'[i - 1] = IF i - 1 = curr_pos THEN key ELSE shell_buffer[i - 1]
      BY <1>2, <1>4, <3>1
    <3>3. i # curr_pos + 1 => UserLine[i] = shell_buffer[i - 1]
      BY <1>2, <1>5
    <3> QED BY <3>1, <3>2, <3>3
  <2> QED BY <2>1, <2>2, <2>3
<1>7. Len(UserLine) < SHELL_BUFFER_SIZE - 2
  BY <1>2, <1>4, <1>5
<1>8. CL!Type(key)
  BY <1>4, <1>6, <1>7 DEF CL!Type, CL!None, None, UserLine, Open
<1> QED BY <1>3, <1>8 DEF CL!CLNext

\* Enter submits the line.
LEMMA Submits ==
  ASSUME ShellInv, pc = "prompt", update_shell_enter
  PROVE  CL!Submit
<1>1. IsLine(shell_buffer, curr_pos) /\ excecute_command(shell_buffer)
  BY AtPrompt DEF update_shell_enter
<1>2. /\ pc' = "prompt" => curr_pos' = 0
      /\ invoked' = CL!Invocation(Line(shell_buffer, curr_pos))
  BY <1>1, Executes
<1>3. UserLine = Line(shell_buffer, curr_pos)
  BY DEF UserLine, Line
<1>4. UserLine' = <<>>
  BY <1>2, NoUserLine
<1>5. invoked' = CL!Invocation(UserLine)
  BY <1>2, <1>3
<1> QED BY <1>4, <1>5 DEF CL!Submit, UserLine, Open

\* Every step of the shell is a step of the command line, or leaves it alone.
LEMMA StepImplements ==
  ASSUME ShellInv, [Next]_vars
  PROVE  [CL!CLNext]_(CL!clvars)
<1>1. CASE UNCHANGED vars
  BY <1>1, CommandVars DEF vars, UserLine
<1>2. CASE update_shell
  <2>1. pc = "prompt" /\ pc \in Open
    BY <1>2 DEF update_shell, Open
  <2>2. CASE update_shell_null
    BY <2>1, <2>2, Closes DEF update_shell_null, Closed, CL!CLNext
  <2>3. CASE update_shell_enter
    BY <2>1, <2>3, Submits DEF CL!CLNext
  <2>4. CASE update_shell_backspace
    BY <2>1, <2>4, Erases
  <2>5. ASSUME NEW key, update_shell_full(key) PROVE CL!CLNext
    BY <2>1, <2>5, Closes DEF update_shell_full, Closed, CL!CLNext
  <2>6. ASSUME NEW key, update_shell_char(key) PROVE CL!CLNext
    BY <2>1, <2>6, Types
  <2> QED BY <1>2, <2>2, <2>3, <2>4, <2>5, <2>6 DEF update_shell
<1>3. CASE getchar_cmd
  <2>1. pc = "getchar" /\ pc' = "prompt" /\ curr_pos' = 0 /\ invoked' = invoked
    BY <1>3, GetcharKeeps DEF getchar_cmd
  <2>2. UserLine' = UserLine
    BY <2>1, NoUserLine
  <2> QED BY <2>1, <2>2, CommandVars DEF Open
<1>4. CASE scanf_call
  <2>1. pc = "scanf" /\ invoked' = invoked
        /\ (pc' = pc \/ (pc' = "prompt" /\ curr_pos' = 0))
    BY <1>4, CallKeeps DEF scanf_call
  <2>2. UserLine' = UserLine
    BY <2>1, NoUserLine
  <2> QED BY <2>1, <2>2, CommandVars DEF Open
<1>5. CASE scanf_char
  <2>1. pc = "scanf" /\ UNCHANGED <<shell_buffer, curr_pos, pc, invoked>>
    BY <1>5 DEF scanf_char
  <2>2. UserLine' = UserLine
    BY <2>1, NoUserLine
  <2> QED BY <2>1, <2>2, CommandVars
<1>6. CASE crash
  <2>1. pc \in Open /\ pc' \in Closed /\ invoked' = invoked
    BY <1>6 DEF crash, Closed
  <2> QED BY <2>1, Closes DEF CL!CLNext
<1> QED BY <1>1, <1>2, <1>3, <1>4, <1>5, <1>6 DEF Next

\* The shell starts with an empty line.
LEMMA StartImplements ==
  ASSUME Init
  PROVE  CL!CLInit
<1>1. pc = "prompt" /\ curr_pos = 0 /\ invoked = None
  BY DEF Init
<1>2. UserLine = <<>>
  BY <1>1, NoUserLine
<1> QED BY <1>1, <1>2 DEF CL!CLInit, CL!None, None, UserLine, Open

(***************************************************************************)
(* The shell implements the command line that it promises: whatever is     *)
(* typed, erased and entered, the command that runs is the one that the    *)
(* line's first word names, and its arguments are the other words, for     *)
(* every table of names of which none starts another (update_shell,        *)
(* parse_command, get_arguments, excecute_command).                        *)
(***************************************************************************)
THEOREM ShellImplements == Spec => ImplementsCommandLine
<1>1. Init => CL!CLInit
  BY StartImplements
<1>2. ShellInv /\ [Next]_vars => [CL!CLNext]_(CL!clvars)
  BY StepImplements
<1> QED BY <1>1, <1>2, ShellAlways, PTL
        DEF Spec, ImplementsCommandLine, CL!CLSpec

=============================================================================
