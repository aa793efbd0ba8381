---------------------------- MODULE CommandLine ----------------------------
(***************************************************************************)
(* What the shell promises its user: a line that characters are added to   *)
(* and erased from at its end, and that Enter turns into the invocation of *)
(* the command it names, with the words behind the name as its arguments.  *)
(***************************************************************************)
EXTENDS Naturals, Sequences, FiniteSets

CONSTANTS Char, Names, Space, Limit

VARIABLES
  line,    \* the characters of the line
  invoked, \* what the last line invoked, until the next line is begun
  open     \* whether the shell runs

clvars == <<line, invoked, open>>

Blank(s, i) == i \notin DOMAIN s \/ s[i] = Space

\* Where the words of s, its longest runs without a space, begin.
Starts(s) == {i \in DOMAIN s : ~ Blank(s, i) /\ Blank(s, i - 1)}

\* The word that begins at i.
WordAt(s, i) ==
  SubSeq(s, i, CHOOSE j \in i .. Len(s) :
                 Blank(s, j + 1) /\ \A k \in i .. j : ~ Blank(s, k))

\* The words of s, from left to right: the w-th begins where w words have begun.
Words(s) ==
  [w \in 1 .. Cardinality(Starts(s)) |->
     WordAt(s, CHOOSE i \in Starts(s) :
                 Cardinality({j \in Starts(s) : j <= i}) = w)]

None == [cmd |-> <<>>, args |-> <<>>]

\* A line invokes a command if it starts with its name as a whole word.
Invocation(s) ==
  IF s = <<>> \/ Blank(s, 1) \/ Words(s)[1] \notin Names
    THEN None
    ELSE [cmd |-> Words(s)[1], args |-> Tail(Words(s))]

CLInit == line = <<>> /\ invoked = None /\ open = TRUE

Type(c) ==
  /\ open /\ Len(line) < Limit
  /\ line' = Append(line, c)
  /\ invoked' = None
  /\ UNCHANGED open

Erase ==
  /\ open /\ line # <<>>
  /\ line' = SubSeq(line, 1, Len(line) - 1)
  /\ UNCHANGED <<invoked, open>>

\* The command may end the shell.
Submit ==
  /\ open
  /\ invoked' = Invocation(line)
  /\ line' = <<>>
  /\ open' \in BOOLEAN

Close ==
  /\ open /\ open' = FALSE
  /\ line' = <<>>
  /\ UNCHANGED invoked

CLNext == (\E c \in Char : Type(c)) \/ Erase \/ Submit \/ Close

CLSpec == CLInit /\ [][CLNext]_clvars

=============================================================================
