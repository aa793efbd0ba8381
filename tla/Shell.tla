-------------------------------- MODULE Shell --------------------------------
(***************************************************************************)
(* The shell (Userland/shell/shell.c, and of command.c what its commands   *)
(* do to it): it edits a line in shell_buffer, finds the command that the  *)
(* line names, cuts the rest into arguments in place and runs the command, *)
(* which may itself read from the keyboard or end the shell.               *)
(*                                                                         *)
(* The commands' effects on the clock, the heap, pipes and processes are   *)
(* those of the system calls in Clock, Uheap, Pipe and Sched.              *)
(***************************************************************************)
EXTENDS Console, FiniteSetsExt

CONSTANTS
  SHELL_BUFFER_SIZE, \* characters of shell_buffer
  MAX_ARGS,          \* entries of args in excecute_command
  cmd_table,         \* the commands: [name, func], in the table's order
  INT_MAX,           \* the largest int
  Self               \* the pid of the shell

Index == 0 .. SHELL_BUFFER_SIZE - 1
Names == {cmd_table[i].name : i \in DOMAIN cmd_table}

(***************************************************************************)
(* No name has a space in it or is the start of another, and a full line   *)
(* has no room for MAX_ARGS words behind the shortest name: this holds of  *)
(* the 23 names of initialize_cmd_table, with 128 characters and 64        *)
(* arguments.                                                              *)
(***************************************************************************)
ASSUME ShellAssumption ==
  /\ {MAX_ARGS, INT_MAX, Self} \subseteq Nat /\ SHELL_BUFFER_SIZE \in Nat \ {0, 1}
  /\ cmd_table \in Seq([name : Seq(Nat \ {0, SPACE}), func : STRING])
  /\ \A i \in DOMAIN cmd_table :
       Len(cmd_table[i].name) \in 1 .. SHELL_BUFFER_SIZE - 1
  /\ \A i, j \in DOMAIN cmd_table :
       IsPrefix(cmd_table[i].name, cmd_table[j].name) => i = j
  /\ \A name \in Names : Len(name) + 2 * MAX_ARGS > SHELL_BUFFER_SIZE - 2

VARIABLES
  shell_buffer, \* the line, with zeros behind it
  curr_pos,     \* its length
  pc,           \* what the shell is doing: see Open and Closed
  trial,        \* the next of the scanf calls of scanf_cmd
  invoked       \* history: what the last line invoked, until the next line

vars == <<console, shell_buffer, curr_pos, pc, trial, invoked>>

Open   == {"prompt", "getchar", "scanf"}
Closed == {"ended", "halted", "crashed"}

None == [cmd |-> <<>>, args |-> <<>>]

Init ==
  /\ unchar = NoChar /\ scan = NoScan
  /\ shell_buffer = [i \in Index |-> 0]
  /\ curr_pos = 0
  /\ pc = "prompt" /\ trial = 0
  /\ invoked = None

-----------------------------------------------------------------------------
\* substr: s1 is the start of the string in buffer.
substr(s1, buffer) == \A i \in DOMAIN s1 : s1[i] = buffer[i - 1]

\* Fault: what follows the name is not looked at.
parse_command_prefix(buffer) ==
  LET found == {i \in DOMAIN cmd_table : substr(cmd_table[i].name, buffer)}
  IN  IF found = {} THEN 0 ELSE Min(found)

(***************************************************************************)
(* The number of the command that the buffer starts with, 0 for none.  The *)
(* code then still looks up the length of a name in front of the table.    *)
(* The link map of the shell has padding there: the name is a null pointer *)
(* and strlen reads from address 0, which vmm_initialize has mapped.  The  *)
(* answer is -1 whatever it finds.                                         *)
(***************************************************************************)
parse_command(buffer) ==
  LET found  == {i \in DOMAIN cmd_table : substr(cmd_table[i].name, buffer)}
      cmd_no == IF found = {} THEN 0 ELSE Min(found)
  IN  IF cmd_no # 0 /\ buffer[Len(cmd_table[cmd_no].name)] \in {SPACE, 0}
        THEN cmd_no ELSE 0

\* One turn of the loop of get_arguments, at index i: s is the buffer, whether
\* ptr is set, and args before it.
cut_at(buffer, i, s) ==
  CASE Len(s.args) = MAX_ARGS -> s
    [] Len(s.args) # MAX_ARGS /\ buffer[i] = SPACE ->
         [s EXCEPT !.buffer[i] = 0, !.ptr = FALSE]
    [] OTHER ->
         [s EXCEPT !.ptr = TRUE, !.args = IF s.ptr THEN @ ELSE Append(@, i)]

(***************************************************************************)
(* The words of the string at from: the spaces behind them become zeros,   *)
(* and args points at their first characters.                              *)
(***************************************************************************)
get_arguments(buffer, from) ==
  LET lead == Min({i \in Index : i >= from /\ buffer[i] # SPACE})
      end  == Min({i \in Index : i >= lead /\ buffer[i] = 0})
      loop[i \in lead .. end] ==
        IF i = lead THEN [buffer |-> buffer, ptr |-> FALSE, args |-> <<>>]
        ELSE cut_at(buffer, i - 1, loop[i - 1])
  IN  loop[end]

\* The string that starts at index p of the buffer.
String(buffer, p) ==
  LET end == Min({i \in Index : i >= p /\ buffer[i] = 0})
  IN  [i \in 1 .. end - p |-> buffer[p + i - 1]]

-----------------------------------------------------------------------------
\* The int with the low bits of n.
AsInt(n) == ((n + INT_MAX + 1) % (2 * INT_MAX + 2)) - INT_MAX - 1

\* The value of the digits as an int: atoi computes with ints, and the callers
\* of s_to_i cut the 64 bits of its answer down to one.
Number(digits) == FoldLeft(LAMBDA n, c : AsInt(n * 10 + c - 48), 0, digits)

\* The number that a string starts with, and the number that it is or -1.
atoi(str) ==
  LET stop == {i \in DOMAIN str : ~ IsDigit(str[i])}
  IN  Number(SubSeq(str, 1, IF stop = {} THEN Len(str) ELSE Min(stop) - 1))
s_to_i(str) ==
  IF Len(str) \in 1 .. 19 /\ \A i \in DOMAIN str : IsDigit(str[i])
    THEN Number(str) ELSE -1

(***************************************************************************)
(* What may become of the shell when a command has run, by its arguments.  *)
(* Entries of args past argc were never written: where one is used, its    *)
(* value may be anything and reading through it may fail.                  *)
(***************************************************************************)
halt_system(args) == {"halted"}

setcolor(args) ==
  CASE Len(args) = 0 -> {"prompt", "ended", "crashed"}
    [] Len(args) = 2 -> {"prompt"}
    [] OTHER -> IF atoi(args[1]) = 42 THEN {"ended"} ELSE {"prompt"}

kill_cmd(args) ==
  IF Len(args) = 1 /\ atoi(args[1]) = Self THEN {"ended"} ELSE {"prompt"}

consumer_cmd(args) ==
  CASE Len(args) = 0 -> {"prompt", "crashed"}
    [] Len(args) = 2 /\ s_to_i(args[1]) >= 1 -> {"prompt", "ended", "crashed"}
    [] OTHER -> {"prompt"}

producer_cmd(args) ==
  CASE Len(args) < 2 -> {"prompt", "crashed"}
    [] Len(args) = 2 /\ s_to_i(args[1]) >= 1 /\ s_to_i(args[2]) >= 1 -> {"ended"}
    [] OTHER -> {"prompt"}

exec_malloc(args) ==
  IF Len(args) = 0 THEN {"prompt", "crashed"} ELSE {"prompt"}

\* The commands that are not named here print, and return.
Outcomes(func, args) ==
  CASE func = "getchar_cmd"  -> {"getchar"}
    [] func = "scanf_cmd"    -> {"scanf"}
    [] func = "halt_system"  -> halt_system(args)
    [] func = "setcolor"     -> setcolor(args)
    [] func = "kill_cmd"     -> kill_cmd(args)
    [] func = "consumer_cmd" -> consumer_cmd(args)
    [] func = "producer_cmd" -> producer_cmd(args)
    [] func = "exec_malloc"  -> exec_malloc(args)
    [] OTHER -> {"prompt"}

\* Fault: the line's length is reset, its characters stay.
clean_buffer_length(buffer) ==
  /\ shell_buffer' = buffer
  /\ curr_pos' = 0

\* clean_buffer.
clean_buffer(buffer) ==
  /\ shell_buffer' = [i \in Index |-> IF i < curr_pos THEN 0 ELSE buffer[i]]
  /\ curr_pos' = 0

\* The shell starts a new line.
Prompt(buffer) ==
  /\ pc' = "prompt" /\ trial' = 0
  /\ clean_buffer(buffer)

\* excecute_command and what update_shell makes of its result.
excecute_command(buffer) ==
  LET cmd_no == parse_command(buffer)
      cmd    == cmd_table[cmd_no]
      cut    == get_arguments(buffer, Len(cmd.name))
      args   == [a \in DOMAIN cut.args |-> String(cut.buffer, cut.args[a])]
  IN  \/ /\ cmd_no = 0
         /\ invoked' = None
         /\ Prompt(buffer)
      \/ /\ cmd_no # 0
         /\ invoked' = [cmd |-> cmd.name, args |-> args]
         /\ \E next \in Outcomes(cmd.func, args) :
              IF next = "prompt" THEN Prompt(cut.buffer)
              ELSE /\ pc' = next
                   /\ trial' = IF next = "scanf" THEN 1 ELSE 0
                   /\ shell_buffer' = cut.buffer
                   /\ UNCHANGED curr_pos

-----------------------------------------------------------------------------
\* update_shell, by the character that getc returns.
update_shell_null ==
  /\ fgetc(0)
  /\ pc' = "ended"
  /\ UNCHANGED <<shell_buffer, curr_pos, trial, invoked>>

update_shell_enter ==
  /\ fgetc(ENTER)
  /\ excecute_command([shell_buffer EXCEPT ![curr_pos] = 0])

update_shell_backspace ==
  /\ fgetc(BACKSPACE)
  /\ IF curr_pos > 0
       THEN /\ curr_pos' = curr_pos - 1
            /\ shell_buffer' = [shell_buffer EXCEPT ![curr_pos - 1] = 0]
       ELSE UNCHANGED <<shell_buffer, curr_pos>> \* beep
  /\ UNCHANGED <<pc, trial, invoked>>

\* A line that is full: the shell beeps, and returns 0 to main.
update_shell_full(key) ==
  /\ fgetc(key) /\ key \notin {0, ENTER, BACKSPACE}
  /\ curr_pos >= SHELL_BUFFER_SIZE - 2
  /\ pc' = "ended"
  /\ UNCHANGED <<shell_buffer, curr_pos, trial, invoked>>

update_shell_char(key) ==
  /\ fgetc(key) /\ key \notin {0, ENTER, BACKSPACE}
  /\ curr_pos < SHELL_BUFFER_SIZE - 2
  /\ shell_buffer' = [shell_buffer EXCEPT ![curr_pos] = key]
  /\ curr_pos' = curr_pos + 1
  /\ invoked' = None
  /\ UNCHANGED <<pc, trial>>

update_shell ==
  /\ pc = "prompt"
  /\ \/ update_shell_null
     \/ update_shell_enter
     \/ update_shell_backspace
     \/ \E key \in InputChars \cup {unchar} :
          update_shell_full(key) \/ update_shell_char(key)
  /\ unchar' = NoChar
  /\ UNCHANGED scan

getchar_cmd ==
  /\ pc = "getchar"
  /\ \E c \in InputChars \cup {unchar} : fgetc(c)
  /\ unchar' = NoChar
  /\ Prompt(shell_buffer)
  /\ UNCHANGED <<scan, invoked>>

\* The conversions that scanf_cmd asks for.
Trials == <<"d", "s", "c", "s", "s">>

\* scanf_cmd calls scanf once more, or returns.
scanf_call ==
  /\ pc = "scanf" /\ scan = NoScan
  /\ IF trial \in DOMAIN Trials
       THEN /\ scan' = Begin(Trials[trial])
            /\ trial' = trial + 1
            /\ UNCHANGED <<pc, shell_buffer, curr_pos>>
       ELSE Prompt(shell_buffer) /\ UNCHANGED scan
  /\ UNCHANGED <<unchar, invoked>>

scanf_char ==
  /\ pc = "scanf"
  /\ \E c \in InputChars \cup {unchar} : fgetc(c) /\ (read_fmt(c) \/ skip(c))
  /\ UNCHANGED <<shell_buffer, curr_pos, pc, trial, invoked>>

\* A read of several keys has overwritten the stack of the shell.
crash ==
  /\ pc \in Open /\ (pc = "scanf" => scan # NoScan)
  /\ Smashed
  /\ pc' = "crashed"
  /\ UNCHANGED <<console, shell_buffer, curr_pos, trial, invoked>>

Next == update_shell \/ getchar_cmd \/ scanf_call \/ scanf_char \/ crash

Spec == Init /\ [][Next]_vars

-----------------------------------------------------------------------------
TypeOK ==
  /\ ScanTypeOK
  /\ shell_buffer \in [Index -> {0} \cup InputChars]
  /\ curr_pos \in 0 .. SHELL_BUFFER_SIZE - 2
  /\ pc \in Open \cup Closed
  /\ trial \in 0 .. Len(Trials) + 1

(***************************************************************************)
(* Between two characters at the prompt the buffer holds the line and      *)
(* nothing else: no erased character, no argument of an earlier command    *)
(* and no zero that get_arguments cut it with is left in it (update_shell, *)
(* clean_buffer).                                                          *)
(***************************************************************************)
BufferClean ==
  pc = "prompt" => \A i \in Index : shell_buffer[i] = 0 <=> i >= curr_pos

(***************************************************************************)
(* A character that scanf pushed back is read again by scanf: it never     *)
(* turns up in the shell's next line, however the conversions of scanf_cmd *)
(* end (fungetc, read_base_10, vfscanf).                                   *)
(***************************************************************************)
PushbackStays == pc # "scanf" => unchar = NoChar

(***************************************************************************)
(* The shell edits lines and invokes commands as it promises: whatever is  *)
(* typed, erased and entered in whatever order, the command that runs is   *)
(* the one that the line's first word names, and it gets the other words   *)
(* as its arguments, although parse_command only compares a prefix and     *)
(* get_arguments cuts the line in place (update_shell, excecute_command).  *)
(***************************************************************************)
CL == INSTANCE CommandLine WITH
        Char <- InputChars \ {0, ENTER, BACKSPACE}, Space <- SPACE,
        Limit <- SHELL_BUFFER_SIZE - 2,
        line <- IF pc = "prompt"
                  THEN [i \in 1 .. curr_pos |-> shell_buffer[i - 1]] ELSE <<>>,
        open <- pc \in Open

ImplementsCommandLine == CL!CLSpec

=============================================================================
