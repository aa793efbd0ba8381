------------------------------ MODULE MCShell ------------------------------
(***************************************************************************)
(* The shell with keys a, 2, 4, space, Enter, backspace, TAB and F10, and  *)
(* names of one or two of the characters a, A, 2, @, 4, $.                 *)
(***************************************************************************)
EXTENDS Shell

MCKeys == {97, 50, 52, 32, 10, 8, 16384, 4618}

MCTable ==
  << [name |-> <<97>>,      func |-> "echo"],
     [name |-> <<65>>,      func |-> "getchar_cmd"],
     [name |-> <<36>>,      func |-> "scanf_cmd"],
     [name |-> <<64>>,      func |-> "producer_cmd"],
     [name |-> <<52, 97>>,  func |-> "consumer_cmd"],
     [name |-> <<52, 65>>,  func |-> "setcolor"],
     [name |-> <<50, 97>>,  func |-> "kill_cmd"],
     [name |-> <<50, 65>>,  func |-> "halt_system"],
     [name |-> <<50, 36>>,  func |-> "exec_malloc"] >>

=============================================================================
