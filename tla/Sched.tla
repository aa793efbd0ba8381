-------------------------------- MODULE Sched --------------------------------
(***************************************************************************)
(* The process scheduler of the kernel: the process table and its run      *)
(* ring (Kernel/sched.c), the stack switch that every interrupt and every  *)
(* int 80h performs (Kernel/asm/interrupts.asm, Kernel/asm/sys.asm), the   *)
(* boot-time start of the user modules (Kernel/kernel.c) and the process   *)
(* syscalls (Kernel/syscall/proc.c).                                       *)
(*                                                                         *)
(* The kernel boots with interrupts off (Kernel/loader.asm) and every      *)
(* handler runs between cli and sti; iretq, so boot steps and handlers are *)
(* atomic.  The concurrency is the interleaving of handlers with the       *)
(* processes they interrupt: a process is preempted between any two of its *)
(* instructions, and every kernel entry, syscalls included, passes the CPU *)
(* to the next process of the ring.                                        *)
(*                                                                         *)
(* A stack pointer is abstracted to what it leads to: a saved frame for    *)
(* the user stacks, the owner of the page for the kernel stacks.           *)
(***************************************************************************)
EXTENDS Naturals

CONSTANTS
  SCHED_MAX_PROC, \* number of slots of processes[]
  Modules,        \* bound: how many modules main() starts at most
  NULL,           \* the null pointer
  Idle            \* idle_process, which is not in processes[]

Slots    == 0 .. SCHED_MAX_PROC - 1
Contexts == Slots \cup {Idle}

VARIABLES
  mode,         \* "boot" in main(), "user" after the drop, "halted" at the end
  active,       \* the running process, NULL when only idle is left
  next,         \* processes[s].next
  pid,          \* processes[s].pid
  defunct,      \* slots that _sched_terminate_process has been called on
  stack,        \* the frame that the saved stack pointer of a context leads to
  kernel_stack, \* whose kernel stack page the kernel_stack field points into
  proc_idx,     \* slots handed out by _sched_alloc_process
  max_pid,      \* last pid handed out
  cpu           \* the frame loaded in the CPU registers, NULL before the drop

vars == <<mode, active, next, pid, defunct, stack, kernel_stack, proc_idx,
          max_pid, cpu>>

table == <<pid, proc_idx, max_pid>>

(***************************************************************************)
(* A frame: whose execution it resumes, the last syscall of that context,  *)
(* and the rax slot that SET_SYSCALL_RET overwrites with the answer.       *)
(* Failure is the return value -1.                                         *)
(***************************************************************************)
Failure == NULL
Calls   == {"none", "other", "getpid", "kill", "exit"}
Results == Nat \cup {Failure}
Frames  == [owner : Contexts, call : Calls, rax : Results]

ASSUME SchedAssumption ==
  /\ SCHED_MAX_PROC \in Nat \ {0}
  /\ Modules \in 1 .. SCHED_MAX_PROC
  /\ Idle \notin Slots
  /\ NULL \notin Contexts /\ NULL \notin Nat /\ NULL \notin Frames

\* What _sched_init_stack pushes: INITPROC leaves 1 in the rax slot.
NewFrame(c) == [owner |-> c, call |-> "none", rax |-> 1]

\* The context whose fields the stack switches use.
Current == IF active = NULL THEN Idle ELSE active
Live    == {s \in Slots : s < proc_idx /\ s \notin defunct}

(***************************************************************************)
(* The slots that a walk p = p->next starting at process a visits: the     *)
(* least set that contains a and is closed under the next pointers nx.     *)
(***************************************************************************)
Walk(a, nx) ==
  {s \in Slots :
     \A S \in SUBSET Slots :
       (a \in S /\ \A q \in S : nx[q] \in S \cup {NULL}) => s \in S}

\* The process of the walk that points at s.
Prev(a, nx, s) == CHOOSE q \in Walk(a, nx) : nx[q] = s

-----------------------------------------------------------------------------
\* .bss is zero; sched_init has prepared the idle process.
Init ==
  /\ mode = "boot"
  /\ active = NULL
  /\ next = [s \in Slots |-> NULL]
  /\ pid = [s \in Slots |-> 0]
  /\ defunct = {}
  /\ stack = [c \in Contexts |-> IF c = Idle THEN NewFrame(Idle) ELSE NULL]
  /\ kernel_stack = [c \in Contexts |-> IF c = Idle THEN Idle ELSE NULL]
  /\ proc_idx = 0
  /\ max_pid = 0
  /\ cpu = NULL

\* Fault: the new process is put right behind active, not at the end.
Insert_behind(act, nx, s) ==
  IF act = s THEN [nx EXCEPT ![s] = s]
             ELSE [nx EXCEPT ![s] = nx[act], ![act] = s]

\* The ring after process s has been put in front of process act, that is,
\* at the end of the round.
Insert(act, nx, s) ==
  LET linked == [nx EXCEPT ![s] = act]
  IN  [linked EXCEPT ![Prev(act, linked, act)] = s]

\* sched_spawn_module, called by main().
Spawn ==
  /\ mode = "boot" /\ proc_idx < Modules
  /\ LET s   == proc_idx
         act == IF active = NULL THEN s ELSE active
     IN  /\ active' = act
         /\ next' = Insert(act, next, s)
         /\ pid' = [pid EXCEPT ![s] = max_pid + 1]
         /\ stack' = [stack EXCEPT ![s] = NewFrame(s)]
         /\ kernel_stack' = [kernel_stack EXCEPT ![s] = s]
  /\ proc_idx' = proc_idx + 1
  /\ max_pid' = max_pid + 1
  /\ UNCHANGED <<mode, defunct, cpu>>

\* sched_drop_to_user: main() ends and the first process starts.
Drop ==
  /\ mode = "boot" /\ proc_idx > 0
  /\ mode' = "user"
  /\ cpu' = stack[Current]
  /\ UNCHANGED <<active, next, defunct, stack, kernel_stack, table>>

-----------------------------------------------------------------------------
\* Fault: active is advanced before the frame is recorded.
Saved_advanced ==
  [stack EXCEPT ![IF active = NULL THEN Idle ELSE next[active]] = cpu]

\* Fault: the answer is written through the process that runs next.
Answered_advanced(c, r) ==
  [stack EXCEPT ![Current] = [owner |-> cpu.owner, call |-> c, rax |-> cpu.rax],
                ![next[active]].rax = r]

(***************************************************************************)
(* sched_switch_to_kernel_stack: the frame that PUSHA built is recorded in *)
(* the current context.  For a syscall, SET_SYSCALL_RET then writes the    *)
(* answer through the saved pointer (r15), after the handler has run.      *)
(***************************************************************************)
Saved == [stack EXCEPT ![Current] = cpu]

Answered(c, r) ==
  [stack EXCEPT ![Current] = [owner |-> cpu.owner, call |-> c, rax |-> r]]

\* One outcome of a kernel exit: the kernel stack in use, taken from the
\* context interrupted, is recorded in leaving, and entering gets the CPU.
SwitchTo(leaving, entering, act, nx, stk) ==
  /\ active' = act
  /\ next' = nx
  /\ stack' = stk
  /\ kernel_stack' = [kernel_stack EXCEPT ![leaving] = kernel_stack[Current]]
  /\ cpu' = stk[entering]
  /\ UNCHANGED <<mode, table>>

\* Fault: active is advanced before the kernel stack is recorded.
Resume_advanced(act, nx, stk) ==
  IF act = NULL THEN SwitchTo(Idle, Idle, NULL, nx, stk)
                ELSE SwitchTo(nx[act], nx[act], nx[act], nx, stk)

\* Fault: active is advanced twice.
Resume_twice(act, nx, stk) ==
  IF act = NULL THEN SwitchTo(Idle, Idle, NULL, nx, stk)
                ELSE SwitchTo(act, nx[nx[act]], nx[nx[act]], nx, stk)

\* Fault: active is made to point at the idle process.
Resume_idle(act, nx, stk) ==
  IF act = NULL THEN SwitchTo(Idle, Idle, Idle, nx, stk)
                ELSE SwitchTo(act, nx[act], nx[act], nx, stk)

(***************************************************************************)
(* sched_switch_to_user_stack, once the handler has left active = act,     *)
(* next = nx and the saved frames stk: the kernel stack is recorded in the *)
(* context that is active by then, and the next process of the ring runs.  *)
(***************************************************************************)
Resume(act, nx, stk) ==
  IF act = NULL THEN SwitchTo(Idle, Idle, NULL, nx, stk)
                ELSE SwitchTo(act, nx[act], nx[act], nx, stk)

\* A PIT tick or a key: the driver's handler leaves the process table alone.
Irq ==
  /\ mode = "user"
  /\ Resume(active, next, Saved)
  /\ UNCHANGED defunct

\* Only processes execute int 80h; idle calls its one kernel function directly.
InSyscall == mode = "user" /\ active # NULL

\* A syscall that leaves the process table alone (pause, write, read, ...).
Other(r) ==
  /\ InSyscall
  /\ Resume(active, next, Answered("other", r))
  /\ UNCHANGED defunct

sched_getpid == IF active = NULL THEN 0 ELSE pid[active]

Getpid ==
  /\ InSyscall
  /\ Resume(active, next, Answered("getpid", sched_getpid))
  /\ UNCHANGED defunct

\* Fault: the walk ends before it looks at its last process.
Matching_short(pd) ==
  IF active = NULL THEN {}
  ELSE {p \in Walk(active, next) : pid[p] = pd /\ next[p] # active}

\* The processes of the ring whose pid is pd.
Matching(pd) ==
  IF active = NULL THEN {} ELSE {p \in Walk(active, next) : pid[p] = pd}

\* Fault: the predecessor keeps pointing at p.
Unlink_not(p) == next

\* The next pointers once p has been unlinked.
Unlink(p) == [next EXCEPT ![Prev(active, next, p)] = next[p]]

(***************************************************************************)
(* sched_terminate_process, the switch to the next process included.  When *)
(* the victim is the running process, active still points at it until      *)
(* sched_switch_to_user_stack leaves it through its next pointer.          *)
(***************************************************************************)
Terminate(pd, c) ==
  \/ /\ Matching(pd) = {}
     /\ Resume(active, next, Answered(c, Failure))
     /\ UNCHANGED defunct
  \/ \E p \in Matching(pd) :
       /\ IF active = next[active]
            THEN Resume(NULL, next, Answered(c, 0))
            ELSE Resume(active, Unlink(p), Answered(c, 0))
       /\ defunct' = defunct \cup {p}

\* syscall_kill with SIGKILL; any other signal is Other(Failure).
Kill(pd) == InSyscall /\ Terminate(pd, "kill")

\* syscall_exit.
Exit == InSyscall /\ Terminate(sched_getpid, "exit")

\* syscall_halt: cli; hlt.
Halt ==
  /\ InSyscall
  /\ mode' = "halted"
  /\ UNCHANGED <<active, next, defunct, stack, kernel_stack, cpu, table>>

\* The pids a process may pass to kill: pids in use, and one never given out.
KillArgs == 0 .. Modules + 1

Next ==
  \/ Spawn
  \/ Drop
  \/ Irq
  \/ \E r \in {0, Failure} : Other(r)
  \/ Getpid
  \/ \E pd \in KillArgs : Kill(pd)
  \/ Exit
  \/ Halt

(***************************************************************************)
(* Boot runs to its end, and while a context runs the interrupt flag is    *)
(* set and the PIT keeps ticking.                                          *)
(***************************************************************************)
Spec == Init /\ [][Next]_vars /\ WF_vars(Drop) /\ WF_vars(Irq)

-----------------------------------------------------------------------------
TypeOK ==
  /\ mode \in {"boot", "user", "halted"}
  /\ active \in Slots \cup {NULL}
  /\ next \in [Slots -> Slots \cup {NULL}]
  /\ pid \in [Slots -> Nat]
  /\ defunct \in SUBSET Slots
  /\ stack \in [Contexts -> Frames \cup {NULL}]
  /\ kernel_stack \in [Contexts -> Contexts \cup {NULL}]
  /\ proc_idx \in 0 .. Modules
  /\ max_pid \in Nat
  /\ cpu \in Frames \cup {NULL}

(***************************************************************************)
(* The pointers nx form one ring of the processes L: they stay in L, no    *)
(* process is pointed at twice, and no proper part of L is closed.         *)
(***************************************************************************)
IsRing(L, nx) ==
  /\ \A s \in L : nx[s] \in L
  /\ \A s, t \in L : nx[s] = nx[t] => s = t
  /\ \A S \in SUBSET L : (S # {} /\ \A s \in S : nx[s] \in S) => S = L

(***************************************************************************)
(* The next pointers of the live processes form one ring, which contains   *)
(* active: whatever order processes are spawned, exit and kill each other  *)
(* in, unlinking one never splits the ring, drops a live process from it   *)
(* or leaves a terminated one on it (sched_spawn_module,                   *)
(* sched_terminate_process).                                               *)
(***************************************************************************)
RingInv ==
  /\ active = NULL <=> Live = {}
  /\ active # NULL => active \in Live
  /\ IsRing(Live, next)

(***************************************************************************)
(* No context switch loses or mixes up a context: the CPU runs the context *)
(* that active designates, and every other live context, idle included, is *)
(* parked on a frame of its own (sched_switch_to_kernel_stack,             *)
(* sched_switch_to_user_stack and the two entry stubs that call them).     *)
(***************************************************************************)
ContextIntegrity ==
  /\ mode # "boot" => cpu # NULL /\ cpu.owner = Current
  /\ \A c \in Live \cup {Idle} :
       (mode = "boot" \/ c # Current) => stack[c] # NULL /\ stack[c].owner = c

(***************************************************************************)
(* Two live contexts never share a kernel stack page, although the context *)
(* that leaves the kernel need not be the one that entered it: when the    *)
(* last process ends, sched_switch_to_user_stack hands its page to idle.   *)
(***************************************************************************)
KernelStacksDisjoint ==
  \A c, d \in Live \cup {Idle} :
    /\ kernel_stack[c] # NULL
    /\ kernel_stack[c] = kernel_stack[d] => c = d

\* Where the registers of c are: in the CPU or on its stack.
FrameOf(c) == IF mode # "boot" /\ c = Current THEN cpu ELSE stack[c]

(***************************************************************************)
(* A process that asked for its pid finds its own pid in rax, although the *)
(* CPU goes to another process before it reads the answer (sys.asm writes  *)
(* the answer through r15, the frame of the caller, not through active).   *)
(***************************************************************************)
OwnAnswer ==
  \A c \in Live : FrameOf(c).call = "getpid" => FrameOf(c).rax = pid[c]

(***************************************************************************)
(* A terminated process stays terminated and never gets the CPU again, and *)
(* its slot keeps its pid: neither a late kill of the same pid nor the     *)
(* stale next pointer of its slot brings it back.                          *)
(***************************************************************************)
NoResurrection ==
  [][\A s \in defunct : /\ s \in defunct'
                        /\ cpu'.owner # s
                        /\ pid'[s] = pid[s]]_vars

\* The live processes with pid pd, whether or not a walk reaches them.
Named(pd) == {s \in Live : pid[s] = pd}

(***************************************************************************)
(* kill ends exactly the live processes that have the pid it names, answers*)
(* 0 if there was one and -1 if there was none, and exit ends the caller:  *)
(* the walk of sched_terminate_process misses nobody, and stops at nobody  *)
(* else, whatever processes have left the ring before.                     *)
(***************************************************************************)
KillAnswersTruth ==
  [][/\ \A pd \in KillArgs : Kill(pd) =>
          /\ defunct' = defunct \cup Named(pd)
          /\ stack'[Current].rax = (IF Named(pd) = {} THEN Failure ELSE 0)
     /\ Exit => defunct' = defunct \cup {Current}]_vars

(***************************************************************************)
(* Every live process gets the CPU again and again, unless it is killed or *)
(* the machine is halted: no order of syscalls, exits and interrupts       *)
(* starves a process.                                                      *)
(***************************************************************************)
EveryoneRuns ==
  \A s \in Slots :
    [](s \in Live => <>(\/ mode = "user" /\ cpu.owner = s
                       \/ s \in defunct
                       \/ mode = "halted"))

=============================================================================
