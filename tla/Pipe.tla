-------------------------------- MODULE Pipe --------------------------------
(***************************************************************************)
(* The pipes that processes share (Kernel/pipe.c), each with the semaphore *)
(* that is meant to guard it.  A syscall runs with interrupts off, so an   *)
(* operation is atomic; processes interleave between operations.           *)
(*                                                                         *)
(* The bytes themselves are left out: no property tells them apart.  The   *)
(* descriptors are those of the table; the code checks only opens.         *)
(***************************************************************************)
EXTENDS Semaphore

CONSTANTS
  MAX_PIPES, \* entries of pipes[]
  PIPE_SIZE, \* bytes of a pipe's buffer
  UINT,      \* one more than the largest unsigned
  Pids,      \* the processes that use pipes
  NULL,      \* the null pointer
  MaxWrites, \* bound: the writes that are made to a pipe
  MaxQueue,  \* bound: the readers that queue on a semaphore
  MaxUsers   \* bound: the users of a pipe up to which opens are made

ASSUME PipeAssumption ==
  /\ MAX_PIPES \in Nat
  /\ MaxWrites \in Nat /\ MaxQueue \in Nat /\ MaxUsers \in Nat
  /\ PIPE_SIZE \in Nat \ {0} /\ INT_MAX \in Nat \ {0}
  /\ UINT \in Nat /\ UINT > PIPE_SIZE

fds == 0 .. MAX_PIPES - 1

VARIABLES
  pipes,  \* per descriptor: NULL, or the pipe
  writes, \* history: writes to the pipe since it was opened
  unread  \* history: bytes written to the pipe less the bytes read from it

vars == <<pipes, writes, unread>>

(***************************************************************************)
(* A pipe.  Its head is an index into buf; tail stays at buf, at index 0.  *)
(***************************************************************************)
Semaphores == [value : -INT_MAX - 1 .. INT_MAX, queue : Seq(Pids)]
Pipes == [sem : Semaphores, avail : 0 .. UINT - 1, head : 0 .. PIPE_SIZE - 1,
          users : Int]

IsOpen(fd) == pipes[fd] # NULL

-----------------------------------------------------------------------------
Init ==
  /\ pipes  = [fd \in fds |-> NULL]
  /\ writes = [fd \in fds |-> 0]
  /\ unread = [fd \in fds |-> 0]

\* OpenPipe of a descriptor in use: one user more.
Join(fd) ==
  /\ IsOpen(fd) /\ pipes[fd].users < MaxUsers
  /\ pipes' = [pipes EXCEPT ![fd].users = @ + 1]
  /\ UNCHANGED <<writes, unread>>

\* OpenPipe of a free descriptor.  avail is never assigned: it is whatever a,
\* the memory that mmu_kmalloc returned, held.
Create(fd, a) ==
  /\ ~ IsOpen(fd)
  /\ pipes' = [pipes EXCEPT ![fd] =
                 [sem |-> CreateSem(1), avail |-> a, head |-> 0, users |-> 1]]
  /\ writes' = [writes EXCEPT ![fd] = 0]
  /\ unread' = [unread EXCEPT ![fd] = 0]

\* Fault: the head is not set back when it reaches the end of the buffer.
Wrap_not(h) == h

\* Where the head is after it has moved to h, at most one buffer too far.
Wrap(h) == h % PIPE_SIZE

\* Fault: a read does not give the unit of the semaphore back.
Read_keeps(fd, pid, n) ==
  /\ pipes' = [pipes EXCEPT
                 ![fd].sem = WaitSem(@, pid),
                 ![fd].head = Wrap(@ + n),
                 ![fd].avail = @ - n]
  /\ unread' = [unread EXCEPT ![fd] = @ - n]

\* The body of GetPipe between WaitSem and SignalSem, for n bytes.
Read(fd, pid, n) ==
  /\ pipes' = [pipes EXCEPT
                 ![fd].sem = SignalSem(WaitSem(@, pid)),
                 ![fd].head = Wrap(@ + n),
                 ![fd].avail = @ - n]
  /\ unread' = [unread EXCEPT ![fd] = @ - n]

(***************************************************************************)
(* How many bytes the loop of GetPipe takes.  read counts down, and the    *)
(* comparison size > read is unsigned, so the loop ends after one byte.    *)
(***************************************************************************)
Readable(p) == IF p.head # 0 /\ p.avail # 0 THEN 1 ELSE 0

\* GetPipe.  A reader that finds no unit is queued and comes back with -1.
GetPipe(fd, pid, size) ==
  /\ IsOpen(fd) /\ size \in 1 .. PIPE_SIZE
  /\ \/ /\ WaitAnswer(pipes[fd].sem) = 1
        /\ Read(fd, pid, Readable(pipes[fd]))
     \/ /\ WaitAnswer(pipes[fd].sem) = 0
        /\ Len(pipes[fd].sem.queue) < MaxQueue
        /\ pipes' = [pipes EXCEPT ![fd].sem = WaitSem(@, pid)]
        /\ UNCHANGED unread
  /\ UNCHANGED writes

\* PutPipe: the write goes ahead when avail, which counts what has been
\* written, is at least size.
PutPipe(fd, size) ==
  /\ IsOpen(fd) /\ size \in 0 .. PIPE_SIZE /\ pipes[fd].avail >= size
  /\ writes[fd] < MaxWrites
  /\ pipes' = [pipes EXCEPT
                 ![fd].sem = SignalSem(@),
                 ![fd].head = Wrap(@ + size),
                 ![fd].avail = (@ + size) % UINT]
  /\ writes' = [writes EXCEPT ![fd] = @ + 1]
  /\ unread' = [unread EXCEPT ![fd] = @ + size]

\* GetPipe and PutPipe return early when the pipe is closed, when the size is
\* out of range, and, for a write, when avail is less than the size.
Refused(fd, size) ==
  /\ \/ ~ IsOpen(fd)
     \/ size \notin 1 .. PIPE_SIZE
     \/ IsOpen(fd) /\ pipes[fd].avail < size
  /\ UNCHANGED vars

\* DeletePipe: the semaphore is flushed, and it and the pipe are freed.
DeletePipe(fd) == pipes' = [pipes EXCEPT ![fd] = NULL]

(***************************************************************************)
(* ClosePipe.  The pipe is deleted when users remain.  (On a closed        *)
(* descriptor the code counts down a location near address 0, which is no  *)
(* part of a pipe.)                                                        *)
(***************************************************************************)
ClosePipe(fd) ==
  /\ \/ ~ IsOpen(fd) /\ UNCHANGED pipes
     \/ IsOpen(fd) /\ pipes[fd].users - 1 # 0 /\ DeletePipe(fd)
     \/ /\ IsOpen(fd) /\ pipes[fd].users - 1 = 0
        /\ pipes' = [pipes EXCEPT ![fd].users = 0]
  /\ UNCHANGED <<writes, unread>>

Next ==
  \E fd \in fds :
    \/ Join(fd)
    \/ \E a \in 0 .. UINT - 1 : Create(fd, a)
    \/ \E pid \in Pids, size \in 1 .. PIPE_SIZE : GetPipe(fd, pid, size)
    \/ \E size \in 0 .. PIPE_SIZE : PutPipe(fd, size)
    \/ \E size \in 0 .. PIPE_SIZE + 1 : Refused(fd, size)
    \/ ClosePipe(fd)

Spec == Init /\ [][Next]_vars

-----------------------------------------------------------------------------
\* The head of every pipe stays inside its buffer, whatever is read and written.
TypeOK ==
  /\ pipes \in [fds -> Pipes \cup {NULL}]
  /\ writes \in [fds -> Nat] /\ unread \in [fds -> Int]

(***************************************************************************)
(* Between two operations the semaphore of an open pipe has a unit and no  *)
(* queue, whatever order processes open, read, write and close in, up to   *)
(* the write that takes its count past INT_MAX.  So until then WaitSem     *)
(* never takes the branch that stores through the null queue pointer and   *)
(* gives up, and GetPipe is never refused for it.                          *)
(***************************************************************************)
SemaphoreIdle ==
  \A fd \in fds : IsOpen(fd) /\ writes[fd] < INT_MAX =>
    pipes[fd].sem.value >= 1 /\ pipes[fd].sem.queue = <<>>

(***************************************************************************)
(* "Si no hay nada que leer, devuelve" (comment of GetPipe: if there is    *)
(* nothing to read it returns): no byte is taken out of a pipe in which    *)
(* none is left.                                                           *)
(***************************************************************************)
NothingToRead == \A fd \in fds : unread[fd] >= 0

=============================================================================
