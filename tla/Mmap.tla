-------------------------------- MODULE Mmap --------------------------------
(***************************************************************************)
(* The callers of the virtual memory manager: the stacks that the          *)
(* scheduler allocates while the kernel boots (_sched_alloc_pages of       *)
(* Kernel/sched.c), and the windows of the system calls mmap and munmap    *)
(* (Kernel/mmu.c): two pages for a process, each filled from below.        *)
(***************************************************************************)
EXTENDS Vmm

CONSTANTS
  Pids,             \* the processes
  PAGES_PER_THREAD, \* windows of a process: 2
  Spawns,           \* the processes that main spawns
  STACK_PAGES,      \* pages of a process' stack: 16
  PROC_BASE_STACK,  \* page of the stack of the idle process
  MMAP_BASE,        \* page from which windows are searched
  NULL              \* the null pointer

ASSUME MmapAssumption ==
  /\ Pids \subseteq Nat
  /\ {PAGES_PER_THREAD, Spawns, STACK_PAGES, PROC_BASE_STACK, MMAP_BASE}
       \subseteq Nat \ {0}
  /\ STACK_PAGES <= MaxPages
  /\ NULL \notin Int

Windows == {pid * PAGES_PER_THREAD + i :
              pid \in Pids, i \in 0 .. PAGES_PER_THREAD - 1}

WindowsOf(pid) ==
  pid * PAGES_PER_THREAD .. (pid + 1) * PAGES_PER_THREAD - 1

VARIABLES
  stacks,     \* the stacks allocated so far
  pages,      \* the page of each window, NULL while it has none
  bytes_used, \* bytes of each window that are in use
  request     \* the window and size that a page is being allocated for

mmaps == <<stacks, pages, bytes_used, request>>

None == [window |-> NULL, size |-> 0]

MmapInit ==
  /\ VmmInit
  /\ stacks = 0
  /\ pages = [w \in Windows |-> NULL]
  /\ bytes_used = [w \in Windows |-> 0]
  /\ request = None

-----------------------------------------------------------------------------
(***************************************************************************)
(* The stacks: two for the idle process (sched_init), two for each process *)
(* spawned (_sched_load_module).                                           *)
(***************************************************************************)
StackRequests == 2 + 2 * Spawns

\* Fault: the stack of the idle process is put in the way of the others.
StackRequest_near(k) ==
  [from  |-> IF k = 0 THEN ONE_GB_OF_PAGES + 2 ELSE 0,
   count |-> IF k > 1 /\ k % 2 = 0 THEN STACK_PAGES ELSE 1]

\* The first page to search, and the number of pages, of the k-th stack.
StackRequest(k) ==
  [from  |-> IF k = 0 THEN PROC_BASE_STACK ELSE 0,
   count |-> IF k > 1 /\ k % 2 = 0 THEN STACK_PAGES ELSE 1]

(***************************************************************************)
(* The layout of the code: PROC_BASE_STACK, 0x50000000, is 0x10000 pages   *)
(* above the identity mapping, where the other stacks take 18, and the     *)
(* first page of table 640.  The cleaning loop of vmm_initialize reaches   *)
(* its flag and that of table 512, the first one behind the mapping.       *)
(***************************************************************************)
ASSUME LayoutAssumption ==
  /\ ONE_GB_OF_PAGES + 1 + Spawns * (STACK_PAGES + 1) <= PROC_BASE_STACK
  /\ PROC_BASE_STACK < Top
  /\ PT(PROC_BASE_STACK + 1) = PT(PROC_BASE_STACK)
  /\ {Flag(PT(ONE_GB_OF_PAGES)), Flag(PT(PROC_BASE_STACK))}
       \subseteq Cleaned \ Marked

_sched_alloc_pages ==
  /\ stacks < StackRequests
  /\ vmm_alloc_pages_from(StackRequest(stacks).from, StackRequest(stacks).count)
  /\ UNCHANGED mmaps

\* A stack is cleared; where a page has no frame, or the search had failed
\* and left the pointer as it was, that faults.
stack_ready ==
  /\ stacks < StackRequests
  /\ call.pc \in {"done", "failed"}
  /\ fault' = \/ call.pc = "failed"
              \/ \E p \in call.first .. call.first + call.count - 1 :
                   frame[p] = BAD
  /\ stacks' = stacks + 1
  /\ VmmReturn
  /\ UNCHANGED <<pages, bytes_used, request>>

Booted == stacks = StackRequests

-----------------------------------------------------------------------------
\* Fault: the room left in a window is not looked at.
Serving_full(pid, w, size) ==
  /\ size <= VMM_PAGE_SIZE
  /\ w \in WindowsOf(pid)
  /\ \A v \in WindowsOf(pid) : w <= v

\* The window of pid that syscall_mmap serves size bytes from: the first one
\* that has no page yet, or room.
Serving(pid, w, size) ==
  LET serves(v) == \/ pages[v] = NULL
                   \/ VMM_PAGE_SIZE - bytes_used[v] >= size
  IN  /\ size <= VMM_PAGE_SIZE
      /\ w \in WindowsOf(pid) /\ serves(w)
      /\ \A v \in WindowsOf(pid) : v < w => ~ serves(v)

\* Fault: the bytes handed out are not counted.
mmap_window_uncounted(pid, w, size) ==
  /\ Serving(pid, w, size) /\ pages[w] # NULL
  /\ UNCHANGED <<vmm, stacks, pages, bytes_used, request>>

\* syscall_mmap answers MmapResult(w).
mmap_window(pid, w, size) ==
  /\ Serving(pid, w, size) /\ pages[w] # NULL
  /\ bytes_used' = [bytes_used EXCEPT ![w] = @ + size]
  /\ UNCHANGED <<vmm, stacks, pages, request>>

MmapResult(w) == pages[w] * VMM_PAGE_SIZE + bytes_used[w]

\* syscall_mmap allocates a page for the window.
mmap_alloc(pid, w, size) ==
  /\ Serving(pid, w, size) /\ pages[w] = NULL
  /\ vmm_alloc_pages_from(MMAP_BASE, 1)
  /\ request' = [window |-> w, size |-> size]
  /\ UNCHANGED <<stacks, pages, bytes_used>>

\* The page has been allocated: syscall_mmap answers its address.
mmap_allocated ==
  /\ call.pc = "done"
  /\ pages' = [pages EXCEPT ![request.window] = call.first]
  /\ bytes_used' = [bytes_used EXCEPT ![request.window] = request.size]
  /\ request' = None
  /\ VmmReturn
  /\ UNCHANGED stacks

\* No page was found: syscall_mmap answers NULL.
mmap_failed ==
  /\ call.pc = "failed"
  /\ request' = None
  /\ VmmReturn
  /\ UNCHANGED <<stacks, pages, bytes_used, fault>>

\* No window serves: syscall_mmap answers NULL.
mmap_null(pid, size) ==
  /\ \A w \in WindowsOf(pid) : ~ Serving(pid, w, size)
  /\ UNCHANGED <<vmm, mmaps>>

\* Fault: the page is given back as soon as anything of it is unmapped.
syscall_munmap_all(pid, addr, size) ==
  \E w \in WindowsOf(pid) :
    /\ pages[w] = addr \div VMM_PAGE_SIZE
    /\ vmm_free_pages(pages[w])
    /\ pages' = [pages EXCEPT ![w] = NULL]
    /\ bytes_used' = [bytes_used EXCEPT ![w] = 0]
    /\ UNCHANGED <<stacks, request>>

(***************************************************************************)
(* syscall_munmap.  bytes_used - size is unsigned: it is <= 0 only when    *)
(* the two are equal.                                                      *)
(***************************************************************************)
syscall_munmap(pid, addr, size) ==
  \E w \in WindowsOf(pid) :
    /\ pages[w] # NULL
    /\ pages[w] = addr \div VMM_PAGE_SIZE
    /\ \/ /\ bytes_used[w] = size
          /\ vmm_free_pages(pages[w])
          /\ pages' = [pages EXCEPT ![w] = NULL]
          /\ bytes_used' = [bytes_used EXCEPT ![w] = 0]
       \/ /\ bytes_used[w] # size
          /\ bytes_used' = [bytes_used EXCEPT ![w] = @ - size]
          /\ UNCHANGED <<vmm, pages>>
    /\ UNCHANGED <<stacks, request>>

-----------------------------------------------------------------------------
MmapTypeOK ==
  /\ VmmTypeOK
  /\ stacks \in 0 .. StackRequests
  /\ pages \in [Windows -> Pages \cup {NULL}]
  /\ bytes_used \in [Windows -> 0 .. VMM_PAGE_SIZE]
  /\ request \in [window : Windows \cup {NULL}, size : 0 .. VMM_PAGE_SIZE]

=============================================================================
