------------------------------ MODULE Keyboard ------------------------------
(***************************************************************************)
(* The keyboard driver (Kernel/keyboard.c), the speaker that it beeps with *)
(* (Kernel/sound.c), the two interrupts that drive them (kbrd_irq, and     *)
(* pit_irq of Kernel/kernel.c) and the read syscall that empties the key   *)
(* buffer (Kernel/syscall/io.c).  The handlers run with interrupts off.    *)
(*                                                                         *)
(* A scan code is modelled by the key of kbrdscancode_std that it selects; *)
(* 0xE0 and 0xE1 prefixes are ignored by the driver and left out.          *)
(***************************************************************************)
EXTENDS Naturals, Sequences

CONSTANTS
  KEY_BUFFER_SIZE, \* entries of key_buffer
  KEY_UNKNOWN,     \* the value of the unused entries of kbrdscancode_std
  Keys,            \* the keys that kbrd_irq stores; KEY_UNKNOWN is one
  Holds,           \* the keys that count as shift, ctrl or alt
  HoldOf,          \* which of the three each of them sets
  Locks            \* the lock keys

Groups == {"shift", "ctrl", "alt"}

ASSUME KeyboardAssumption ==
  /\ KEY_BUFFER_SIZE \in Nat /\ KEY_BUFFER_SIZE > 1
  /\ KEY_UNKNOWN \in Keys
  /\ HoldOf \in [Holds -> Groups]

VARIABLES
  key_buffer,       \* the ring of keys
  buffer_first_key, \* index of the oldest key
  buffer_last_key,  \* index of the first free entry
  hold,             \* shift_hold, ctrl_hold and alt_hold
  lock,             \* num_lock, caps_lock and scroll_lock
  active_term,      \* the terminal that handle_esc shows
  speaker, timeout, \* whether the speaker sounds; ticks it has left
  down,             \* external: the hold keys that the user is pressing
  taken,            \* history: the keys that the last read took
  beeped            \* history: a beep has been asked for since the last tick

buffer == <<key_buffer, buffer_first_key, buffer_last_key>>
sound  == <<speaker, timeout, beeped>>
vars   == <<buffer, hold, lock, active_term, sound, down, taken>>

Cells == 0 .. KEY_BUFFER_SIZE - 1

buffer_is_empty    == buffer_first_key = buffer_last_key
key_buffer_is_full ==
  buffer_first_key = (buffer_last_key + 1) % KEY_BUFFER_SIZE

\* The keys in the buffer, oldest first.
Count ==
  IF buffer_first_key <= buffer_last_key
    THEN buffer_last_key - buffer_first_key
    ELSE buffer_last_key + KEY_BUFFER_SIZE - buffer_first_key
Content ==
  [i \in 1 .. Count |-> key_buffer[(buffer_first_key + i - 1) % KEY_BUFFER_SIZE]]

-----------------------------------------------------------------------------
\* kbrd_install.
Init ==
  /\ key_buffer = [c \in Cells |-> KEY_UNKNOWN]
  /\ buffer_first_key = 0 /\ buffer_last_key = 0
  /\ hold = [g \in Groups |-> FALSE]
  /\ lock = [l \in Locks |-> FALSE]
  /\ active_term = 0
  /\ speaker = FALSE /\ timeout = 0 /\ beeped = FALSE
  /\ down = {} /\ taken = <<>>

\* beep: one tick, unless more are left.
beep ==
  /\ timeout' = IF timeout > 1 THEN timeout ELSE 1
  /\ speaker' = TRUE
  /\ beeped' = TRUE

\* Fault: a full buffer is not noticed and its oldest key overwritten.
key_buffer_add_always(k) ==
  /\ key_buffer' = [key_buffer EXCEPT ![buffer_last_key] = k]
  /\ buffer_last_key' = (buffer_last_key + 1) % KEY_BUFFER_SIZE
  /\ UNCHANGED <<buffer_first_key, sound>>

\* Fault: the index runs past the end of the array before it wraps around.
key_buffer_add_past(k) ==
  \/ key_buffer_is_full /\ beep /\ UNCHANGED buffer
  \/ /\ ~ key_buffer_is_full
     /\ key_buffer' = [key_buffer EXCEPT ![buffer_last_key] = k]
     /\ buffer_last_key' = (buffer_last_key + 1) % (KEY_BUFFER_SIZE + 1)
     /\ UNCHANGED <<buffer_first_key, sound>>

key_buffer_add(k) ==
  \/ key_buffer_is_full /\ beep /\ UNCHANGED buffer
  \/ /\ ~ key_buffer_is_full
     /\ key_buffer' = [key_buffer EXCEPT ![buffer_last_key] = k]
     /\ buffer_last_key' = (buffer_last_key + 1) % KEY_BUFFER_SIZE
     /\ UNCHANGED <<buffer_first_key, sound>>

\* kbrd_irq for the make code of a key that is stored.
Press(k) ==
  /\ key_buffer_add(k)
  /\ UNCHANGED <<hold, lock, active_term, down, taken>>

\* kbrd_irq for the make code of shift, ctrl or alt, repeats included.
PressHold(k) ==
  /\ down' = down \cup {k}
  /\ hold' = [hold EXCEPT ![HoldOf[k]] = TRUE]
  /\ UNCHANGED <<buffer, lock, active_term, sound, taken>>

\* Fault: the break code is ignored.
ReleaseHold_ignored(k) ==
  /\ k \in down
  /\ down' = down \ {k}
  /\ UNCHANGED <<buffer, hold, lock, active_term, sound, taken>>

\* kbrd_irq for a break code of shift, ctrl or alt; others have no effect.
ReleaseHold(k) ==
  /\ k \in down
  /\ down' = down \ {k}
  /\ hold' = [hold EXCEPT ![HoldOf[k]] = FALSE]
  /\ UNCHANGED <<buffer, lock, active_term, sound, taken>>

\* kbrd_irq for a lock key; the leds are set as well.
PressLock(l) ==
  /\ lock' = [lock EXCEPT ![l] = ~ @]
  /\ UNCHANGED <<buffer, hold, active_term, sound, down, taken>>

\* kbrd_irq for escape: handle_esc shows the other terminal.
PressEscape ==
  /\ active_term' = (active_term + 1) % 2
  /\ UNCHANGED <<buffer, hold, lock, sound, down, taken>>

\* Fault: the timer counts down but does not switch the speaker off.
tick_sound_on ==
  /\ timeout' = IF timeout > 0 THEN timeout - 1 ELSE 0
  /\ beeped' = FALSE
  /\ UNCHANGED <<buffer, hold, lock, active_term, speaker, down, taken>>

\* pit_irq.
tick_sound ==
  /\ IF timeout > 0 THEN timeout' = timeout - 1 /\ UNCHANGED speaker
                    ELSE speaker' = FALSE /\ UNCHANGED timeout
  /\ beeped' = FALSE
  /\ UNCHANGED <<buffer, hold, lock, active_term, down, taken>>

\* Fault: a read stops at a stored KEY_UNKNOWN without removing it.
Loop_stuck(n) ==
  /\ n \in 0 .. Count
  /\ \A i \in 1 .. n : Content[i] # KEY_UNKNOWN
  /\ n < Count => Content[n + 1] = KEY_UNKNOWN

(***************************************************************************)
(* How many keys the loop of syscall_read removes: it runs until           *)
(* kbrd_get_key returns KEY_UNKNOWN, because the buffer is empty or        *)
(* because that is the key it just removed.                                *)
(***************************************************************************)
Loop(n) ==
  /\ n \in 0 .. Count
  /\ \A i \in 1 .. n : Content[i] = KEY_UNKNOWN => i = n
  /\ n < Count => n > 0 /\ Content[n] = KEY_UNKNOWN

\* syscall_read.
syscall_read(n) ==
  /\ Loop(n)
  /\ taken' = [i \in 1 .. n |-> Content[i]]
  /\ buffer_first_key' = (buffer_first_key + n) % KEY_BUFFER_SIZE
  /\ UNCHANGED <<key_buffer, buffer_last_key, hold, lock, active_term, sound,
                 down>>

\* The beep syscall.
syscall_beep ==
  /\ beep
  /\ UNCHANGED <<buffer, hold, lock, active_term, down, taken>>

read == \E n \in 0 .. KEY_BUFFER_SIZE : syscall_read(n)

Next ==
  \/ \E k \in Keys : Press(k)
  \/ \E k \in Holds : PressHold(k) \/ ReleaseHold(k)
  \/ \E l \in Locks : PressLock(l)
  \/ PressEscape
  \/ tick_sound
  \/ read
  \/ syscall_beep

(***************************************************************************)
(* The PIT keeps ticking, and the shell polls for keys (fgetc loops until  *)
(* read has an answer, and the scheduler gives every process its turn).    *)
(***************************************************************************)
Spec == Init /\ [][Next]_vars /\ WF_vars(tick_sound) /\ WF_vars(read)

-----------------------------------------------------------------------------
TypeOK ==
  /\ key_buffer \in [Cells -> Keys]
  /\ buffer_first_key \in Cells /\ buffer_last_key \in Cells
  /\ hold \in [Groups -> BOOLEAN] /\ lock \in [Locks -> BOOLEAN]
  /\ active_term \in {0, 1}
  /\ speaker \in BOOLEAN /\ timeout \in Nat /\ beeped \in BOOLEAN
  /\ down \subseteq Holds /\ taken \in Seq(Keys)

(***************************************************************************)
(* The ring of key_buffer is a queue of KEY_BUFFER_SIZE - 1 keys: whatever *)
(* interrupts and reads come in whatever order, keys are read in the order *)
(* they were pressed in, once, and only keys that find the buffer full are *)
(* dropped (key_buffer_add, kbrd_get_key).                                 *)
(***************************************************************************)
KQ == INSTANCE KeyQueue WITH
        Key <- Keys, Bound <- KEY_BUFFER_SIZE - 1,
        queue <- Content, given <- taken

ImplementsKeyQueue == KQ!KQSpec

(***************************************************************************)
(* A modifier never sticks: shift_hold, ctrl_hold or alt_hold is set only  *)
(* while one of its keys is pressed, whatever keys are pressed and         *)
(* released in between (kbrd_irq).                                         *)
(***************************************************************************)
HoldNeverSticks ==
  \A g \in Groups : hold[g] => \E k \in down : HoldOf[k] = g

(***************************************************************************)
(* "sys_read fd buf size" (int80h), with the size of 1 that fgetc passes:  *)
(* a read stores at most one character.                                    *)
(***************************************************************************)
ReadFits == Len(SelectSeq(taken, LAMBDA k : k # KEY_UNKNOWN)) <= 1

(***************************************************************************)
(* Every key that is stored is read: the oldest key, wherever in the ring  *)
(* it is, is taken out, and a key without a character does not block the   *)
(* ones behind it (syscall_read, fgetc).                                   *)
(***************************************************************************)
EveryKeyRead ==
  \A c \in Cells :
    (buffer_first_key = c /\ ~ buffer_is_empty) ~> buffer_first_key # c

(***************************************************************************)
(* The speaker falls silent once nobody asks for beeps, although beep only *)
(* records a timeout and it is the timer that ends the sound (beeplf,      *)
(* tick_sound).                                                            *)
(***************************************************************************)
SilenceReturns == <>[](~ beeped) => <>[](~ speaker)

=============================================================================
