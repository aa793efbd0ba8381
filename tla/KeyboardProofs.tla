--------------------------- MODULE KeyboardProofs ---------------------------
(***************************************************************************)
(* Proofs about the keyboard driver, for every size of the key buffer.     *)
(***************************************************************************)
EXTENDS Keyboard, SequenceTheorems, TLAPS

\* Reducing an index that is less than twice the size of the ring.
LEMMA WrapAround ==
  ASSUME NEW n \in Nat \ {0}, NEW x \in 0 .. 2 * n - 1
  PROVE  x % n = IF x < n THEN x ELSE x - n
  OBVIOUS

\* The same for the size of the key buffer; the result is one of its indices.
LEMMA Wrapped ==
  ASSUME NEW x \in 0 .. 2 * KEY_BUFFER_SIZE - 1
  PROVE  /\ x % KEY_BUFFER_SIZE = IF x < KEY_BUFFER_SIZE THEN x ELSE x - KEY_BUFFER_SIZE
         /\ x % KEY_BUFFER_SIZE \in Cells
<1>1. KEY_BUFFER_SIZE \in Nat \ {0}
  BY KeyboardAssumption
<1>2. x % KEY_BUFFER_SIZE = IF x < KEY_BUFFER_SIZE THEN x ELSE x - KEY_BUFFER_SIZE
  BY <1>1, WrapAround, Zenon
<1> QED BY <1>1, <1>2 DEF Cells

\* The keys in the buffer are a sequence that is shorter than the ring.
ContentOK ==
  /\ Count \in 0 .. KEY_BUFFER_SIZE - 1
  /\ Content \in Seq(Keys)
  /\ Len(Content) = Count
  /\ \A i \in 1 .. Count :
       Content[i] = key_buffer[(buffer_first_key + i - 1) % KEY_BUFFER_SIZE]

\* It is one wherever the indices are inside the ring.
LEMMA ContentType == TypeOK => ContentOK
<1> SUFFICES ASSUME TypeOK PROVE ContentOK
  OBVIOUS
<1> USE KeyboardAssumption
<1>1. Count \in 0 .. KEY_BUFFER_SIZE - 1
  BY DEF TypeOK, Count, Cells
<1>2. \A i \in 1 .. Count : (buffer_first_key + i - 1) % KEY_BUFFER_SIZE \in Cells
  <2> SUFFICES ASSUME NEW i \in 1 .. Count
               PROVE  (buffer_first_key + i - 1) % KEY_BUFFER_SIZE \in Cells
    OBVIOUS
  <2>1. buffer_first_key + i - 1 \in 0 .. 2 * KEY_BUFFER_SIZE - 1
    BY <1>1 DEF TypeOK, Cells
  <2> QED BY <2>1, Wrapped
<1>3. Content \in [1 .. Count -> Keys]
  BY <1>2 DEF Content, TypeOK
<1>4. Content \in Seq(Keys) /\ Len(Content) = Count
  BY <1>1, <1>3, SeqDef
<1> QED BY <1>1, <1>4 DEF Content, ContentOK

\* The driver starts well typed.
LEMMA InitType == Init => TypeOK
  BY KeyboardAssumption, EmptySeq DEF Init, TypeOK, Cells

\* Every handler keeps the indices inside the ring.
LEMMA NextType == TypeOK /\ [Next]_vars => TypeOK'
<1> SUFFICES ASSUME TypeOK, [Next]_vars PROVE TypeOK'
  OBVIOUS
<1> USE KeyboardAssumption
<1>2. ASSUME NEW k \in Keys, Press(k) PROVE TypeOK'
  <2>1. (buffer_last_key + 1) % KEY_BUFFER_SIZE \in Cells
    <3>1. buffer_last_key + 1 \in 0 .. 2 * KEY_BUFFER_SIZE - 1
      BY DEF TypeOK, Cells
    <3> QED BY <3>1, Wrapped
  <2>2. CASE key_buffer_is_full /\ beep /\ UNCHANGED buffer
    BY <1>2, <2>2 DEF TypeOK, Press, beep, buffer
  <2>3. CASE /\ ~ key_buffer_is_full
             /\ key_buffer' = [key_buffer EXCEPT ![buffer_last_key] = k]
             /\ buffer_last_key' = (buffer_last_key + 1) % KEY_BUFFER_SIZE
             /\ UNCHANGED <<buffer_first_key, sound>>
    BY <1>2, <2>1, <2>3 DEF TypeOK, Press, sound
  <2> QED BY <1>2, <2>2, <2>3 DEF Press, key_buffer_add
<1>3. ASSUME NEW k \in Holds, PressHold(k) \/ ReleaseHold(k) PROVE TypeOK'
  BY <1>3 DEF TypeOK, PressHold, ReleaseHold, buffer, sound
<1>4. ASSUME NEW l \in Locks, PressLock(l) PROVE TypeOK'
  BY <1>4 DEF TypeOK, PressLock, buffer, sound
<1>5. CASE PressEscape
  BY <1>5 DEF TypeOK, PressEscape, buffer, sound
<1>6. CASE tick_sound
  <2>1. timeout' \in Nat
    BY <1>6 DEF TypeOK, tick_sound
  <2>2. speaker' \in BOOLEAN
    BY <1>6, Zenon DEF TypeOK, tick_sound
  <2> QED BY <1>6, <2>1, <2>2 DEF TypeOK, tick_sound, buffer
<1>7. CASE read
  <2>1. PICK n \in 0 .. KEY_BUFFER_SIZE : syscall_read(n)
    BY <1>7 DEF read
  <2>2. n \in 0 .. Count
    BY <2>1 DEF syscall_read, Loop
  <2>3. [i \in 1 .. n |-> Content[i]] \in [1 .. n -> Keys]
    <3>1. Content \in [1 .. Count -> Keys]
      BY ContentType, LenProperties DEF ContentOK
    <3> QED BY <2>2, <3>1, ContentType DEF ContentOK
  <2>4. taken' \in Seq(Keys)
    BY <2>1, <2>2, <2>3, SeqDef DEF syscall_read
  <2>5. buffer_first_key' \in Cells
    <3>1. buffer_first_key + n \in 0 .. 2 * KEY_BUFFER_SIZE - 1
      BY <2>2, ContentType DEF ContentOK, TypeOK, Cells
    <3> QED BY <2>1, <3>1, Wrapped DEF syscall_read
  <2> QED BY <2>1, <2>4, <2>5 DEF TypeOK, syscall_read, sound
<1>8. CASE syscall_beep
  BY <1>8 DEF TypeOK, syscall_beep, beep, buffer
<1>9. CASE UNCHANGED vars
  BY <1>9 DEF TypeOK, vars, buffer, sound
<1> QED BY <1>2, <1>3, <1>4, <1>5, <1>6, <1>7, <1>8, <1>9 DEF Next

(***************************************************************************)
(* The indices of the key buffer never leave it.                           *)
(***************************************************************************)
THEOREM KeyboardTypeCorrect == Spec => []TypeOK
  BY InitType, NextType, PTL DEF Spec

-----------------------------------------------------------------------------
\* A key that is stored is appended to the content.
LEMMA AddAppends ==
  ASSUME TypeOK, ContentOK, ContentOK', NEW k \in Keys,
         ~ key_buffer_is_full,
         key_buffer' = [key_buffer EXCEPT ![buffer_last_key] = k],
         buffer_last_key' = (buffer_last_key + 1) % KEY_BUFFER_SIZE,
         buffer_first_key' = buffer_first_key
  PROVE  Count < KEY_BUFFER_SIZE - 1 /\ Content' = Append(Content, k)
<1>1. /\ buffer_first_key \in 0 .. KEY_BUFFER_SIZE - 1
      /\ buffer_last_key \in 0 .. KEY_BUFFER_SIZE - 1
      /\ KEY_BUFFER_SIZE \in Nat /\ KEY_BUFFER_SIZE > 1
  BY KeyboardAssumption DEF TypeOK, Cells
<1>2. buffer_last_key' = IF buffer_last_key + 1 < KEY_BUFFER_SIZE
                           THEN buffer_last_key + 1 ELSE 0
  <2>1. buffer_last_key + 1 \in 0 .. 2 * KEY_BUFFER_SIZE - 1
    BY <1>1
  <2> QED BY <1>1, <2>1, Wrapped
<1>3. buffer_first_key # buffer_last_key'
  BY DEF key_buffer_is_full
<1>4. Count \in Nat /\ Count < KEY_BUFFER_SIZE - 1 /\ Count' = Count + 1
  BY <1>1, <1>2, <1>3 DEF Count
<1>5. ASSUME NEW i \in 1 .. Count + 1
      PROVE  /\ (buffer_first_key + i - 1) % KEY_BUFFER_SIZE \in Cells
             /\ (buffer_first_key + i - 1) % KEY_BUFFER_SIZE = buffer_last_key
                  <=> i = Count + 1
  <2>1. buffer_first_key + i - 1 \in 0 .. 2 * KEY_BUFFER_SIZE - 1
    BY <1>1, <1>4
  <2>2. (buffer_first_key + i - 1) % KEY_BUFFER_SIZE =
          IF buffer_first_key + i - 1 < KEY_BUFFER_SIZE
            THEN buffer_first_key + i - 1
            ELSE buffer_first_key + i - 1 - KEY_BUFFER_SIZE
    BY <1>1, <1>4, <2>1, Wrapped
  <2>3. (buffer_first_key + i - 1) % KEY_BUFFER_SIZE \in Cells
    BY <2>1, Wrapped
  <2> QED BY <1>1, <1>4, <2>2, <2>3 DEF Count
<1>6. /\ Append(Content, k) \in Seq(Keys)
      /\ Len(Append(Content, k)) = Count + 1
      /\ \A i \in 1 .. Count : Append(Content, k)[i] = Content[i]
      /\ Append(Content, k)[Count + 1] = k
  BY AppendProperties DEF ContentOK
<1>7. ASSUME NEW i \in 1 .. Count + 1 PROVE Content'[i] = Append(Content, k)[i]
  <2> DEFINE c == (buffer_first_key + i - 1) % KEY_BUFFER_SIZE
  <2>1. Content'[i] = key_buffer'[c]
    BY <1>4 DEF ContentOK
  <2>2. c \in Cells /\ (c = buffer_last_key <=> i = Count + 1)
    BY <1>5
  <2>3. key_buffer'[c] = IF c = buffer_last_key THEN k ELSE key_buffer[c]
    BY <2>2 DEF TypeOK
  <2>4. CASE i = Count + 1
    BY <1>6, <2>1, <2>2, <2>3, <2>4
  <2>5. CASE i \in 1 .. Count
    <3>1. c # buffer_last_key
      BY <1>4, <2>2, <2>5
    <3>2. Content[i] = key_buffer[c]
      BY <2>5 DEF ContentOK
    <3> QED BY <1>6, <2>1, <2>3, <2>5, <3>1, <3>2
  <2>6. i = Count + 1 \/ i \in 1 .. Count
    BY <1>4
  <2> QED BY <2>4, <2>5, <2>6
<1>8. Content' = Append(Content, k)
  BY <1>4, <1>6, <1>7, SeqEqual DEF ContentOK
<1> QED BY <1>4, <1>8

\* A read removes the keys that it takes from the front of the content.
LEMMA ReadTakes ==
  ASSUME TypeOK, ContentOK, ContentOK', NEW n \in 0 .. Count, syscall_read(n)
  PROVE  /\ taken' = SubSeq(Content, 1, n)
         /\ Content' = SubSeq(Content, n + 1, Len(Content))
<1>1. /\ buffer_first_key \in 0 .. KEY_BUFFER_SIZE - 1
      /\ buffer_last_key \in 0 .. KEY_BUFFER_SIZE - 1
      /\ KEY_BUFFER_SIZE \in Nat /\ KEY_BUFFER_SIZE > 1
      /\ Count \in 0 .. KEY_BUFFER_SIZE - 1
  BY KeyboardAssumption DEF TypeOK, Cells, ContentOK
<1>2. key_buffer' = key_buffer /\ buffer_last_key' = buffer_last_key
  BY DEF syscall_read
<1>3. buffer_first_key' = IF buffer_first_key + n < KEY_BUFFER_SIZE
                            THEN buffer_first_key + n
                            ELSE buffer_first_key + n - KEY_BUFFER_SIZE
  <2>1. buffer_first_key + n \in 0 .. 2 * KEY_BUFFER_SIZE - 1
    BY <1>1
  <2>2. buffer_first_key' = (buffer_first_key + n) % KEY_BUFFER_SIZE
    BY DEF syscall_read
  <2> QED BY <1>1, <2>1, <2>2, Wrapped
<1>4. Count' = Count - n
  BY <1>1, <1>2, <1>3 DEF Count
<1>5. taken' = SubSeq(Content, 1, n)
  BY <1>1 DEF syscall_read, ContentOK
<1>6. /\ SubSeq(Content, n + 1, Count) \in Seq(Keys)
      /\ Len(SubSeq(Content, n + 1, Count)) = Count - n
      /\ \A i \in 1 .. Count - n : SubSeq(Content, n + 1, Count)[i] = Content[n + i]
  BY <1>1, SubSeqProperties DEF ContentOK
<1>7. ASSUME NEW i \in 1 .. Count - n
      PROVE  Content'[i] = Content[n + i]
  <2>1. n + i \in 1 .. Count /\ i \in 1 .. Count'
    BY <1>1, <1>4
  <2>2. /\ buffer_first_key + (n + i) - 1 \in 0 .. 2 * KEY_BUFFER_SIZE - 1
        /\ buffer_first_key' + i - 1 \in 0 .. 2 * KEY_BUFFER_SIZE - 1
    BY <1>1, <1>3, <2>1
  <2>3. (buffer_first_key' + i - 1) % KEY_BUFFER_SIZE
          = (buffer_first_key + (n + i) - 1) % KEY_BUFFER_SIZE
    <3>1. (buffer_first_key' + i - 1) % KEY_BUFFER_SIZE
            = IF buffer_first_key' + i - 1 < KEY_BUFFER_SIZE
                THEN buffer_first_key' + i - 1
                ELSE buffer_first_key' + i - 1 - KEY_BUFFER_SIZE
      BY <1>1, <1>3, <2>1, <2>2, Wrapped
    <3>2. (buffer_first_key + (n + i) - 1) % KEY_BUFFER_SIZE
            = IF buffer_first_key + (n + i) - 1 < KEY_BUFFER_SIZE
                THEN buffer_first_key + (n + i) - 1
                ELSE buffer_first_key + (n + i) - 1 - KEY_BUFFER_SIZE
      BY <1>1, <2>2, Wrapped
    <3> QED BY <1>1, <1>3, <2>1, <2>2, <3>1, <3>2
  <2>4. Content'[i] = key_buffer'[(buffer_first_key' + i - 1) % KEY_BUFFER_SIZE]
    BY <2>1 DEF ContentOK
  <2>5. Content[n + i] = key_buffer[(buffer_first_key + (n + i) - 1) % KEY_BUFFER_SIZE]
    BY <2>1 DEF ContentOK
  <2> QED BY <1>2, <2>3, <2>4, <2>5
<1>8. Content' = SubSeq(Content, n + 1, Count)
  BY <1>1, <1>4, <1>6, <1>7, SeqEqual DEF ContentOK
<1> QED BY <1>5, <1>8 DEF ContentOK

\* The empty ring is the empty queue.
LEMMA InitEmpty == Init => KQ!KQInit
<1> SUFFICES ASSUME Init PROVE KQ!KQInit
  OBVIOUS
<1>1. ContentOK
  BY InitType, ContentType
<1>2. Count = 0
  BY DEF Init, Count
<1> QED BY <1>1, <1>2, EmptySeq DEF ContentOK, Init, KQ!KQInit

\* Every handler is a step of the queue, or leaves it alone.
LEMMA StepRefines ==
  TypeOK /\ TypeOK' /\ ContentOK' /\ [Next]_vars => [KQ!KQNext]_(KQ!kqvars)
<1> SUFFICES ASSUME TypeOK, TypeOK', ContentOK', [Next]_vars
             PROVE  [KQ!KQNext]_(KQ!kqvars)
  OBVIOUS
<1>1. ContentOK
  BY ContentType
<1>2. ASSUME UNCHANGED buffer, UNCHANGED taken PROVE UNCHANGED KQ!kqvars
  BY <1>2 DEF buffer, Content, Count, KQ!kqvars
<1>3. ASSUME NEW k \in Keys, Press(k) PROVE [KQ!KQNext]_(KQ!kqvars)
  <2>1. CASE key_buffer_is_full /\ beep /\ UNCHANGED buffer
    BY <1>2, <1>3, <2>1 DEF Press
  <2>2. CASE /\ ~ key_buffer_is_full
             /\ key_buffer' = [key_buffer EXCEPT ![buffer_last_key] = k]
             /\ buffer_last_key' = (buffer_last_key + 1) % KEY_BUFFER_SIZE
             /\ UNCHANGED <<buffer_first_key, sound>>
    <3>1. Count < KEY_BUFFER_SIZE - 1 /\ Content' = Append(Content, k)
      BY <1>1, <2>2, AddAppends
    <3>2. KQ!Enqueue(k)
      BY <1>1, <1>3, <3>1 DEF Press, ContentOK, KQ!Enqueue
    <3> QED BY <3>2 DEF KQ!KQNext
  <2> QED BY <1>3, <2>1, <2>2 DEF Press, key_buffer_add
<1>4. ASSUME NEW k \in Holds, PressHold(k) \/ ReleaseHold(k)
      PROVE  [KQ!KQNext]_(KQ!kqvars)
  BY <1>2, <1>4 DEF PressHold, ReleaseHold
<1>5. ASSUME NEW l \in Locks, PressLock(l) PROVE [KQ!KQNext]_(KQ!kqvars)
  BY <1>2, <1>5 DEF PressLock
<1>6. CASE PressEscape \/ tick_sound \/ syscall_beep
  BY <1>2, <1>6 DEF PressEscape, tick_sound, syscall_beep
<1>7. CASE read
  <2>1. PICK n \in 0 .. KEY_BUFFER_SIZE : syscall_read(n)
    BY <1>7 DEF read
  <2>2. n \in 0 .. Count
    BY <2>1 DEF syscall_read, Loop
  <2>3. KQ!Take(n)
    BY <1>1, <2>1, <2>2, ReadTakes DEF KQ!Take
  <2> QED BY <1>1, <2>2, <2>3 DEF ContentOK, KQ!KQNext
<1>8. CASE UNCHANGED vars
  BY <1>2, <1>8 DEF vars
<1> QED BY <1>3, <1>4, <1>5, <1>6, <1>7, <1>8 DEF Next

(***************************************************************************)
(* The ring buffer of the driver implements a bounded queue, whatever its  *)
(* size: no interleaving of interrupts and reads loses, repeats or         *)
(* reorders a stored key.                                                  *)
(***************************************************************************)
THEOREM BufferIsQueue == Spec => ImplementsKeyQueue
<1>1. Spec => []TypeOK
  BY KeyboardTypeCorrect
<1>2. []TypeOK => []ContentOK
  BY ContentType, PTL
<1> QED BY <1>1, <1>2, InitEmpty, StepRefines, PTL
        DEF Spec, ImplementsKeyQueue, KQ!KQSpec

-----------------------------------------------------------------------------
\* A handler sets a flag only for a key that is down, and a break code clears it.
LEMMA NextHold == TypeOK /\ HoldNeverSticks /\ [Next]_vars => HoldNeverSticks'
<1> SUFFICES ASSUME TypeOK, HoldNeverSticks, [Next]_vars PROVE HoldNeverSticks'
  OBVIOUS
<1>1. ASSUME UNCHANGED <<hold, down>> PROVE HoldNeverSticks'
  BY <1>1 DEF HoldNeverSticks
<1>2. ASSUME NEW k \in Holds, PressHold(k) PROVE HoldNeverSticks'
  BY <1>2 DEF PressHold, HoldNeverSticks, TypeOK
<1>3. ASSUME NEW k \in Holds, ReleaseHold(k) PROVE HoldNeverSticks'
  BY <1>3 DEF ReleaseHold, HoldNeverSticks, TypeOK
<1>4. ASSUME NEW k \in Keys, Press(k) PROVE HoldNeverSticks'
  BY <1>1, <1>4 DEF Press
<1>5. ASSUME NEW l \in Locks, PressLock(l) PROVE HoldNeverSticks'
  BY <1>1, <1>5 DEF PressLock
<1>6. CASE PressEscape \/ tick_sound \/ syscall_beep
  BY <1>1, <1>6 DEF PressEscape, tick_sound, syscall_beep
<1>7. CASE read
  BY <1>1, <1>7 DEF read, syscall_read
<1>8. CASE UNCHANGED vars
  BY <1>1, <1>8 DEF vars
<1> QED BY <1>2, <1>3, <1>4, <1>5, <1>6, <1>7, <1>8 DEF Next

(***************************************************************************)
(* No sequence of make and break codes leaves shift, ctrl or alt set with  *)
(* none of its keys pressed.                                               *)
(***************************************************************************)
THEOREM ModifiersRelease == Spec => []HoldNeverSticks
<1>1. Init => HoldNeverSticks
  BY DEF Init, HoldNeverSticks
<1> QED BY <1>1, KeyboardTypeCorrect, NextHold, PTL DEF Spec

=============================================================================
