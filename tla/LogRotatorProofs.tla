-------------------------- MODULE LogRotatorProofs --------------------------
(***************************************************************************)
(* What holds of LogRotator for any threads, any size of the ring and any  *)
(* settings of the rotation.                                               *)
(***************************************************************************)
EXTENDS LogRotator, FiniteSetTheorems, SequenceTheorems, TLAPS

USE RotatorAssumption

(* The ring holds items, and dequeue returns nothing else.                 *)
InRing(i) ==
  IF m_tail <= m_head THEN m_tail <= i /\ i < m_head
  ELSE m_tail <= i \/ i < m_head

HeldAreItems == \A i \in Slots : InRing(i) => m_buffer[i] \in Items

Typed == TypeOK /\ HeldAreItems

LEMMA AfterWraps ==
  ASSUME NEW i \in Slots
  PROVE  /\ After(i) \in Slots
         /\ After(i) = IF i = BufferSize - 1 THEN 0 ELSE i + 1
<1>1. CASE i = BufferSize - 1
  BY <1>1 DEF After, Slots
<1>2. CASE i # BufferSize - 1
  BY <1>2 DEF After, Slots
<1> QED BY <1>1, <1>2

LEMMA NoneIsNoItem == None \notin Items
BY DEF Items, Message

LEMMA NoneIsNoFile == None \notin Seq(Message) /\ None # <<>>
BY <<>> \in Seq(Message)

-----------------------------------------------------------------------------
(* Rotating leaves files, an open one if it says so.                       *)
LEMMA RotateTypes ==
  ASSUME FileTypes, Rotate
  PROVE  /\ m_logFile' \in BOOLEAN /\ mishap' \in BOOLEAN
         /\ files' \in [Rotations -> Seq(Message) \cup {None}]
         /\ m_logFile' => files'[0] # None
<1>1. PICK stuck \in SUBSET Present, opens \in BOOLEAN :
        /\ m_logFile' = opens
        /\ files' = IF opens THEN Truncated(stuck) ELSE Shifted(stuck)
        /\ mishap' = (mishap \/ ~opens \/ stuck # {})
  BY DEF Rotate
<1>2. Vacated(stuck) \subseteq Rotations
  BY DEF Vacated
<1>3. Shifted(stuck) \in [Rotations -> Seq(Message) \cup {None}]
  BY <1>2 DEF Shifted, FileTypes
<1>4. 0 \in Rotations
  BY DEF Rotations
<1>5. /\ Truncated(stuck) \in [Rotations -> Seq(Message) \cup {None}]
      /\ Truncated(stuck)[0] = <<>>
  BY <1>3, <1>4 DEF Truncated
<1> QED BY <1>1, <1>3, <1>5, NoneIsNoFile DEF FileTypes

LEMMA TypedInit == Init => Typed
<1> SUFFICES ASSUME Init PROVE Typed
  OBVIOUS
<1>1. RingTypes /\ HeldAreItems
  BY DEF Init, RingTypes, HeldAreItems, InRing, Slots
<1>2. CallTypes /\ LogTypes
  BY DEF Init, CallTypes, LogTypes
<1>3. FileTypes
  <2>1. {None, <<>>} \subseteq Seq(Message) \cup {None}
    BY <<>> \in Seq(Message)
  <2>2. files \in [Rotations -> Seq(Message) \cup {None}]
    BY <2>1 DEF Init
  <2>3. m_rotatePollCheck \in 0 .. LOG_FILE_POLL_INTERVAL - 1
    BY DEF Init
  <2> QED BY <2>2, <2>3 DEF Init, FileTypes
<1> QED BY <1>1, <1>2, <1>3 DEF Typed, TypeOK

LEMMA TypedStep == Typed /\ [Next]_vars => Typed'
<1> SUFFICES ASSUME Typed, [Next]_vars PROVE Typed'
  OBVIOUS
<1> USE DEF Typed, TypeOK
<1>1. ASSUME NEW t \in Threads, LogMessage(t) PROVE Typed'
  <2>1. CallTypes'
    BY <1>1 DEF LogMessage, CallTypes, Items, Message
  <2> QED BY <1>1, <2>1 DEF LogMessage, RingTypes, LogTypes, FileTypes,
             HeldAreItems, InRing, ringVars, fileVars
<1>2. ASSUME NEW t \in Threads, EnqueueWaits(t) PROVE Typed'
  BY <1>2 DEF EnqueueWaits, RingTypes, CallTypes, LogTypes, FileTypes,
       HeldAreItems, InRing, ringVars, fileVars
<1>3. ASSUME NEW t \in Threads, Enqueue(t) PROVE Typed'
  <2>1. item[t] \in Items /\ m_head' = After(m_head) /\ m_head \in Slots
        /\ m_head' # m_tail
    BY <1>3 DEF Enqueue, CallTypes, RingTypes, Full
  <2>2. RingTypes'
    BY <1>3, <2>1, AfterWraps DEF Enqueue, RingTypes
  <2>3. CallTypes'
    BY <1>3 DEF Enqueue, CallTypes
  <2>4. HeldAreItems'
    <3>1. \A i \in Slots : InRing(i)' => i = m_head \/ InRing(i)
      <4>1. m_tail \in Slots /\ m_tail' = m_tail
        BY <1>3 DEF Enqueue, RingTypes
      <4>2. m_head' = IF m_head = BufferSize - 1 THEN 0 ELSE m_head + 1
        BY <2>1, AfterWraps
      <4> QED BY <2>1, <4>1, <4>2 DEF InRing, Slots
    <3> QED BY <1>3, <2>1, <3>1 DEF Enqueue, HeldAreItems, RingTypes
  <2>5. LogTypes' /\ FileTypes'
    BY <1>3 DEF Enqueue, WakeLogThread, LogTypes, FileTypes, fileVars
  <2> QED BY <2>2, <2>3, <2>4, <2>5
<1>4. CASE DequeueWaits
  BY <1>4 DEF DequeueWaits, RingTypes, CallTypes, LogTypes, FileTypes,
       HeldAreItems, InRing, ringVars, callVars, fileVars
<1>5. CASE Dequeue
  <2>1. m_tail \in Slots /\ m_head \in Slots /\ m_head # m_tail
    BY <1>5 DEF Dequeue, Empty, RingTypes
  <2>2. message' = m_buffer[m_tail] /\ message' \in Items
    BY <1>5, <2>1 DEF Dequeue, HeldAreItems, InRing, Slots
  <2>3. RingTypes' /\ HeldAreItems'
    <3>1. RingTypes' /\ m_tail' = After(m_tail)
      BY <1>5, <2>1, AfterWraps DEF Dequeue, RingTypes
    <3>2. \A i \in Slots : InRing(i)' => InRing(i)
      <4>1. m_tail' = IF m_tail = BufferSize - 1 THEN 0 ELSE m_tail + 1
        BY <2>1, <3>1, AfterWraps
      <4>2. m_head' = m_head
        BY <1>5 DEF Dequeue
      <4> QED BY <2>1, <4>1, <4>2 DEF InRing, Slots
    <3> QED BY <1>5, <3>1, <3>2 DEF Dequeue, HeldAreItems
  <2>4. CallTypes'
    BY <1>5 DEF Dequeue, WakeProducer, Asleep, CallTypes
  <2>5. LogTypes'
    BY <1>5, <2>2 DEF Dequeue, LogTypes, Items
  <2>6. FileTypes'
    BY <1>5 DEF Dequeue, FileTypes, fileVars
  <2> QED BY <2>3, <2>4, <2>5, <2>6
<1>6. CASE Startup
  <2>1. FileTypes'
    BY <1>6, RotateTypes DEF Startup, FileTypes
  <2> QED BY <1>6, <2>1 DEF Startup, RingTypes, CallTypes, LogTypes,
             HeldAreItems, InRing, ringVars, callVars
<1>7. CASE Log
  <2>1. FileTypes'
    <3>1. 0 \in Rotations /\ message \in Message
      BY <1>7 DEF Log, LogTypes, Rotations
    <3>2. m_logFile => Append(files[0], message) \in Seq(Message)
      BY <3>1 DEF FileTypes
    <3>3. files' \in [Rotations -> Seq(Message) \cup {None}]
      BY <1>7, <3>1, <3>2 DEF Log, FileTypes
    <3>4. m_logFile => files'[0] # None
      BY <1>7, <3>1, <3>2, NoneIsNoFile DEF Log, FileTypes
    <3> QED BY <1>7, <3>3, <3>4 DEF Log, FileTypes
  <2> QED BY <1>7, <2>1 DEF Log, RingTypes, CallTypes, LogTypes,
             HeldAreItems, InRing, ringVars, callVars
<1>8. CASE RotateIfNecessary
  <2>1. FileTypes'
    BY <1>8, RotateTypes DEF RotateIfNecessary, FileTypes
  <2> QED BY <1>8, <2>1 DEF RotateIfNecessary, RingTypes, CallTypes, LogTypes,
             HeldAreItems, InRing, ringVars, callVars
<1>9. CASE Finish
  BY <1>9 DEF Finish, RingTypes, CallTypes, LogTypes, FileTypes,
       HeldAreItems, InRing, ringVars, callVars
<1>10. CASE ExecReturns \/ Leave
  <2>1. /\ UNCHANGED <<ringVars, said, late, pc, message, fileVars, taken>>
        /\ stage' \in {"quitting", "waited", "stopping", "leaving", "gone"}
        /\ \/ UNCHANGED <<thread, item>>
           \/ /\ thread' = [thread EXCEPT ![Io] = "ended"]
              /\ item' = item
           \/ /\ thread' = [thread EXCEPT ![Main] = "pushing"]
              /\ item' = [item EXCEPT ![Main] = Sentinel]
    BY <1>10 DEF ExecReturns, Leave, IoThreadEnds, Stop, Wait, Exit, callVars
  <2>2. CallTypes'
    BY <2>1 DEF CallTypes, Items
  <2> QED BY <2>1, <2>2 DEF RingTypes, LogTypes, FileTypes, HeldAreItems,
             InRing, ringVars, fileVars
<1>11. CASE UNCHANGED vars
  BY <1>11 DEF vars, RingTypes, CallTypes, LogTypes, FileTypes,
       HeldAreItems, InRing, ringVars, callVars, fileVars
<1> QED BY <1>1, <1>2, <1>3, <1>4, <1>5, <1>6, <1>7, <1>8, <1>9, <1>10, <1>11
        DEF Next, Call, Run

(***************************************************************************)
(* Types, and with them that dequeue only ever returns what was pushed     *)
(* (logrotator.h:50-59), for rings of any size.                            *)
(***************************************************************************)
THEOREM RotatorTypes == Safety => []TypeOK
<1>1. Safety => []Typed
  BY TypedInit, TypedStep, PTL DEF Safety
<1> QED BY <1>1, PTL DEF Typed

-----------------------------------------------------------------------------
(* The ring is a queue.                                                    *)
LEMMA CountAndRing ==
  ASSUME RingTypes
  PROVE  /\ Count \in 0 .. BufferSize - 1
         /\ Count = 0 <=> Empty
         /\ Count = BufferSize - 1 <=> Full
<1>1. m_head \in 0 .. BufferSize - 1 /\ m_tail \in 0 .. BufferSize - 1
  BY DEF RingTypes, Slots
<1>2. After(m_head) = IF m_head = BufferSize - 1 THEN 0 ELSE m_head + 1
  BY AfterWraps DEF RingTypes
<1>3. Count \in 0 .. BufferSize - 1 /\ (Count = 0 <=> Empty)
  BY <1>1 DEF Count, Empty
<1>4. Count = BufferSize - 1 <=> Full
  BY <1>1, <1>2 DEF Count, Full
<1> QED BY <1>3, <1>4

(* Where the n-th of the held items is.                                    *)
Slot(n) == (m_tail + (n - 1)) % BufferSize

LEMMA IndexWraps ==
  ASSUME NEW i \in Slots, NEW n \in 1 .. BufferSize
  PROVE  /\ (i + (n - 1)) % BufferSize \in Slots
         /\ (i + (n - 1)) % BufferSize =
              IF i + (n - 1) < BufferSize THEN i + (n - 1)
              ELSE i + (n - 1) - BufferSize
<1>1. CASE i + (n - 1) < BufferSize
  BY <1>1 DEF Slots
<1>2. CASE i + (n - 1) >= BufferSize
  BY <1>2 DEF Slots
<1> QED BY <1>1, <1>2 DEF Slots

LEMMA SlotWraps ==
  ASSUME m_tail \in Slots, NEW n \in 1 .. BufferSize
  PROVE  /\ Slot(n) \in Slots
         /\ Slot(n) = IF m_tail + (n - 1) < BufferSize THEN m_tail + (n - 1)
                      ELSE m_tail + (n - 1) - BufferSize
BY IndexWraps DEF Slot

HeldInOrder ==
  /\ Held \in Seq(Items)
  /\ Len(Held) = Count
  /\ \A n \in 1 .. Count : Held[n] = m_buffer[Slot(n)]

LEMMA HeldIsSequence == Typed => HeldInOrder
<1> SUFFICES ASSUME Typed PROVE HeldInOrder
  OBVIOUS
<1>1. RingTypes /\ m_tail \in 0 .. BufferSize - 1 /\ m_head \in 0 .. BufferSize - 1
  BY DEF Typed, TypeOK, RingTypes, Slots
<1>2. Count \in 0 .. BufferSize - 1
  BY <1>1, CountAndRing
<1>3. ASSUME NEW n \in 1 .. Count PROVE m_buffer[Slot(n)] \in Items
  <2>1. Slot(n) \in Slots
        /\ Slot(n) = IF m_tail + (n - 1) < BufferSize THEN m_tail + (n - 1)
                     ELSE m_tail + (n - 1) - BufferSize
    BY <1>1, <1>2, SlotWraps DEF Slots
  <2>2. InRing(Slot(n))
    BY <1>1, <1>2, <2>1 DEF InRing, Count
  <2> QED BY <2>1, <2>2 DEF Typed, HeldAreItems
<1>4. Held = [n \in 1 .. Count |-> m_buffer[Slot(n)]]
  BY DEF Held, Slot
<1>5. Held \in [1 .. Count -> Items]
  BY <1>3, <1>4
<1> QED BY <1>2, <1>4, <1>5 DEF HeldInOrder

(* Sequences that agree with an Append or a Tail.                          *)
LEMMA IsAppend ==
  ASSUME NEW S, NEW s \in Seq(S), NEW t \in Seq(S), NEW x \in S,
         Len(t) = Len(s) + 1, t[Len(t)] = x,
         \A n \in 1 .. Len(s) : t[n] = s[n]
  PROVE  t = Append(s, x)
OBVIOUS

LEMMA IsTail ==
  ASSUME NEW S, NEW s \in Seq(S), NEW t \in Seq(S), s # <<>>,
         Len(t) = Len(s) - 1,
         \A n \in 1 .. Len(t) : t[n] = s[n + 1]
  PROVE  t = Tail(s)
OBVIOUS

LEMMA EnqueuePushes ==
  ASSUME Typed, Typed', NEW t \in Threads, Enqueue(t)
  PROVE  /\ item[t] \in Items
         /\ Count' = Count + 1
         /\ Held' = Append(Held, item[t])
<1>1. /\ item[t] \in Items /\ ~Full /\ m_tail' = m_tail
      /\ m_buffer' = [m_buffer EXCEPT ![m_head] = item[t]]
      /\ m_head' = After(m_head)
      /\ m_buffer \in [Slots -> Items \cup {None}]
      /\ m_head \in Slots /\ m_tail \in Slots
  BY DEF Enqueue, Typed, TypeOK, RingTypes, CallTypes
<1>2. m_head' = IF m_head = BufferSize - 1 THEN 0 ELSE m_head + 1
  BY <1>1, AfterWraps
<1>3. Count \in 0 .. BufferSize - 2
  BY <1>1, CountAndRing DEF Typed, TypeOK
<1>4. Count' = Count + 1
  BY <1>1, <1>2, <1>3 DEF Count, Slots
<1>5. \A n \in 1 .. Count + 1 : Slot(n)' = Slot(n) /\ Slot(n) \in Slots
  BY <1>1, <1>3, SlotWraps DEF Slot
<1>6. Slot(Count + 1) = m_head
  <2>1. Slot(Count + 1) = IF m_tail + Count < BufferSize THEN m_tail + Count
                          ELSE m_tail + Count - BufferSize
    BY <1>1, <1>3, SlotWraps
  <2> QED BY <1>1, <2>1 DEF Count, Slots
<1>7. \A n \in 1 .. Count : Slot(n) # m_head
  <2> SUFFICES ASSUME NEW n \in 1 .. Count PROVE Slot(n) # m_head
    OBVIOUS
  <2>1. Slot(n) = IF m_tail + (n - 1) < BufferSize THEN m_tail + (n - 1)
                  ELSE m_tail + (n - 1) - BufferSize
    BY <1>1, <1>3, SlotWraps
  <2> QED BY <1>1, <1>3, <2>1 DEF Count, Slots
<1>8. /\ Held \in Seq(Items) /\ Len(Held) = Count
      /\ \A n \in 1 .. Count : Held[n] = m_buffer[Slot(n)]
  BY HeldIsSequence DEF HeldInOrder
<1>9. /\ Held' \in Seq(Items) /\ Len(Held') = Count + 1
      /\ \A n \in 1 .. Count + 1 : Held'[n] = m_buffer'[Slot(n)']
  <2>1. HeldInOrder'
    BY HeldIsSequence, PTL
  <2> QED BY <1>4, <2>1 DEF HeldInOrder
<1>10. \A n \in 1 .. Count : Held'[n] = Held[n]
  BY <1>1, <1>3, <1>5, <1>7, <1>8, <1>9
<1>11. Held'[Count + 1] = item[t]
  BY <1>1, <1>3, <1>5, <1>6, <1>9
<1>12. Held' = Append(Held, item[t])
  BY <1>1, <1>3, <1>8, <1>9, <1>10, <1>11, IsAppend
<1> QED BY <1>1, <1>4, <1>12

LEMMA DequeueDrains ==
  ASSUME Typed, Typed', Dequeue
  PROVE  /\ Held # <<>> /\ message' = Head(Held)
         /\ Count' = Count - 1
         /\ Held' = Tail(Held)
<1>1. /\ ~Empty /\ m_head' = m_head /\ m_buffer' = m_buffer
      /\ m_tail' = After(m_tail) /\ message' = m_buffer[m_tail]
      /\ m_head \in Slots /\ m_tail \in Slots
  BY DEF Dequeue, Typed, TypeOK, RingTypes
<1>2. m_tail' = IF m_tail = BufferSize - 1 THEN 0 ELSE m_tail + 1
  BY <1>1, AfterWraps
<1>3. Count \in 1 .. BufferSize - 1
  BY <1>1, CountAndRing DEF Typed, TypeOK
<1>4. Count' = Count - 1
  BY <1>1, <1>2, <1>3 DEF Count, Slots
<1>5. Slot(1) = m_tail
  <2>1. Slot(1) = IF m_tail + 0 < BufferSize THEN m_tail + 0
                  ELSE m_tail + 0 - BufferSize
    BY <1>1, SlotWraps
  <2> QED BY <1>1, <2>1 DEF Slots
<1>6. \A n \in 1 .. Count - 1 : Slot(n)' = Slot(n + 1)
  <2> SUFFICES ASSUME NEW n \in 1 .. Count - 1 PROVE Slot(n)' = Slot(n + 1)
    OBVIOUS
  <2>1. n \in 1 .. BufferSize /\ n + 1 \in 1 .. BufferSize /\ m_tail' \in Slots
    BY <1>1, <1>2, <1>3 DEF Slots
  <2>2. Slot(n + 1) = IF m_tail + n < BufferSize THEN m_tail + n
                      ELSE m_tail + n - BufferSize
    BY <1>1, <2>1, SlotWraps DEF Slots
  <2>3. Slot(n)' = IF m_tail' + (n - 1) < BufferSize THEN m_tail' + (n - 1)
                   ELSE m_tail' + (n - 1) - BufferSize
    BY <2>1, IndexWraps DEF Slot
  <2> QED BY <1>1, <1>2, <2>1, <2>2, <2>3 DEF Slots
<1>7. /\ Held \in Seq(Items) /\ Len(Held) = Count
      /\ \A n \in 1 .. Count : Held[n] = m_buffer[Slot(n)]
  BY HeldIsSequence DEF HeldInOrder
<1>8. /\ Held' \in Seq(Items) /\ Len(Held') = Count - 1
      /\ \A n \in 1 .. Count - 1 : Held'[n] = m_buffer'[Slot(n)']
  <2>1. HeldInOrder'
    BY HeldIsSequence, PTL
  <2> QED BY <1>4, <2>1 DEF HeldInOrder
<1>9. Held # <<>> /\ message' = Head(Held)
  BY <1>1, <1>3, <1>5, <1>7
<1>10. \A n \in 1 .. Count - 1 : Held'[n] = Held[n + 1]
  BY <1>1, <1>3, <1>6, <1>7, <1>8
<1>11. Held' = Tail(Held)
  BY <1>3, <1>7, <1>8, <1>9, <1>10, IsTail
<1> QED BY <1>4, <1>9, <1>11

LEMMA HeldUnchanged ==
  ASSUME UNCHANGED ringVars
  PROVE  Held' = Held /\ Count' = Count
BY DEF ringVars, Held, Count

(* Every step pushes, drains or leaves the queue alone.                    *)
LEMMA QueueStep ==
  ASSUME Typed, Typed', [Next]_vars
  PROVE  [Queue!Next]_<<Held, taken>>
<1>1. ASSUME NEW t \in Threads, Enqueue(t) PROVE Queue!Next
  <2>1. Len(Held) < BufferSize - 1
    <3>1. ~Full
      BY <1>1 DEF Enqueue
    <3> QED BY <3>1, CountAndRing, HeldIsSequence DEF HeldInOrder, Typed, TypeOK
  <2>2. taken' = taken
    BY <1>1 DEF Enqueue
  <2>3. Queue!Push(item[t]) /\ item[t] \in Items
    BY <1>1, <2>1, <2>2, EnqueuePushes DEF Queue!Push
  <2> QED BY <2>3 DEF Queue!Next
<1>2. CASE Dequeue
  <2>1. taken' = Append(taken, message')
    BY <1>2 DEF Dequeue
  <2> QED BY <1>2, <2>1, DequeueDrains DEF Queue!Next, Queue!Drain
<1>3. CASE UNCHANGED <<ringVars, taken>>
  BY <1>3, HeldUnchanged
<1>4. \/ \E t \in Threads : Enqueue(t)
      \/ Dequeue
      \/ UNCHANGED <<ringVars, taken>>
  BY DEF Next, Call, Run, Leave, LogMessage, EnqueueWaits, DequeueWaits,
         Startup, Log, RotateIfNecessary, Finish, ExecReturns, IoThreadEnds,
         Stop, Wait, Exit, vars
<1> QED BY <1>1, <1>2, <1>3, <1>4

(***************************************************************************)
(* The ring buffer implements the queue of capacity BufferSize - 1         *)
(* (logrotator.h:26-29), for any size and any number of threads.           *)
(***************************************************************************)
THEOREM RingIsAQueue == Safety => DrainsLikeAQueue
<1>1. Init => Queue!Init
  <2> SUFFICES ASSUME Init PROVE Held = <<>> /\ taken = <<>>
    BY DEF Queue!Init
  <2>1. Count = 0
    BY DEF Init, Count
  <2> QED BY <2>1 DEF Init, Held
<1>2. Safety => []Typed
  BY TypedInit, TypedStep, PTL DEF Safety
<1>3. Typed /\ Typed' /\ [Next]_vars => [Queue!Next]_<<Held, taken>>
  BY QueueStep
<1> QED BY <1>1, <1>2, <1>3, PTL DEF Safety, DrainsLikeAQueue, Queue!Spec

-----------------------------------------------------------------------------
(* No wake-up is lost.                                                     *)

(* Between exec's return and Stop main has nothing to say.                 *)
MainIsSilent == stage \in {"quitting", "waited"} => thread[Main] = "running"

Woken == Typed /\ MainIsSilent /\ NobodyIsForgotten

LEMMA PushingCounts ==
  /\ IsFiniteSet(Pushing) /\ Cardinality(Pushing) \in Nat
  /\ \A t \in Threads \ Pushing :
       Cardinality(Pushing \cup {t}) = Cardinality(Pushing) + 1
  /\ \A t \in Pushing :
       Cardinality(Pushing \ {t}) = Cardinality(Pushing) - 1
<1>1. IsFiniteSet(Pushing)
  BY FS_Subset DEF Pushing
<1> QED BY <1>1, FS_CardinalityType, FS_AddElement, FS_RemoveElement

LEMMA WokenInit == Init => Woken
BY TypedInit DEF Init, Woken, MainIsSilent, NobodyIsForgotten, Asleep

LEMMA WokenStep == Woken /\ Typed' /\ [Next]_vars => Woken'
<1> SUFFICES ASSUME Woken, Typed', [Next]_vars PROVE Woken'
  OBVIOUS
<1> USE DEF Woken
<1> DEFINE Free == BufferSize - 1 - Count
<1>1. /\ Free \in 0 .. BufferSize - 1 /\ thread \in [Threads -> {"running", "pushing", "asleep", "ended"}]
      /\ Count \in Int /\ (Full => Free = 0)
  BY CountAndRing DEF Typed, TypeOK, CallTypes
<1> HIDE DEF Free
<1>2. ASSUME NEW t \in Threads, LogMessage(t) PROVE Woken'
  <2>1. Pushing' = Pushing \cup {t} /\ t \notin Pushing /\ Asleep' = Asleep
    BY <1>1, <1>2 DEF LogMessage, Pushing, Asleep
  <2>2. Cardinality(Pushing') = Cardinality(Pushing) + 1
    BY <2>1, PushingCounts
  <2>3. Count' = Count /\ Empty' = Empty /\ pc' = pc
    BY <1>2, HeldUnchanged DEF LogMessage, ringVars, Empty
  <2>4. MainIsSilent'
    BY <1>1, <1>2 DEF LogMessage, MainIsSilent
  <2>5. NobodyIsForgotten'
    BY <1>1, <2>1, <2>2, <2>3, PushingCounts DEF NobodyIsForgotten, Free
  <2> QED BY <2>4, <2>5
<1>3. ASSUME NEW t \in Threads, EnqueueWaits(t) PROVE Woken'
  <2>1. Count' = Count /\ Empty' = Empty /\ pc' = pc /\ Free = 0
    BY <1>1, <1>3, HeldUnchanged DEF EnqueueWaits, ringVars, Empty
  <2>2. Cardinality(Pushing') \in Nat
    <3>1. IsFiniteSet(Pushing')
      BY FS_Subset DEF Pushing
    <3> QED BY <3>1, FS_CardinalityType
  <2>3. MainIsSilent'
    BY <1>1, <1>3 DEF EnqueueWaits, MainIsSilent
  <2> QED BY <1>1, <2>1, <2>2, <2>3 DEF NobodyIsForgotten, Free
<1>4. ASSUME NEW t \in Threads, Enqueue(t) PROVE Woken'
  <2>1. Pushing' = Pushing \ {t} /\ t \in Pushing /\ Asleep' = Asleep
    BY <1>1, <1>4 DEF Enqueue, Pushing, Asleep
  <2>2. Cardinality(Pushing') = Cardinality(Pushing) - 1
    BY <2>1, PushingCounts
  <2>3. Count' = Count + 1
    BY <1>4, EnqueuePushes
  <2>4. pc' # "asleep"
    BY <1>4 DEF Enqueue, WakeLogThread
  <2>5. MainIsSilent'
    BY <1>1, <1>4 DEF Enqueue, MainIsSilent
  <2> QED BY <1>1, <2>1, <2>2, <2>3, <2>4, <2>5, PushingCounts
          DEF NobodyIsForgotten, Free
<1>5. CASE DequeueWaits
  <2>1. /\ Count' = Count /\ Empty' = Empty /\ Empty
        /\ Pushing' = Pushing /\ Asleep' = Asleep
    BY <1>5, HeldUnchanged
       DEF DequeueWaits, ringVars, callVars, Empty, Pushing, Asleep
  <2>2. MainIsSilent'
    BY <1>5 DEF DequeueWaits, callVars, MainIsSilent
  <2> QED BY <2>1, <2>2 DEF NobodyIsForgotten
<1>6. CASE Dequeue
  <2>1. Count' = Count - 1
    BY <1>6, DequeueDrains
  <2>2. pc' # "asleep"
    BY <1>6 DEF Dequeue
  <2>3. MainIsSilent'
    BY <1>1, <1>6 DEF Dequeue, WakeProducer, Asleep, MainIsSilent
  <2>4. Asleep' # {} => Cardinality(Pushing') >= Free + 1
    <3>1. CASE Asleep = {}
      BY <1>6, <3>1 DEF Dequeue, WakeProducer, Asleep
    <3>2. CASE Asleep # {}
      <4>1. PICK t \in Asleep : thread' = [thread EXCEPT ![t] = "pushing"]
        BY <1>6, <3>2 DEF Dequeue, WakeProducer
      <4>2. Pushing' = Pushing \cup {t} /\ t \in Threads \ Pushing
        BY <1>1, <4>1 DEF Pushing, Asleep
      <4>3. Cardinality(Pushing') = Cardinality(Pushing) + 1
        BY <4>2, PushingCounts
      <4> QED BY <1>1, <3>2, <4>3, PushingCounts DEF NobodyIsForgotten, Free
    <3> QED BY <3>1, <3>2
  <2> QED BY <1>1, <2>1, <2>2, <2>3, <2>4 DEF NobodyIsForgotten, Free
<1>7. CASE Stop
  <2>1. Pushing' = Pushing \cup {Main} /\ Main \in Threads \ Pushing
        /\ Asleep' = Asleep
    BY <1>1, <1>7 DEF Stop, Pushing, Asleep, MainIsSilent
  <2>2. Cardinality(Pushing') = Cardinality(Pushing) + 1
    BY <2>1, PushingCounts
  <2>3. Count' = Count /\ Empty' = Empty /\ pc' = pc /\ MainIsSilent'
    BY <1>7, HeldUnchanged DEF Stop, ringVars, Empty, MainIsSilent
  <2> QED BY <1>1, <2>1, <2>2, <2>3, PushingCounts DEF NobodyIsForgotten, Free
<1>8. CASE IoThreadEnds
  <2>1. Pushing' = Pushing /\ Asleep' = Asleep
    BY <1>1, <1>8 DEF IoThreadEnds, Pushing, Asleep
  <2>2. Count' = Count /\ Empty' = Empty /\ pc' = pc
    BY <1>8, HeldUnchanged DEF IoThreadEnds, ringVars, Empty
  <2>3. MainIsSilent'
    BY <1>1, <1>8 DEF IoThreadEnds, MainIsSilent
  <2> QED BY <2>1, <2>2, <2>3 DEF NobodyIsForgotten
<1>9. ASSUME UNCHANGED <<ringVars, thread>>, pc' = pc \/ pc' # "asleep",
             stage' = stage \/ ExecReturns \/ stage' \in {"leaving", "gone"}
      PROVE  Woken'
  <2>1. /\ Count' = Count /\ Empty' = Empty
        /\ Pushing' = Pushing /\ Asleep' = Asleep
    BY <1>9, HeldUnchanged DEF ringVars, Empty, Pushing, Asleep
  <2>2. MainIsSilent'
    BY <1>9 DEF ExecReturns, MainIsSilent
  <2> QED BY <1>9, <2>1, <2>2 DEF NobodyIsForgotten
<1>10. CASE Startup \/ Log \/ RotateIfNecessary \/ Finish
  BY <1>9, <1>10 DEF Startup, Log, RotateIfNecessary, Finish, callVars
<1>11. CASE ExecReturns \/ Wait \/ Exit
  BY <1>9, <1>11 DEF ExecReturns, Wait, Exit, callVars
<1>12. CASE UNCHANGED vars
  BY <1>9, <1>12 DEF vars, callVars
<1> QED BY <1>2, <1>3, <1>4, <1>5, <1>6, <1>7, <1>8, <1>10, <1>11, <1>12
        DEF Next, Call, Run, Leave

(***************************************************************************)
(* No wake-up is lost with wakeOne (logrotator.h:42-57), for any number of *)
(* producers and any size of the ring.                                     *)
(***************************************************************************)
THEOREM NobodyForgotten == Safety => []NobodyIsForgotten
<1>1. Safety => []Typed
  BY TypedInit, TypedStep, PTL DEF Safety
<1>2. Safety => []Woken
  BY <1>1, WokenInit, WokenStep, PTL DEF Safety
<1> QED BY <1>2, PTL DEF Woken

-----------------------------------------------------------------------------
(* The size of the files.                                                  *)

(* The open file has grown since the last look by what was counted.        *)
GrowthIsCounted ==
  m_logFile => Len(files[0]) <= MAX_LOG_FILE_SIZE + m_rotatePollCheck
                                + (IF pc = "rotate" THEN 1 ELSE 0)

Bounded == Typed /\ DiskIsBounded /\ GrowthIsCounted

LEMMA BoundedInit == Init => Bounded
<1> SUFFICES ASSUME Init PROVE Bounded
  OBVIOUS
<1>1. \A i \in Rotations : files[i] # None => Len(files[i]) = 0
  BY DEF Init
<1> QED BY <1>1, TypedInit DEF Init, Bounded, DiskIsBounded, GrowthIsCounted

LEMMA RotateBounds ==
  ASSUME Typed, DiskIsBounded, Rotate
  PROVE  DiskIsBounded' /\ (m_logFile' => Len(files'[0]) = 0)
<1>1. PICK stuck \in SUBSET Present, opens \in BOOLEAN :
        /\ m_logFile' = opens
        /\ files' = IF opens THEN Truncated(stuck) ELSE Shifted(stuck)
  BY DEF Rotate
<1>2. 0 \in Rotations /\ Vacated(stuck) \subseteq Rotations
  BY DEF Rotations, Vacated
<1>3. \A i \in Rotations :
        Shifted(stuck)[i] # None =>
          Len(Shifted(stuck)[i]) <= MAX_LOG_FILE_SIZE + LOG_FILE_POLL_INTERVAL
  BY <1>2 DEF Shifted, DiskIsBounded
<1>4. \A i \in Rotations :
        Truncated(stuck)[i] = IF i = 0 THEN <<>> ELSE Shifted(stuck)[i]
  BY <1>2 DEF Truncated, Shifted
<1> QED BY <1>1, <1>2, <1>3, <1>4 DEF DiskIsBounded

LEMMA BoundedStep == Bounded /\ Typed' /\ [Next]_vars => Bounded'
<1> SUFFICES ASSUME Bounded, Typed', [Next]_vars PROVE Bounded'
  OBVIOUS
<1> USE DEF Bounded
<1>1. /\ m_rotatePollCheck \in 0 .. LOG_FILE_POLL_INTERVAL - 1
      /\ files \in [Rotations -> Seq(Message) \cup {None}]
      /\ m_logFile => files[0] \in Seq(Message) /\ files[0] # None
      /\ 0 \in Rotations
  BY DEF Typed, TypeOK, FileTypes, Rotations
<1>2. CASE Startup
  <2>1. DiskIsBounded' /\ (m_logFile' => Len(files'[0]) = 0)
    BY <1>2, RotateBounds DEF Startup
  <2>2. pc' = "dequeue" /\ m_rotatePollCheck' = m_rotatePollCheck
    BY <1>2 DEF Startup
  <2> QED BY <1>1, <2>1, <2>2 DEF GrowthIsCounted
<1>3. CASE Log
  <2>1. CASE m_logFile
    <3>1. /\ files' = [files EXCEPT ![0] = Append(@, message)]
          /\ m_logFile' = m_logFile /\ m_rotatePollCheck' = m_rotatePollCheck
          /\ pc = "write" /\ pc' = "rotate" /\ message \in Message
      BY <1>3, <2>1 DEF Log, Typed, TypeOK, LogTypes
    <3>2. Len(files'[0]) = Len(files[0]) + 1
      BY <1>1, <2>1, <3>1
    <3>3. Len(files[0]) <= MAX_LOG_FILE_SIZE + m_rotatePollCheck
      BY <1>1, <2>1, <3>1 DEF GrowthIsCounted
    <3>4. Len(files[0]) \in Nat
      BY <1>1, <2>1
    <3>5. \A i \in Rotations \ {0} : files'[i] = files[i]
      BY <1>1, <3>1
    <3> QED BY <1>1, <3>1, <3>2, <3>3, <3>4, <3>5
            DEF DiskIsBounded, GrowthIsCounted
  <2>2. CASE ~m_logFile
    BY <1>3, <2>2 DEF Log, DiskIsBounded, GrowthIsCounted
  <2> QED BY <2>1, <2>2
<1>4. CASE RotateIfNecessary
  <2> DEFINE due == m_rotatePollCheck + 1 >= LOG_FILE_POLL_INTERVAL
  <2>1. CASE due /\ Size > MAX_LOG_FILE_SIZE
    <3>1. DiskIsBounded' /\ (m_logFile' => Len(files'[0]) = 0)
      BY <1>4, <2>1, RotateBounds DEF RotateIfNecessary
    <3>2. pc' = "dequeue" /\ m_rotatePollCheck' = 0
      BY <1>4, <2>1 DEF RotateIfNecessary
    <3> QED BY <3>1, <3>2 DEF GrowthIsCounted
  <2>2. CASE ~(due /\ Size > MAX_LOG_FILE_SIZE)
    <3>1. UNCHANGED <<m_logFile, files>> /\ pc' = "dequeue" /\ pc = "rotate"
          /\ m_rotatePollCheck' = IF due THEN 0 ELSE m_rotatePollCheck + 1
      BY <1>4, <2>2 DEF RotateIfNecessary
    <3>2. m_logFile => Size = Len(files[0]) /\ Len(files[0]) \in Nat
      BY <1>1 DEF Size
    <3>3. m_logFile => Len(files[0]) <= MAX_LOG_FILE_SIZE + m_rotatePollCheck + 1
      BY <3>1 DEF GrowthIsCounted
    <3>4. GrowthIsCounted'
      BY <1>1, <2>2, <3>1, <3>2, <3>3 DEF GrowthIsCounted
    <3> QED BY <3>1, <3>4 DEF DiskIsBounded
  <2> QED BY <2>1, <2>2
<1>5. CASE Finish
  BY <1>5 DEF Finish, DiskIsBounded, GrowthIsCounted
<1>6. ASSUME UNCHANGED fileVars, pc' = pc \/ (pc # "rotate" /\ pc' # "rotate")
      PROVE  Bounded'
  BY <1>6 DEF fileVars, DiskIsBounded, GrowthIsCounted
<1>7. ASSUME NEW t \in Threads, LogMessage(t) \/ EnqueueWaits(t)
      PROVE  Bounded'
  BY <1>6, <1>7 DEF LogMessage, EnqueueWaits
<1>8. ASSUME NEW t \in Threads, Enqueue(t) PROVE Bounded'
  BY <1>6, <1>8 DEF Enqueue, WakeLogThread
<1>9. CASE Dequeue \/ DequeueWaits
  BY <1>6, <1>9 DEF Dequeue, DequeueWaits
<1>10. CASE ExecReturns \/ Leave
  BY <1>6, <1>10 DEF ExecReturns, Leave, IoThreadEnds, Stop, Wait, Exit
<1>11. CASE UNCHANGED vars
  BY <1>6, <1>11 DEF vars
<1> QED BY <1>2, <1>3, <1>4, <1>5, <1>7, <1>8, <1>9, <1>10, <1>11
        DEF Next, Call, Run

(***************************************************************************)
(* No file outgrows the limit by more than what is logged between two      *)
(* looks at it (logrotator.cpp:128-142), whatever renaming or opening      *)
(* fails.                                                                  *)
(***************************************************************************)
THEOREM DiskBounded == Safety => []DiskIsBounded
<1>1. Safety => []Typed
  BY TypedInit, TypedStep, PTL DEF Safety
<1>2. Safety => []Bounded
  BY <1>1, BoundedInit, BoundedStep, PTL DEF Safety
<1> QED BY <1>2, PTL DEF Bounded

-----------------------------------------------------------------------------
(* Stopping loses nothing: the sentinel comes behind all that main and the *)
(* io thread have to say.                                                  *)
Msg(t, n) == [from |-> t, nr |-> n]

Waiting(m) == \E i \in 1 .. Len(Held) : Held[i] = m

(* A message is pushed by the thread it is from, and is on its way.        *)
CallsInOrder ==
  \A t \in Threads :
    /\ thread[t] \in {"running", "ended"} => item[t] = None
    /\ \/ item[t] = None
       \/ item[t] = Sentinel /\ t = Main
       \/ \E n \in 1 .. said[t] : item[t] = Msg(t, n)
    /\ \A n \in 1 .. said[t] :
         Took(Msg(t, n)) \/ Waiting(Msg(t, n)) \/ item[t] = Msg(t, n)

BeforeStop ==
  /\ MainIsSilent
  /\ stage = "waited" => thread[Io] = "ended"
  /\ stage \in {"up", "quitting", "waited"} =>
       /\ item[Main] # Sentinel /\ ~Waiting(Sentinel)
       /\ pc \notin {"closing", "finished"}

WhileStopping ==
  stage = "stopping" =>
    /\ thread[Io] = "ended"
    /\ item[Main] \in {None, Sentinel}
    /\ item[Main] = Sentinel =>
         ~Waiting(Sentinel) /\ pc \notin {"closing", "finished"}
    /\ \A i, j \in 1 .. Len(Held) :
         i < j /\ Held[i] = Sentinel =>
           \A t \in {Main, Io} : \A n \in Nat : Held[j] # Msg(t, n)
    /\ pc \in {"closing", "finished"} =>
         \A t \in {Main, Io} : \A n \in 1 .. said[t] : ~Waiting(Msg(t, n))

Flow == Typed /\ CallsInOrder /\ BeforeStop /\ WhileStopping

LEMMA MessagesDiffer ==
  ASSUME NEW t \in Threads, NEW n \in Nat
  PROVE  /\ \A u \in Threads, k \in Nat : Msg(t, n) = Msg(u, k) => t = u /\ n = k
         /\ n \in 1 .. MaxMessages => Msg(t, n) \in Message
                                      /\ Msg(t, n) \notin {None, Sentinel}
BY DEF Msg, Message

(* What a push and a drain do to what is waiting and what was taken.       *)
LEMMA EnqueueWaiting ==
  ASSUME Typed, Typed', NEW t \in Threads, Enqueue(t)
  PROVE  /\ Len(Held') = Len(Held) + 1 /\ Len(Held) \in Nat
         /\ \A i \in 1 .. Len(Held) : Held'[i] = Held[i]
         /\ Held'[Len(Held) + 1] = item[t]
         /\ \A m : Waiting(m)' <=> Waiting(m) \/ m = item[t]
<1>1. Held \in Seq(Items) /\ Held' = Append(Held, item[t]) /\ item[t] \in Items
  BY EnqueuePushes, HeldIsSequence DEF HeldInOrder
<1>2. /\ Len(Held') = Len(Held) + 1 /\ Len(Held) \in Nat
      /\ \A i \in 1 .. Len(Held) : Held'[i] = Held[i]
      /\ Held'[Len(Held) + 1] = item[t]
  BY <1>1
<1>3. \A m : Waiting(m)' <=> Waiting(m) \/ m = item[t]
  BY <1>2 DEF Waiting
<1> QED BY <1>2, <1>3

LEMMA DequeueWaiting ==
  ASSUME Typed, Typed', Dequeue
  PROVE  /\ Len(Held') = Len(Held) - 1 /\ Len(Held) \in Nat \ {0}
         /\ \A i \in 1 .. Len(Held) - 1 : Held'[i] = Held[i + 1]
         /\ Held[1] = message'
         /\ \A m : Waiting(m) <=> Waiting(m)' \/ m = message'
         /\ \A m : Took(m)' <=> Took(m) \/ m = message'
<1>1. Held \in Seq(Items) /\ Held # <<>> /\ Held' = Tail(Held)
      /\ message' = Head(Held)
  BY DequeueDrains, HeldIsSequence DEF HeldInOrder
<1>2. /\ Len(Held') = Len(Held) - 1 /\ Len(Held) \in Nat \ {0}
      /\ \A i \in 1 .. Len(Held) - 1 : Held'[i] = Held[i + 1]
      /\ Held[1] = message'
  BY <1>1
<1>3. ASSUME NEW m PROVE Waiting(m) <=> Waiting(m)' \/ m = message'
  <2>1. ASSUME NEW i \in 1 .. Len(Held), Held[i] = m
        PROVE  Waiting(m)' \/ m = message'
    <3>1. CASE i = 1
      BY <1>2, <2>1, <3>1
    <3>2. CASE i # 1
      <4>1. i - 1 \in 1 .. Len(Held) - 1 /\ Held'[i - 1] = m
        BY <1>2, <2>1, <3>2
      <4> QED BY <1>2, <4>1 DEF Waiting
    <3> QED BY <3>1, <3>2
  <2>2. ASSUME NEW i \in 1 .. Len(Held'), Held'[i] = m PROVE Waiting(m)
    <3>1. i + 1 \in 1 .. Len(Held) /\ Held[i + 1] = m
      BY <1>2, <2>2
    <3> QED BY <3>1 DEF Waiting
  <2>3. m = message' => Waiting(m)
    BY <1>2 DEF Waiting
  <2> QED BY <2>1, <2>2, <2>3 DEF Waiting
<1>4. ASSUME NEW m PROVE Took(m)' <=> Took(m) \/ m = message'
  <2>1. taken \in Seq(Items) /\ message' \in Items /\ taken' = Append(taken, message')
    BY <1>1 DEF Dequeue, Typed, TypeOK, LogTypes
  <2>2. /\ Len(taken) \in Nat /\ Len(taken') = Len(taken) + 1
        /\ taken'[Len(taken) + 1] = message'
        /\ \A i \in 1 .. Len(taken) : taken'[i] = taken[i]
    BY <2>1
  <2> QED BY <2>2 DEF Took
<1> QED BY <1>2, <1>3, <1>4

LEMMA WaitingUnchanged ==
  ASSUME UNCHANGED <<ringVars, taken>>
  PROVE  Held' = Held /\ \A m : (Waiting(m)' <=> Waiting(m)) /\ (Took(m)' <=> Took(m))
BY HeldUnchanged DEF Waiting, Took

LEMMA FlowInit == Init => Flow
<1> SUFFICES ASSUME Init PROVE Flow
  OBVIOUS
<1>1. Typed /\ Held = <<>>
  BY TypedInit DEF Init, Held, Count
<1> QED BY <1>1, NoneIsNoItem
        DEF Init, Flow, CallsInOrder, MainIsSilent, BeforeStop, WhileStopping, Waiting, Items

LEMMA FlowLogMessage ==
  ASSUME Flow, Typed', NEW t \in Threads, LogMessage(t)
  PROVE  Flow'
<1> USE DEF Flow
<1>1. /\ thread[t] = "running" /\ item[t] = None
      /\ said' = [said EXCEPT ![t] = @ + 1]
      /\ item' = [item EXCEPT ![t] = Msg(t, said'[t])]
      /\ thread' = [thread EXCEPT ![t] = "pushing"]
      /\ UNCHANGED <<stage, pc>>
      /\ stage \in {"quitting", "waited", "stopping"} => t # Main
  BY DEF LogMessage, CallsInOrder, Msg
<1>2. /\ said \in [Threads -> 0 .. MaxMessages]
      /\ said'[t] \in 1 .. MaxMessages /\ said'[t] = said[t] + 1
      /\ item \in [Threads -> Items \cup {None}]
      /\ thread \in [Threads -> {"running", "pushing", "asleep", "ended"}]
  BY <1>1 DEF Typed, TypeOK, CallTypes, LogMessage
<1>3. Held' = Held /\ \A m : (Waiting(m)' <=> Waiting(m)) /\ (Took(m)' <=> Took(m))
  BY WaitingUnchanged DEF LogMessage, ringVars
<1>4. CallsInOrder'
  <2> SUFFICES ASSUME NEW u \in Threads
               PROVE /\ thread'[u] \in {"running", "ended"} => item'[u] = None
                     /\ \/ item'[u] = None
                        \/ item'[u] = Sentinel /\ u = Main
                        \/ \E n \in 1 .. said'[u] : item'[u] = Msg(u, n)
                     /\ \A n \in 1 .. said'[u] :
                          Took(Msg(u, n))' \/ Waiting(Msg(u, n))'
                            \/ item'[u] = Msg(u, n)
    BY DEF CallsInOrder
  <2>1. CASE u = t
    <3>1. \A n \in 1 .. said[t] : Took(Msg(t, n)) \/ Waiting(Msg(t, n))
      <4>1. \A n \in 1 .. said[t] : Msg(t, n) # None
        BY <1>2, MessagesDiffer
      <4> QED BY <1>1, <4>1 DEF CallsInOrder
    <3>2. \A n \in 1 .. said'[t] : n \in 1 .. said[t] \/ n = said'[t]
      BY <1>2
    <3> QED BY <1>1, <1>2, <1>3, <2>1, <3>1, <3>2
  <2>2. CASE u # t
    BY <1>1, <1>2, <1>3, <2>2 DEF CallsInOrder
  <2> QED BY <2>1, <2>2
<1>5. BeforeStop'
  BY <1>1, <1>2, <1>3, MessagesDiffer DEF MainIsSilent, BeforeStop
<1>6. WhileStopping'
  <2> SUFFICES ASSUME stage = "stopping" PROVE WhileStopping'
    BY <1>1 DEF WhileStopping
  <2>1. t \notin {Main, Io}
    BY <1>1 DEF WhileStopping
  <2> QED BY <1>1, <1>2, <1>3, <2>1 DEF WhileStopping
<1> QED BY <1>4, <1>5, <1>6

LEMMA FlowEnqueue ==
  ASSUME Flow, Typed', NEW t \in Threads, Enqueue(t)
  PROVE  Flow'
<1> USE DEF Flow
<1>1. /\ thread' = [thread EXCEPT ![t] = "running"]
      /\ item' = [item EXCEPT ![t] = None]
      /\ pc' = pc \/ pc' = "dequeue"
      /\ UNCHANGED <<said, stage, taken>>
      /\ thread[t] = "pushing"
      /\ item \in [Threads -> Items \cup {None}]
      /\ thread \in [Threads -> {"running", "pushing", "asleep", "ended"}]
      /\ said \in [Threads -> 0 .. MaxMessages]
  BY DEF Enqueue, WakeLogThread, Typed, TypeOK, CallTypes
<1>2. /\ Len(Held') = Len(Held) + 1 /\ Len(Held) \in Nat
      /\ \A i \in 1 .. Len(Held) : Held'[i] = Held[i]
      /\ Held'[Len(Held) + 1] = item[t]
      /\ \A m : Waiting(m)' <=> Waiting(m) \/ m = item[t]
  BY EnqueueWaiting
<1>3. \A m : Took(m)' <=> Took(m)
  BY <1>1 DEF Took
<1>4. item[t] \in Items /\ item[t] # None
  BY EnqueuePushes, NoneIsNoItem
<1>5. CallsInOrder'
  BY <1>1, <1>2, <1>3 DEF CallsInOrder
<1>6. t # Main => \E n \in 1 .. said[t] : item[t] = Msg(t, n) /\ n \in 1 .. MaxMessages
  BY <1>1, <1>4 DEF CallsInOrder
<1>7. t # Main => item[t] # Sentinel
  BY <1>6, MessagesDiffer
<1>8. t \notin {Main, Io} =>
        \A u \in {Main, Io} : \A n \in Nat : item[t] # Msg(u, n)
  BY <1>6, MessagesDiffer
<1>9. BeforeStop'
  BY <1>1, <1>2, <1>7, NoneIsNoItem DEF MainIsSilent, BeforeStop, Items
<1>10. WhileStopping'
  <2> SUFFICES ASSUME stage = "stopping" PROVE WhileStopping'
    BY <1>1 DEF WhileStopping
  <2>1. /\ thread[Io] = "ended" /\ t # Io
        /\ item[Main] \in {None, Sentinel}
        /\ item[Main] = Sentinel =>
             ~Waiting(Sentinel) /\ pc \notin {"closing", "finished"}
    BY <1>1 DEF WhileStopping
  <2>2. /\ thread'[Io] = "ended" /\ item'[Main] \in {None, Sentinel}
        /\ item'[Main] = Sentinel =>
             ~Waiting(Sentinel)' /\ pc' \notin {"closing", "finished"}
    BY <1>1, <1>2, <1>7, <2>1, NoneIsNoItem DEF Items
  <2>3. ASSUME NEW i \in 1 .. Len(Held'), NEW j \in 1 .. Len(Held'),
               i < j, Held'[i] = Sentinel,
               NEW u \in {Main, Io}, NEW n \in Nat
        PROVE  Held'[j] # Msg(u, n)
    <3>1. i \in 1 .. Len(Held) /\ Held[i] = Sentinel
      BY <1>2, <2>3
    <3>2. Waiting(Sentinel)
      BY <3>1 DEF Waiting
    <3>3. t # Main
      BY <1>4, <2>1, <3>2
    <3>4. CASE j = Len(Held) + 1
      BY <1>2, <1>8, <2>1, <3>3, <3>4
    <3>5. CASE j # Len(Held) + 1
      <4>1. j \in 1 .. Len(Held) /\ Held'[j] = Held[j]
        BY <1>2, <3>5
      <4> QED BY <2>3, <3>1, <4>1 DEF WhileStopping
    <3> QED BY <3>4, <3>5
  <2>4. ASSUME pc' \in {"closing", "finished"}, NEW u \in {Main, Io},
               NEW n \in 1 .. said'[u]
        PROVE  ~Waiting(Msg(u, n))'
    <3>1. pc \in {"closing", "finished"} /\ n \in 1 .. said[u] /\ n \in Nat
      BY <1>1, <2>4
    <3>2. t # Main
      BY <1>4, <2>1, <3>1
    <3>3. ~Waiting(Msg(u, n))
      BY <3>1 DEF WhileStopping
    <3> QED BY <1>2, <1>8, <2>1, <3>1, <3>2, <3>3
  <2> QED BY <2>2, <2>3, <2>4 DEF WhileStopping
<1> QED BY <1>5, <1>9, <1>10

LEMMA FlowDequeue ==
  ASSUME Flow, Typed', Dequeue
  PROVE  Flow'
<1> USE DEF Flow
<1>1. /\ UNCHANGED <<item, said, stage>>
      /\ pc' = IF message' = Sentinel THEN "closing" ELSE "write"
      /\ item \in [Threads -> Items \cup {None}]
      /\ thread \in [Threads -> {"running", "pushing", "asleep", "ended"}]
      /\ said \in [Threads -> 0 .. MaxMessages]
  BY DEF Dequeue, Typed, TypeOK, CallTypes
<1>2. \A t \in Threads : thread'[t] \in {"running", "ended"} => thread'[t] = thread[t]
  BY <1>1 DEF Dequeue, WakeProducer, Asleep
<1>3. \A t \in Threads : thread[t] \in {"running", "ended"} => thread'[t] = thread[t]
  BY <1>1 DEF Dequeue, WakeProducer, Asleep
<1>4. /\ Len(Held') = Len(Held) - 1 /\ Len(Held) \in Nat \ {0}
      /\ \A i \in 1 .. Len(Held) - 1 : Held'[i] = Held[i + 1]
      /\ Held[1] = message'
      /\ \A m : Waiting(m) <=> Waiting(m)' \/ m = message'
      /\ \A m : Took(m)' <=> Took(m) \/ m = message'
  BY DequeueWaiting
<1>5. CallsInOrder'
  BY <1>1, <1>2, <1>4 DEF CallsInOrder
<1>6. BeforeStop'
  BY <1>1, <1>3, <1>4 DEF MainIsSilent, BeforeStop
<1>7. WhileStopping'
  <2> SUFFICES ASSUME stage = "stopping" PROVE WhileStopping'
    BY <1>1 DEF WhileStopping
  <2>1. thread'[Io] = "ended" /\ item'[Main] \in {None, Sentinel}
    BY <1>1, <1>3 DEF WhileStopping
  <2>2. item'[Main] = Sentinel =>
          ~Waiting(Sentinel)' /\ pc' \notin {"closing", "finished"}
    BY <1>1, <1>4 DEF WhileStopping
  <2>3. ASSUME NEW i \in 1 .. Len(Held'), NEW j \in 1 .. Len(Held'),
               i < j, Held'[i] = Sentinel,
               NEW u \in {Main, Io}, NEW n \in Nat
        PROVE  Held'[j] # Msg(u, n)
    <3>1. /\ i + 1 \in 1 .. Len(Held) /\ j + 1 \in 1 .. Len(Held)
          /\ i + 1 < j + 1
          /\ Held'[i] = Held[i + 1] /\ Held'[j] = Held[j + 1]
      BY <1>4, <2>3
    <3> QED BY <2>3, <3>1 DEF WhileStopping
  <2>4. ASSUME pc' \in {"closing", "finished"}, NEW u \in {Main, Io},
               NEW n \in 1 .. said'[u], Waiting(Msg(u, n))'
        PROVE  FALSE
    <3>1. message' = Sentinel /\ n \in Nat
      BY <1>1, <2>4
    <3>2. PICK j \in 1 .. Len(Held') : Held'[j] = Msg(u, n)
      BY <2>4 DEF Waiting
    <3>3. /\ 1 \in 1 .. Len(Held) /\ j + 1 \in 1 .. Len(Held) /\ 1 < j + 1
          /\ Held[1] = Sentinel /\ Held[j + 1] = Msg(u, n)
      BY <1>4, <3>1, <3>2
    <3> QED BY <3>1, <3>3 DEF WhileStopping
  <2> QED BY <2>1, <2>2, <2>3, <2>4 DEF WhileStopping
<1> QED BY <1>5, <1>6, <1>7

LEMMA FlowStep == Flow /\ Typed' /\ [Next]_vars => Flow'
<1> SUFFICES ASSUME Flow, Typed', [Next]_vars PROVE Flow'
  OBVIOUS
<1> USE DEF Flow
<1>1. /\ item \in [Threads -> Items \cup {None}]
      /\ thread \in [Threads -> {"running", "pushing", "asleep", "ended"}]
  BY DEF Typed, TypeOK, CallTypes
<1>2. ASSUME NEW t \in Threads, LogMessage(t) \/ Enqueue(t) PROVE Flow'
  BY <1>2, FlowLogMessage, FlowEnqueue
<1>3. CASE Dequeue
  BY <1>3, FlowDequeue
<1>4. ASSUME UNCHANGED <<ringVars, taken, item, said, stage>>,
             \A t \in Threads :
               thread'[t] = thread[t] \/ (thread[t] = "pushing" /\ thread'[t] = "asleep"),
             pc' = pc \/ pc' \notin {"closing", "finished"} \/ pc = "closing"
      PROVE  Flow'
  <2>1. Held' = Held /\ \A m : (Waiting(m)' <=> Waiting(m)) /\ (Took(m)' <=> Took(m))
    BY <1>4, WaitingUnchanged
  <2>2. CallsInOrder'
    BY <1>4, <2>1 DEF CallsInOrder
  <2>3. BeforeStop' /\ WhileStopping'
    BY <1>4, <2>1 DEF MainIsSilent, BeforeStop, WhileStopping
  <2> QED BY <2>2, <2>3
<1>5. ASSUME NEW t \in Threads, EnqueueWaits(t) PROVE Flow'
  BY <1>1, <1>4, <1>5 DEF EnqueueWaits
<1>6. CASE DequeueWaits \/ Startup \/ Log \/ RotateIfNecessary \/ Finish
  BY <1>4, <1>6 DEF DequeueWaits, Startup, Log, RotateIfNecessary, Finish, callVars
<1>7. CASE UNCHANGED vars
  BY <1>4, <1>7 DEF vars, callVars
<1>8. ASSUME UNCHANGED <<ringVars, callVars, taken, pc>>,
             \/ stage' = "quitting" /\ stage = "up" /\ thread[Main] = "running"
             \/ stage' \in {"leaving", "gone"}
      PROVE  Flow'
  <2>1. Held' = Held /\ \A m : (Waiting(m)' <=> Waiting(m)) /\ (Took(m)' <=> Took(m))
    BY <1>8, WaitingUnchanged
  <2> QED BY <1>8, <2>1 DEF callVars, CallsInOrder, MainIsSilent, BeforeStop, WhileStopping
<1>9. CASE ExecReturns \/ Wait \/ Exit
  BY <1>8, <1>9 DEF ExecReturns, Wait, Exit
<1>10. CASE IoThreadEnds
  <2>1. /\ thread' = [thread EXCEPT ![Io] = "ended"] /\ thread[Io] = "running"
        /\ stage = "quitting" /\ stage' = "waited"
        /\ UNCHANGED <<item, said, pc>>
    BY <1>10 DEF IoThreadEnds
  <2>2. Held' = Held /\ \A m : (Waiting(m)' <=> Waiting(m)) /\ (Took(m)' <=> Took(m))
    BY <1>10, WaitingUnchanged DEF IoThreadEnds
  <2> QED BY <1>1, <2>1, <2>2 DEF CallsInOrder, MainIsSilent, BeforeStop, WhileStopping
<1>11. CASE Stop
  <2>1. /\ thread' = [thread EXCEPT ![Main] = "pushing"]
        /\ item' = [item EXCEPT ![Main] = Sentinel]
        /\ stage = "waited" /\ stage' = "stopping"
        /\ UNCHANGED <<said, pc>>
    BY <1>11 DEF Stop
  <2>2. Held' = Held /\ \A m : (Waiting(m)' <=> Waiting(m)) /\ (Took(m)' <=> Took(m))
    BY <1>11, WaitingUnchanged DEF Stop
  <2>3. BeforeStop' /\ WhileStopping'
    BY <1>1, <2>1, <2>2 DEF MainIsSilent, BeforeStop, WhileStopping, Waiting
  <2>4. CallsInOrder'
    <3>1. item[Main] = None
      BY <2>1 DEF CallsInOrder, BeforeStop, MainIsSilent
    <3>2. \A n \in 1 .. said[Main] : Msg(Main, n) # None
      <4>1. said[Main] \in 0 .. MaxMessages
        BY DEF Typed, TypeOK, CallTypes
      <4> QED BY <4>1, MessagesDiffer
    <3> QED BY <1>1, <2>1, <2>2, <3>1, <3>2 DEF CallsInOrder
  <2> QED BY <2>3, <2>4
<1> QED BY <1>2, <1>3, <1>5, <1>6, <1>7, <1>9, <1>10, <1>11
        DEF Next, Call, Run, Leave

(***************************************************************************)
(* Once the log thread has ended it has taken all that main and the io     *)
(* thread logged before main asked for the end (main.cpp:279-283), for any *)
(* other threads that log meanwhile and any size of the ring.              *)
(***************************************************************************)
THEOREM StoppingIsSafe == Safety => []StoppingLosesNothing
<1>1. Safety => []Typed
  BY TypedInit, TypedStep, PTL DEF Safety
<1>2. Safety => []Flow
  BY <1>1, FlowInit, FlowStep, PTL DEF Safety
<1>3. Flow => StoppingLosesNothing
  <2> SUFFICES ASSUME Flow, pc = "finished", stage = "stopping",
                      NEW t \in {Main, Io}, NEW n \in 1 .. said[t]
               PROVE  Took(Msg(t, n))
    BY DEF StoppingLosesNothing, Msg
  <2>1. ~Waiting(Msg(t, n))
    BY DEF Flow, WhileStopping
  <2>2. item[t] \in {None, Sentinel}
    BY DEF Flow, WhileStopping, CallsInOrder
  <2>3. said[t] \in 0 .. MaxMessages /\ t \in Threads
    BY DEF Flow, Typed, TypeOK, CallTypes
  <2>4. Msg(t, n) \notin {None, Sentinel}
    BY <2>3, MessagesDiffer
  <2> QED BY <2>1, <2>2, <2>3, <2>4 DEF Flow, CallsInOrder
<1> QED BY <1>2, <1>3, PTL

-----------------------------------------------------------------------------
(* What the files hold of what was logged.                                 *)

(* The log thread has taken nothing before it starts, and writes what it   *)
(* took last.                                                              *)
WritesLastTaken ==
  /\ pc = "startup" => taken = <<>> /\ \A i \in Rotations : Content(i) = <<>>
  /\ pc \in {"write", "closing", "finished"} => taken # <<>>
  /\ pc = "write" => message = taken[Len(taken)]

KeptAreLogged ==
  \A i \in Rotations : \A m \in 1 .. Len(Content(i)) :
    \E a \in 1 .. Len(Logged) : Logged[a] = Content(i)[m]

(* Where each file ends in what was logged; a file that has been renamed   *)
(* was full, or nothing had been logged.                                   *)
CutsAreRight(cut) ==
  /\ cut \in Cuts /\ cut[0] = Len(Logged)
  /\ \A i, j \in 0 .. m_maxRotations + 1 : i <= j => cut[j] <= cut[i]
  /\ \A i \in Rotations : Content(i) = SubSeq(Logged, cut[i + 1] + 1, cut[i])
  /\ \A i \in Rotations \ {0} :
       cut[i] = 0 \/ Len(Content(i)) > MAX_LOG_FILE_SIZE

Complete ==
  ~mishap =>
    /\ pc \in {"dequeue", "asleep", "write", "rotate"} => m_logFile
    /\ \E cut \in Cuts : CutsAreRight(cut)

Filed ==
  Typed /\ WritesLastTaken /\ KeptAreLogged /\ KeptInOrder /\ Complete

LEMMA LastOfSequence ==
  ASSUME NEW S, NEW s \in Seq(S), s # <<>>
  PROVE  /\ SubSeq(s, 1, Len(s) - 1) \in Seq(S)
         /\ Append(SubSeq(s, 1, Len(s) - 1), s[Len(s)]) = s
<1>1. PICK k \in Nat : Len(s) = k + 1 /\ Len(s) - 1 = k
  <2>1. Len(s) \in Nat \ {0}
    OBVIOUS
  <2>2. Len(s) - 1 \in Nat /\ Len(s) = (Len(s) - 1) + 1
    BY <2>1
  <2> QED BY <2>2
<1> DEFINE t == SubSeq(s, 1, k)
<1>2. \A i \in 1 .. k : s[i] \in S
  BY <1>1
<1>3. /\ t \in Seq(S) /\ Len(t) = IF 1 <= k THEN k - 1 + 1 ELSE 0
      /\ \A i \in 1 .. k - 1 + 1 : t[i] = s[1 + i - 1]
  BY <1>2, SubSeqProperties
<1> HIDE DEF t
<1>4. Len(t) = k
  BY <1>3
<1>5. ASSUME NEW i \in 1 .. k PROVE t[i] = s[i]
  <2>1. i \in 1 .. k - 1 + 1 /\ 1 + i - 1 = i
    OBVIOUS
  <2> QED BY <1>3, <2>1
<1>6. Append(t, s[k + 1]) = s
  <2>1. s[k + 1] \in S
    BY <1>1
  <2> QED BY <1>1, <1>3, <1>4, <1>5, <2>1, IsAppend
<1> QED BY <1>1, <1>3, <1>6 DEF t

LEMMA FrontOfAppend ==
  ASSUME NEW S, NEW s \in Seq(S), NEW x \in S
  PROVE  SubSeq(Append(s, x), 1, Len(Append(s, x)) - 1) = s
<1> DEFINE t == Append(s, x)
<1>1. /\ t \in Seq(S) /\ Len(t) = Len(s) + 1 /\ Len(s) \in Nat
      /\ \A i \in 1 .. Len(s) : t[i] = s[i]
  BY AppendProperties
<1> HIDE DEF t
<1>2. /\ SubSeq(t, 1, Len(t) - 1) \in Seq(S)
      /\ Len(SubSeq(t, 1, Len(t) - 1)) = Len(s)
      /\ \A i \in 1 .. Len(s) : SubSeq(t, 1, Len(t) - 1)[i] = s[i]
  BY <1>1, SubSeqProperties
<1>3. SubSeq(t, 1, Len(t) - 1) = s
  BY <1>2, SeqEqual
<1> QED BY <1>3 DEF t

(* Intervals of a sequence, and of one to which something is appended.     *)
LEMMA Interval ==
  ASSUME NEW S, NEW s \in Seq(S), NEW a \in 0 .. Len(s), NEW b \in 0 .. Len(s)
  PROVE  /\ SubSeq(s, a + 1, b) \in Seq(S)
         /\ Len(SubSeq(s, a + 1, b)) = IF a < b THEN b - a ELSE 0
         /\ \A i \in 1 .. b - a : SubSeq(s, a + 1, b)[i] = s[a + i]
<1> DEFINE u == SubSeq(s, a + 1, b)
<1>1. Len(s) \in Nat /\ \A i \in (a + 1) .. b : s[i] \in S
  OBVIOUS
<1>2. /\ u \in Seq(S)
      /\ Len(u) = IF a + 1 <= b THEN b - (a + 1) + 1 ELSE 0
      /\ \A i \in 1 .. b - (a + 1) + 1 : u[i] = s[a + 1 + i - 1]
  <2>1. a + 1 \in Int /\ b \in Int /\ \A i \in (a + 1) .. b : s[i] \in S
    BY <1>1
  <2> QED BY ONLY <2>1, SubSeqProperties
<1> HIDE DEF u
<1>3. ASSUME NEW i \in 1 .. b - a PROVE u[i] = s[a + i]
  <2>1. i \in 1 .. b - (a + 1) + 1 /\ a + 1 + i - 1 = a + i
    BY <1>1
  <2> QED BY <1>2, <2>1
<1>4. Len(u) = IF a < b THEN b - a ELSE 0
  BY <1>1, <1>2
<1> QED BY <1>2, <1>3, <1>4 DEF u

LEMMA IntervalOfAppend ==
  ASSUME NEW S, NEW s \in Seq(S), NEW x \in S,
         NEW a \in 0 .. Len(s), NEW b \in 0 .. Len(s)
  PROVE  SubSeq(Append(s, x), a + 1, b) = SubSeq(s, a + 1, b)
<1> DEFINE t == Append(s, x)
           u == SubSeq(t, a + 1, b)
           v == SubSeq(s, a + 1, b)
<1>1. /\ t \in Seq(S) /\ Len(t) = Len(s) + 1 /\ Len(s) \in Nat
      /\ \A i \in 1 .. Len(s) : t[i] = s[i]
  BY AppendProperties
<1> HIDE DEF t
<1>2. a \in 0 .. Len(t) /\ b \in 0 .. Len(t)
  BY <1>1
<1>3. /\ u \in Seq(S) /\ Len(u) = IF a < b THEN b - a ELSE 0
      /\ \A i \in 1 .. b - a : u[i] = t[a + i]
  <2>1. t \in Seq(S)
    BY <1>1
  <2> QED BY ONLY <1>2, <2>1, Interval
<1>4. /\ v \in Seq(S) /\ Len(v) = IF a < b THEN b - a ELSE 0
      /\ \A i \in 1 .. b - a : v[i] = s[a + i]
  BY Interval
<1> HIDE DEF u, v
<1>5. ASSUME NEW i \in 1 .. Len(u) PROVE u[i] = v[i]
  <2>1. i \in 1 .. b - a /\ a + i \in 1 .. Len(s)
    BY <1>1, <1>3
  <2> QED BY <1>1, <1>3, <1>4, <2>1
<1>6. u = v
  BY <1>3, <1>4, <1>5, SeqEqual
<1> QED BY <1>6 DEF t, u, v

LEMMA IntervalGrows ==
  ASSUME NEW S, NEW s \in Seq(S), NEW x \in S, NEW a \in 0 .. Len(s)
  PROVE  SubSeq(Append(s, x), a + 1, Len(s) + 1)
           = Append(SubSeq(s, a + 1, Len(s)), x)
<1> DEFINE t == Append(s, x)
           u == SubSeq(t, a + 1, Len(t))
           v == SubSeq(s, a + 1, Len(s))
           w == Append(v, x)
<1>1. /\ t \in Seq(S) /\ Len(t) = Len(s) + 1 /\ Len(s) \in Nat
      /\ \A i \in 1 .. Len(s) : t[i] = s[i]
      /\ t[Len(s) + 1] = x
  BY AppendProperties
<1> HIDE DEF t
<1>2. a \in 0 .. Len(t) /\ Len(t) \in 0 .. Len(t) /\ Len(s) \in 0 .. Len(s)
  BY <1>1
<1>3. /\ u \in Seq(S) /\ Len(u) = IF a < Len(t) THEN Len(t) - a ELSE 0
      /\ \A i \in 1 .. Len(t) - a : u[i] = t[a + i]
  <2>1. t \in Seq(S)
    BY <1>1
  <2> QED BY ONLY <1>2, <2>1, Interval
<1>4. /\ v \in Seq(S) /\ Len(v) = IF a < Len(s) THEN Len(s) - a ELSE 0
      /\ \A i \in 1 .. Len(s) - a : v[i] = s[a + i]
  BY <1>2, Interval
<1> HIDE DEF u, v
<1>5. /\ w \in Seq(S) /\ Len(w) = Len(v) + 1 /\ w[Len(v) + 1] = x
      /\ \A i \in 1 .. Len(v) : w[i] = v[i]
  BY <1>4, AppendProperties
<1> HIDE DEF w
<1>6. Len(u) = Len(s) + 1 - a /\ Len(v) = Len(s) - a
  BY <1>1, <1>3, <1>4
<1>7. ASSUME NEW i \in 1 .. Len(u) PROVE u[i] = w[i]
  <2>1. CASE i = Len(s) + 1 - a
    <3>1. u[i] = t[a + i] /\ a + i = Len(s) + 1
      BY <1>1, <1>3, <1>6, <2>1
    <3>2. w[i] = x
      BY <1>5, <1>6, <2>1
    <3> QED BY <1>1, <3>1, <3>2
  <2>2. CASE i # Len(s) + 1 - a
    <3>1. i \in 1 .. Len(s) - a /\ a + i \in 1 .. Len(s)
      BY <1>1, <1>6, <2>2
    <3> QED BY <1>1, <1>3, <1>4, <1>5, <1>6, <3>1
  <2> QED BY <2>1, <2>2
<1>8. Len(u) = Len(w)
  BY <1>1, <1>5, <1>6
<1>9. u = w
  BY <1>3, <1>5, <1>7, <1>8, SeqEqual
<1> QED BY <1>1, <1>9 DEF t, u, v, w

LEMMA LoggedIsSequence ==
  ASSUME Typed, WritesLastTaken
  PROVE  Logged \in Seq(Items) /\ Len(Logged) \in Nat
<1>1. taken \in Seq(Items)
  BY DEF Typed, TypeOK, LogTypes
<1> QED BY <1>1, LastOfSequence DEF Logged, WritesLastTaken

LEMMA ContentIsSequence ==
  ASSUME Typed, NEW i \in Rotations
  PROVE  Content(i) \in Seq(Message) /\ Len(Content(i)) \in Nat
<1>1. Content(i) \in Seq(Message)
  BY <<>> \in Seq(Message) DEF Typed, TypeOK, FileTypes, Content
<1> QED BY <1>1

(* Logging appends the message to the log, and to the file if it is open.  *)
LEMMA LogAppends ==
  ASSUME Filed, Log
  PROVE  /\ message \in Message /\ Logged' = Append(Logged, message)
         /\ \A i \in Rotations :
              Content(i)' = IF m_logFile /\ i = 0 THEN Append(Content(0), message)
                            ELSE Content(i)
<1> USE DEF Filed
<1>1. /\ pc = "write" /\ pc' = "rotate" /\ taken' = taken
      /\ taken \in Seq(Items) /\ taken # <<>> /\ message = taken[Len(taken)]
      /\ message \in Message
      /\ files' = IF m_logFile THEN [files EXCEPT ![0] = Append(@, message)] ELSE files
      /\ files \in [Rotations -> Seq(Message) \cup {None}]
      /\ m_logFile => files[0] # None
      /\ 0 \in Rotations
  BY DEF Log, WritesLastTaken, Typed, TypeOK, LogTypes, FileTypes, Rotations
<1>2. Logged' = Append(Logged, message)
  BY <1>1, LastOfSequence DEF Logged
<1>3. CASE m_logFile
  <2>1. Append(files[0], message) \in Seq(Message)
    BY <1>1, <1>3
  <2> QED BY <1>1, <1>2, <1>3, <2>1, NoneIsNoFile DEF Content
<1>4. CASE ~m_logFile
  BY <1>1, <1>2, <1>4 DEF Content
<1> QED BY <1>3, <1>4

LEMMA LogFiles ==
  ASSUME Filed, Typed', Log
  PROVE  Filed'
<1> USE DEF Filed
<1> DEFINE L == Logged
           n == Len(Logged)
<1>1. /\ message \in Message /\ message \in Items
      /\ L \in Seq(Items) /\ n \in Nat
      /\ Logged' = Append(L, message)
      /\ \A i \in Rotations :
           Content(i)' = IF m_logFile /\ i = 0 THEN Append(Content(0), message)
                         ELSE Content(i)
  BY LogAppends, LoggedIsSequence DEF Items
<1>2. /\ Len(Logged') = n + 1 /\ Logged'[n + 1] = message
      /\ \A a \in 1 .. n : Logged'[a] = L[a]
  BY <1>1, AppendProperties
<1>3. \A i \in Rotations : Content(i) \in Seq(Message) /\ Len(Content(i)) \in Nat
  BY ContentIsSequence
<1>4. 0 \in Rotations
  BY DEF Rotations
<1>5. /\ Len(Append(Content(0), message)) = Len(Content(0)) + 1
      /\ Append(Content(0), message)[Len(Content(0)) + 1] = message
      /\ \A m \in 1 .. Len(Content(0)) :
           Append(Content(0), message)[m] = Content(0)[m]
  BY <1>1, <1>3, <1>4, AppendProperties
<1> HIDE DEF L, n
(* What a file holds now it held before, or it is the message.             *)
<1>6. ASSUME NEW i \in Rotations, NEW m \in 1 .. Len(Content(i)')
      PROVE  \/ m \in 1 .. Len(Content(i)) /\ Content(i)'[m] = Content(i)[m]
             \/ i = 0 /\ m = Len(Content(i)') /\ Content(i)'[m] = message
  <2>1. CASE m_logFile /\ i = 0
    <3>1. Content(i)' = Append(Content(0), message)
      BY <1>1, <2>1
    <3>2. m \in 1 .. Len(Content(0)) \/ m = Len(Content(0)) + 1
      BY <1>3, <1>4, <1>5, <3>1
    <3> QED BY <1>5, <2>1, <3>1, <3>2
  <2>2. CASE ~(m_logFile /\ i = 0)
    BY <1>1, <2>2
  <2> QED BY <2>1, <2>2
<1>7. KeptAreLogged'
  <2> SUFFICES ASSUME NEW i \in Rotations, NEW m \in 1 .. Len(Content(i)')
               PROVE  \E a \in 1 .. n + 1 : Logged'[a] = Content(i)'[m]
    BY <1>2 DEF KeptAreLogged
  <2>1. CASE m \in 1 .. Len(Content(i)) /\ Content(i)'[m] = Content(i)[m]
    <3>1. PICK a \in 1 .. n : L[a] = Content(i)[m]
      BY <2>1 DEF KeptAreLogged, L, n
    <3> QED BY <1>1, <1>2, <2>1, <3>1
  <2>2. CASE Content(i)'[m] = message
    BY <1>1, <1>2, <2>2
  <2> QED BY <1>6, <2>1, <2>2
<1>8. KeptInOrder'
  <2> SUFFICES ASSUME NEW i \in Rotations, NEW j \in Rotations,
                      NEW m \in 1 .. Len(Content(i)'),
                      NEW k \in 1 .. Len(Content(j)'),
                      i > j \/ (i = j /\ m < k)
               PROVE  \E a, b \in 1 .. n + 1 :
                        /\ a < b /\ Logged'[a] = Content(i)'[m]
                        /\ Logged'[b] = Content(j)'[k]
    BY <1>2 DEF KeptInOrder
  <2>1. m \in 1 .. Len(Content(i)) /\ Content(i)'[m] = Content(i)[m]
    <3>1. CASE i = 0 /\ m = Len(Content(i)')
      <4>1. Len(Content(i)') \in Nat /\ i = j
        BY <1>1, <1>3, <1>5, <3>1 DEF Rotations
      <4> QED BY <3>1, <4>1
    <3> QED BY <1>6, <3>1
  <2>2. CASE k \in 1 .. Len(Content(j)) /\ Content(j)'[k] = Content(j)[k]
    <3>1. PICK a \in 1 .. n, b \in 1 .. n :
            a < b /\ L[a] = Content(i)[m] /\ L[b] = Content(j)[k]
      <4>1. m \in 1 .. Len(Content(i)) /\ k \in 1 .. Len(Content(j))
        BY <2>1, <2>2
      <4>2. KeptInOrder
        OBVIOUS
      <4>3. i \in Rotations /\ j \in Rotations /\ (i > j \/ (i = j /\ m < k))
        OBVIOUS
      <4>4. \E a, b \in 1 .. Len(Logged) :
              a < b /\ Logged[a] = Content(i)[m] /\ Logged[b] = Content(j)[k]
        BY ONLY <4>1, <4>2, <4>3 DEF KeptInOrder
      <4> QED BY <4>4 DEF L, n
    <3>2. a \in 1 .. n + 1 /\ b \in 1 .. n + 1
      BY <1>1
    <3> QED BY <1>2, <2>1, <2>2, <3>1, <3>2
  <2>3. CASE Content(j)'[k] = message
    <3>1. PICK a \in 1 .. n : L[a] = Content(i)[m]
      BY <2>1 DEF KeptAreLogged, L, n
    <3>2. a \in 1 .. n + 1 /\ n + 1 \in 1 .. n + 1 /\ a < n + 1
      BY <1>1
    <3> QED BY <1>2, <2>1, <2>3, <3>1, <3>2
  <2> QED BY <1>6, <2>2, <2>3
<1>9. Complete'
  <2> SUFFICES ASSUME ~mishap PROVE m_logFile' /\ \E cut \in Cuts' : CutsAreRight(cut)'
    BY DEF Complete, Log
  <2>1. m_logFile /\ m_logFile' = m_logFile
    BY DEF Complete, Log
  <2>2. PICK cut \in Cuts : CutsAreRight(cut)
    BY DEF Complete
  <2>3. /\ cut \in [0 .. m_maxRotations + 1 -> 0 .. n] /\ cut[0] = n
        /\ \A i, j \in 0 .. m_maxRotations + 1 : i <= j => cut[j] <= cut[i]
        /\ \A i \in Rotations : Content(i) = SubSeq(L, cut[i + 1] + 1, cut[i])
        /\ \A i \in Rotations \ {0} :
             cut[i] = 0 \/ Len(Content(i)) > MAX_LOG_FILE_SIZE
    BY <2>2 DEF CutsAreRight, Cuts, L, n
  <2>4. \A i \in Rotations : i \in 0 .. m_maxRotations + 1 /\ i + 1 \in 0 .. m_maxRotations + 1
    BY DEF Rotations
  <2>5. PICK new \in [0 .. m_maxRotations + 1 -> 0 .. n + 1] :
          /\ new[0] = n + 1
          /\ \A i \in 0 .. m_maxRotations + 1 : i # 0 => new[i] = cut[i]
    <3> DEFINE c == [cut EXCEPT ![0] = n + 1]
    <3>1. c \in [0 .. m_maxRotations + 1 -> 0 .. n + 1]
      BY <1>1, <2>3
    <3>2. /\ c[0] = n + 1
          /\ \A i \in 0 .. m_maxRotations + 1 : i # 0 => c[i] = cut[i]
      BY <1>1, <2>3
    <3> QED BY <3>1, <3>2
  <2>6. new \in Cuts'
    BY <1>2, <2>5 DEF Cuts
  <2>7. ASSUME NEW i \in 0 .. m_maxRotations + 1, NEW j \in 0 .. m_maxRotations + 1,
               i <= j
        PROVE  new[j] <= new[i]
    <3>1. CASE i = 0
      BY <1>1, <2>5, <3>1
    <3>2. CASE i # 0
      <4>1. new[i] = cut[i] /\ new[j] = cut[j]
        BY <2>5, <2>7, <3>2
      <4> QED BY <2>3, <2>7, <4>1
    <3> QED BY <3>1, <3>2
  <2>8. ASSUME NEW i \in Rotations
        PROVE  Content(i)' = SubSeq(Logged', new[i + 1] + 1, new[i])
    <3>1. /\ cut[i] \in 0 .. Len(L) /\ cut[i + 1] \in 0 .. Len(L)
          /\ new[i + 1] = cut[i + 1]
          /\ Content(i) = SubSeq(L, cut[i + 1] + 1, cut[i])
          /\ L \in Seq(Items) /\ message \in Items
      <4>1. n = Len(L) /\ i \in 0 .. m_maxRotations + 1
            /\ i + 1 \in 0 .. m_maxRotations + 1 /\ i + 1 # 0
        BY <2>4 DEF L, n, Rotations
      <4> QED BY <1>1, <2>3, <2>5, <4>1
    <3>2. CASE i = 0
      <4>1. SubSeq(Append(L, message), cut[i + 1] + 1, Len(L) + 1)
              = Append(SubSeq(L, cut[i + 1] + 1, Len(L)), message)
        BY ONLY <3>1, IntervalGrows
      <4>2. Content(i)' = Append(Content(i), message)
        BY <1>1, <2>1, <3>2
      <4>3. cut[i] = Len(L) /\ new[i] = Len(L) + 1
        BY <2>3, <2>5, <3>2 DEF L, n
      <4> QED BY <1>1, <3>1, <4>1, <4>2, <4>3
    <3>3. CASE i # 0
      <4>1. SubSeq(Append(L, message), cut[i + 1] + 1, cut[i])
              = SubSeq(L, cut[i + 1] + 1, cut[i])
        BY ONLY <3>1, IntervalOfAppend
      <4>2. Content(i)' = Content(i) /\ new[i] = cut[i]
        BY <1>1, <2>4, <2>5, <3>3
      <4> QED BY <1>1, <3>1, <4>1, <4>2
    <3> QED BY <3>2, <3>3
  <2>9. \A i \in Rotations \ {0} :
          new[i] = 0 \/ Len(Content(i)') > MAX_LOG_FILE_SIZE
    BY <1>1, <2>3, <2>4, <2>5
  <2>10. CutsAreRight(new)'
    BY <1>2, <2>5, <2>6, <2>7, <2>8, <2>9 DEF CutsAreRight
  <2> QED BY <2>1, <2>6, <2>10
<1>10. WritesLastTaken'
  BY DEF Log, WritesLastTaken
<1> QED BY <1>7, <1>8, <1>9, <1>10

(* Rotating empties a file, leaves it, or makes it the next older one; if  *)
(* no step fails it does so with all of them.                              *)
LEMMA RotateShifts ==
  ASSUME Typed, Rotate
  PROVE  /\ \E moved \in SUBSET Rotations : \A i \in Rotations :
              \/ Content(i)' = <<>>
              \/ i \notin moved /\ Content(i)' = Content(i)
              \/ {i - 1, i} \subseteq moved /\ Content(i)' = Content(i - 1)
         /\ ~mishap' =>
              /\ ~mishap /\ m_logFile'
              /\ \A i \in Rotations :
                   Content(i)' = IF i = 0 THEN <<>> ELSE Content(i - 1)
<1>1. PICK stuck \in SUBSET Present, opens \in BOOLEAN :
        /\ m_logFile' = opens
        /\ files' = IF opens THEN Truncated(stuck) ELSE Shifted(stuck)
        /\ mishap' = (mishap \/ ~opens \/ stuck # {})
  BY DEF Rotate
<1> DEFINE V == Vacated(stuck)
<1>2. V \subseteq Rotations /\ 0 \in Rotations /\ -1 \notin Rotations
  BY DEF Vacated, Rotations
<1>3. \A i \in Rotations :
        Shifted(stuck)[i] = IF i \notin V THEN files[i]
                            ELSE IF i - 1 \in V THEN files[i - 1] ELSE None
  BY DEF Shifted
<1>4. \A i \in Rotations :
        Truncated(stuck)[i] = IF i = 0 THEN <<>> ELSE Shifted(stuck)[i]
  BY <1>2 DEF Truncated, Shifted
<1>5. stuck = {} => V = Rotations
  <2> SUFFICES ASSUME stuck = {}, NEW i \in Rotations PROVE i \in Vacated(stuck)
    BY <1>2
  <2>1. /\ m_maxRotations + 1 \in i .. m_maxRotations + 1
        /\ m_maxRotations + 1 \notin Present
    BY DEF Rotations, Present
  <2> QED BY <2>1 DEF Vacated
<1> HIDE DEF V
<1>6. ASSUME NEW i \in Rotations
      PROVE  \/ Content(i)' = <<>>
             \/ i \notin V /\ Content(i)' = Content(i)
             \/ {i - 1, i} \subseteq V /\ Content(i)' = Content(i - 1)
  <2>1. \/ files'[i] = <<>> \/ files'[i] = None
        \/ i \notin V /\ files'[i] = files[i]
        \/ {i - 1, i} \subseteq V /\ files'[i] = files[i - 1]
    BY <1>1, <1>3, <1>4
  <2> QED BY <2>1, NoneIsNoFile DEF Content
<1>7. ASSUME ~mishap'
      PROVE  /\ ~mishap /\ m_logFile'
             /\ \A i \in Rotations :
                  Content(i)' = IF i = 0 THEN <<>> ELSE Content(i - 1)
  <2>1. ~mishap /\ opens /\ V = Rotations
    BY <1>1, <1>5, <1>7
  <2>2. ASSUME NEW i \in Rotations
        PROVE  files'[i] = IF i = 0 THEN <<>> ELSE files[i - 1]
    <3>1. i # 0 => i - 1 \in Rotations
      BY DEF Rotations
    <3> QED BY <1>1, <1>3, <1>4, <2>1, <3>1
  <2> QED BY <1>1, <2>1, <2>2, NoneIsNoFile DEF Content
<1> QED BY <1>2, <1>6, <1>7

LEMMA RotateFiles ==
  ASSUME Filed, Typed', Rotate, Logged' = Logged, pc' = "dequeue",
         pc = "startup" \/ Len(Content(0)) > MAX_LOG_FILE_SIZE
  PROVE  Filed'
<1> USE DEF Filed
<1>1. /\ Logged \in Seq(Items) /\ Len(Logged) \in Nat /\ Len(Logged') = Len(Logged)
      /\ 0 \in Rotations
  BY LoggedIsSequence DEF Rotations
<1>2. PICK moved \in SUBSET Rotations : \A i \in Rotations :
        \/ Content(i)' = <<>>
        \/ i \notin moved /\ Content(i)' = Content(i)
        \/ {i - 1, i} \subseteq moved /\ Content(i)' = Content(i - 1)
  BY RotateShifts
<1>3. \A i \in Rotations : \A m \in 1 .. Len(Content(i)') : Content(i)' # <<>>
  BY Len(<<>>) = 0
(* Where the messages of a file were before: newer files' in newer ones.   *)
<1>4. ASSUME NEW i \in Rotations, NEW m \in 1 .. Len(Content(i)')
      PROVE  \E k \in Rotations :
               /\ Content(i)' = Content(k) /\ m \in 1 .. Len(Content(k))
               /\ (k = i /\ i \notin moved) \/ (k = i - 1 /\ {k, i} \subseteq moved)
  <2>1. Content(i)' # <<>>
    BY <1>3
  <2>2. CASE i \notin moved /\ Content(i)' = Content(i)
    BY <2>2
  <2>3. CASE {i - 1, i} \subseteq moved /\ Content(i)' = Content(i - 1)
    <3>1. i - 1 \in Rotations
      BY <2>3
    <3> QED BY <2>3, <3>1
  <2> QED BY <1>2, <2>1, <2>2, <2>3
<1>5. KeptAreLogged'
  <2> SUFFICES ASSUME NEW i \in Rotations, NEW m \in 1 .. Len(Content(i)')
               PROVE  \E a \in 1 .. Len(Logged) : Logged[a] = Content(i)'[m]
    BY DEF KeptAreLogged
  <2>1. PICK k \in Rotations : Content(i)' = Content(k) /\ m \in 1 .. Len(Content(k))
    BY <1>4
  <2>2. \E a \in 1 .. Len(Logged) : Logged[a] = Content(k)[m]
    BY <2>1 DEF KeptAreLogged
  <2> QED BY <2>1, <2>2
<1>6. KeptInOrder'
  <2> SUFFICES ASSUME NEW i \in Rotations, NEW j \in Rotations,
                      NEW m \in 1 .. Len(Content(i)'),
                      NEW n \in 1 .. Len(Content(j)'),
                      i > j \/ (i = j /\ m < n)
               PROVE  \E a, b \in 1 .. Len(Logged) :
                        /\ a < b /\ Logged[a] = Content(i)'[m]
                        /\ Logged[b] = Content(j)'[n]
    BY DEF KeptInOrder
  <2>1. PICK k \in Rotations :
          /\ Content(i)' = Content(k) /\ m \in 1 .. Len(Content(k))
          /\ (k = i /\ i \notin moved) \/ (k = i - 1 /\ {k, i} \subseteq moved)
    BY <1>4
  <2>2. PICK l \in Rotations :
          /\ Content(j)' = Content(l) /\ n \in 1 .. Len(Content(l))
          /\ (l = j /\ j \notin moved) \/ (l = j - 1 /\ {l, j} \subseteq moved)
    BY <1>4
  <2>3. k > l \/ (k = l /\ m < n)
    <3>1. CASE i > j
      BY <2>1, <2>2, <3>1 DEF Rotations
    <3>2. CASE i = j /\ m < n
      BY <2>1, <2>2, <3>2 DEF Rotations
    <3> QED BY <3>1, <3>2
  <2>4. \E a, b \in 1 .. Len(Logged) :
          a < b /\ Logged[a] = Content(k)[m] /\ Logged[b] = Content(l)[n]
    BY <2>1, <2>2, <2>3 DEF KeptInOrder
  <2> QED BY <2>1, <2>2, <2>4
<1>7. Complete'
  <2> SUFFICES ASSUME ~mishap'
               PROVE  m_logFile' /\ \E cut \in Cuts' : CutsAreRight(cut)'
    BY DEF Complete
  <2>1. /\ ~mishap /\ m_logFile'
        /\ \A i \in Rotations :
             Content(i)' = IF i = 0 THEN <<>> ELSE Content(i - 1)
    BY RotateShifts
  <2>2. PICK cut \in Cuts : CutsAreRight(cut)
    BY <2>1 DEF Complete
  <2> DEFINE n == Len(Logged)
             ends == 0 .. m_maxRotations + 1
  <2>3. /\ cut \in [ends -> 0 .. n] /\ cut[0] = n
        /\ \A i, j \in ends : i <= j => cut[j] <= cut[i]
        /\ \A i \in Rotations : Content(i) = SubSeq(Logged, cut[i + 1] + 1, cut[i])
        /\ \A i \in Rotations \ {0} :
             cut[i] = 0 \/ Len(Content(i)) > MAX_LOG_FILE_SIZE
    BY <2>2 DEF CutsAreRight, Cuts
  <2>4. /\ 0 \in ends
        /\ \A i \in ends : i # 0 => i - 1 \in ends
        /\ \A i \in Rotations : i \in ends /\ i + 1 \in ends
        /\ \A i \in Rotations : i # 0 => i - 1 \in Rotations
    BY DEF Rotations
  <2>5. PICK new \in [ends -> 0 .. n] :
          /\ new[0] = n
          /\ \A i \in ends : i # 0 => new[i] = cut[i - 1]
    <3> DEFINE c == [i \in ends |-> IF i = 0 THEN n ELSE cut[i - 1]]
    <3>1. c \in [ends -> 0 .. n]
      BY <1>1, <2>3, <2>4
    <3>2. c[0] = n /\ \A i \in ends : i # 0 => c[i] = cut[i - 1]
      BY <2>4
    <3> QED BY <3>1, <3>2
  <2>6. new \in Cuts'
    BY <1>1, <2>5 DEF Cuts
  <2>7. ASSUME NEW i \in ends, NEW j \in ends, i <= j
        PROVE  new[j] <= new[i]
    <3>1. CASE i = 0
      BY <1>1, <2>5, <3>1
    <3>2. CASE i # 0
      <4>1. /\ new[i] = cut[i - 1] /\ new[j] = cut[j - 1]
            /\ i - 1 \in ends /\ j - 1 \in ends /\ i - 1 <= j - 1
        BY <2>4, <2>5, <2>7, <3>2
      <4> QED BY <2>3, <4>1
    <3> QED BY <3>1, <3>2
  <2>8. ASSUME NEW i \in Rotations
        PROVE  Content(i)' = SubSeq(Logged, new[i + 1] + 1, new[i])
    <3>1. i \in ends /\ i + 1 \in ends /\ i + 1 # 0 /\ (i + 1) - 1 = i
      BY <2>4 DEF Rotations
    <3>2. new[i + 1] = cut[i]
      BY <2>5, <3>1
    <3>3. CASE i = 0
      <4>1. new[i] = n /\ cut[i] = n
        BY <2>3, <2>5, <3>3
      <4>2. SubSeq(Logged, n + 1, n) = <<>>
        <5>1. n \in Int /\ n + 1 \in Int /\ n < n + 1
          BY <1>1
        <5> QED BY <5>1, SubSeqEmpty
      <4> QED BY <2>1, <3>2, <3>3, <4>1, <4>2
    <3>4. CASE i # 0
      <4>1. /\ i - 1 \in Rotations /\ (i - 1) + 1 = i
            /\ Content(i)' = Content(i - 1) /\ new[i] = cut[i - 1]
        BY <2>1, <2>4, <2>5, <3>1, <3>4 DEF Rotations
      <4>2. Content(i - 1) = SubSeq(Logged, cut[(i - 1) + 1] + 1, cut[i - 1])
        BY <2>3, <4>1
      <4> QED BY <3>2, <4>1, <4>2
    <3> QED BY <3>3, <3>4
  <2>9. ASSUME NEW i \in Rotations \ {0}
        PROVE  new[i] = 0 \/ Len(Content(i)') > MAX_LOG_FILE_SIZE
    <3>1. /\ i - 1 \in Rotations /\ new[i] = cut[i - 1]
          /\ Content(i)' = Content(i - 1)
      BY <2>1, <2>4, <2>5
    <3>2. CASE i - 1 # 0
      BY <2>3, <3>1, <3>2
    <3>3. CASE i - 1 = 0 /\ pc = "startup"
      <4>1. Logged = <<>>
        BY <3>3 DEF WritesLastTaken, Logged
      <4> QED BY <2>3, <3>1, <3>3, <4>1
    <3>4. CASE i - 1 = 0 /\ pc # "startup"
      BY <3>1, <3>4
    <3> QED BY <3>2, <3>3, <3>4
  <2>10. CutsAreRight(new)'
    BY <1>1, <2>5, <2>6, <2>7, <2>8, <2>9 DEF CutsAreRight
  <2> QED BY <2>1, <2>6, <2>10
<1>8. WritesLastTaken'
  BY DEF WritesLastTaken
<1> QED BY <1>5, <1>6, <1>7, <1>8

LEMMA FiledInit == Init => Filed
<1> SUFFICES ASSUME Init PROVE Filed
  OBVIOUS
<1>1. Typed
  BY TypedInit
<1>2. /\ pc = "startup" /\ taken = <<>> /\ Logged = <<>> /\ Len(Logged) = 0
      /\ \A i \in Rotations : Content(i) = <<>>
  BY DEF Init, Logged, Content
<1>3. WritesLastTaken /\ KeptAreLogged /\ KeptInOrder
  BY <1>2 DEF WritesLastTaken, KeptAreLogged, KeptInOrder
<1>4. Complete
  <2> DEFINE cut == [i \in 0 .. m_maxRotations + 1 |-> 0]
  <2>1. cut \in Cuts
    BY <1>2 DEF Cuts
  <2>2. \A i \in 0 .. m_maxRotations + 1 : cut[i] = 0
    OBVIOUS
  <2>3. SubSeq(Logged, 0 + 1, 0) = <<>>
    BY SubSeqEmpty
  <2> HIDE DEF cut
  <2>4. \A i \in Rotations : i \in 0 .. m_maxRotations + 1 /\ i + 1 \in 0 .. m_maxRotations + 1
    BY DEF Rotations
  <2>5. \A i \in Rotations : Content(i) = SubSeq(Logged, cut[i + 1] + 1, cut[i])
    BY <1>2, <2>2, <2>3, <2>4
  <2>6. CutsAreRight(cut)
    <3>1. 0 \in 0 .. m_maxRotations + 1
      OBVIOUS
    <3>2. \A i, j \in 0 .. m_maxRotations + 1 : i <= j => cut[j] <= cut[i]
      BY <2>2
    <3>3. \A i \in Rotations \ {0} : cut[i] = 0
      BY <2>2, <2>4
    <3> QED BY <1>2, <2>1, <2>2, <2>5, <3>1, <3>2, <3>3 DEF CutsAreRight
  <2> QED BY <1>2, <2>1, <2>6 DEF Complete
<1> QED BY <1>1, <1>3, <1>4 DEF Filed

LEMMA FiledStep == Filed /\ Typed' /\ [Next]_vars => Filed'
<1> SUFFICES ASSUME Filed, Typed', [Next]_vars PROVE Filed'
  OBVIOUS
<1>1. Typed /\ WritesLastTaken /\ Complete
  BY DEF Filed
<1>2. CASE Startup
  <2>1. Rotate /\ pc' = "dequeue" /\ pc = "startup" /\ Logged' = Logged
    BY <1>2 DEF Startup, Logged
  <2> QED BY <2>1, RotateFiles
<1>3. CASE Log
  BY <1>3, LogFiles
<1>4. ASSUME UNCHANGED <<files, mishap>>, Logged' = Logged, WritesLastTaken',
             pc' \in {"dequeue", "asleep", "write", "rotate"} =>
               m_logFile' = m_logFile
               /\ pc \in {"dequeue", "asleep", "write", "rotate"}
      PROVE  Filed'
  <2>1. \A i : Content(i)' = Content(i)
    BY <1>4 DEF Content
  <2>2. Cuts' = Cuts /\ \A cut : CutsAreRight(cut)' <=> CutsAreRight(cut)
    BY <1>4, <2>1 DEF Cuts, CutsAreRight
  <2>3. Complete'
    BY <1>1, <1>4, <2>2 DEF Complete
  <2>4. KeptAreLogged'
    BY <1>4, <2>1 DEF Filed, KeptAreLogged
  <2>5. KeptInOrder'
    <3> SUFFICES ASSUME NEW i \in Rotations, NEW j \in Rotations,
                        NEW m \in 1 .. Len(Content(i)'),
                        NEW n \in 1 .. Len(Content(j)'),
                        i > j \/ (i = j /\ m < n)
                 PROVE  \E a, b \in 1 .. Len(Logged') :
                          /\ a < b /\ Logged'[a] = Content(i)'[m]
                          /\ Logged'[b] = Content(j)'[n]
      BY DEF KeptInOrder
    <3>1. m \in 1 .. Len(Content(i)) /\ n \in 1 .. Len(Content(j))
      BY <2>1
    <3>2. \E a, b \in 1 .. Len(Logged) :
            a < b /\ Logged[a] = Content(i)[m] /\ Logged[b] = Content(j)[n]
      BY <3>1 DEF Filed, KeptInOrder
    <3> QED BY <1>4, <2>1, <3>2
  <2> QED BY <1>4, <2>3, <2>4, <2>5 DEF Filed
<1>5. CASE RotateIfNecessary
  <2>1. /\ pc = "rotate" /\ pc' = "dequeue" /\ taken' = taken /\ message' = message
        /\ Logged' = Logged
    BY <1>5 DEF RotateIfNecessary, Logged
  <2>2. CASE Rotate /\ Size > MAX_LOG_FILE_SIZE
    <3>1. Size = Len(Content(0))
      BY Len(<<>>) = 0 DEF Size, Content
    <3> QED BY <2>1, <2>2, <3>1, RotateFiles
  <2>3. CASE UNCHANGED <<m_logFile, files, mishap>>
    <3>1. WritesLastTaken'
      BY <2>1 DEF WritesLastTaken
    <3> QED BY <1>4, <2>1, <2>3, <3>1
  <2> QED BY <1>5, <2>2, <2>3 DEF RotateIfNecessary
<1>6. CASE Dequeue
  <2>1. /\ taken \in Seq(Items) /\ message' \in Items
        /\ taken' = Append(taken, message')
        /\ pc = "dequeue" /\ pc' \in {"write", "closing"}
        /\ UNCHANGED fileVars
    <3>1. message' \in Items
      <4>1. m_tail \in Slots /\ m_head \in Slots /\ m_head # m_tail
        BY <1>1, <1>6 DEF Dequeue, Empty, Typed, TypeOK, RingTypes
      <4> QED BY <1>1, <1>6, <4>1 DEF Dequeue, Typed, HeldAreItems, InRing, Slots
    <3> QED BY <1>1, <1>6, <3>1 DEF Dequeue, Typed, TypeOK, LogTypes
  <2>2. /\ taken' # <<>> /\ taken'[Len(taken')] = message'
        /\ SubSeq(taken', 1, Len(taken') - 1) = taken
    BY <2>1, FrontOfAppend, AppendProperties
  <2>3. Logged' = Logged
    BY <2>1, <2>2 DEF Logged
  <2>4. WritesLastTaken'
    BY <2>1, <2>2 DEF WritesLastTaken
  <2> QED BY <1>4, <2>1, <2>3, <2>4 DEF fileVars
<1>7. CASE Finish
  <2>1. /\ pc = "closing" /\ pc' = "finished" /\ Logged' = Logged
        /\ UNCHANGED <<files, mishap, taken, message>>
    BY <1>7 DEF Finish, Logged
  <2>2. WritesLastTaken'
    BY <1>1, <2>1 DEF WritesLastTaken
  <2> QED BY <1>4, <2>1, <2>2
<1>8. ASSUME UNCHANGED <<files, mishap, m_logFile, taken, message>>,
             pc' = pc \/ (pc \in {"dequeue", "asleep"} /\ pc' \in {"dequeue", "asleep"})
      PROVE  Filed'
  <2>1. Logged' = Logged
    BY <1>8 DEF Logged
  <2>2. \A i : Content(i)' = Content(i)
    BY <1>8 DEF Content
  <2>3. WritesLastTaken'
    BY <1>1, <1>8, <2>2 DEF WritesLastTaken
  <2> QED BY <1>4, <1>8, <2>1, <2>3
<1>9. ASSUME NEW t \in Threads, LogMessage(t) \/ Call(t) PROVE Filed'
  BY <1>8, <1>9 DEF LogMessage, Call, EnqueueWaits, Enqueue, WakeLogThread, fileVars
<1>10. CASE DequeueWaits \/ ExecReturns \/ Leave
  BY <1>8, <1>10 DEF DequeueWaits, ExecReturns, Leave, IoThreadEnds, Stop,
       Wait, Exit, fileVars
<1>11. CASE UNCHANGED vars
  BY <1>8, <1>11 DEF vars, fileVars
<1> QED BY <1>2, <1>3, <1>5, <1>6, <1>7, <1>9, <1>10, <1>11 DEF Next, Run

(***************************************************************************)
(* Whatever threads log while the log thread drains and rotates, what the  *)
(* files hold is what was logged last, and without a gap unless a step of  *)
(* a rotation has failed; even then it is in order (logrotator.cpp:128-    *)
(* 177).  For any number of files, any limit and any interval.             *)
(***************************************************************************)
THEOREM NewestAreKept == Safety => []FilesHoldTheNewest
<1>1. Safety => []Typed
  BY TypedInit, TypedStep, PTL DEF Safety
<1>2. Safety => []Filed
  BY <1>1, FiledInit, FiledStep, PTL DEF Safety
<1>3. Filed => FilesHoldTheNewest
  <2> SUFFICES ASSUME Filed, ~mishap PROVE KeptAreTheNewest
    BY DEF Filed, FilesHoldTheNewest
  <2>1. PICK cut \in Cuts : CutsAreRight(cut)
    BY DEF Filed, Complete
  <2>2. /\ cut[0] = Len(Logged) /\ cut \in [0 .. m_maxRotations + 1 -> 0 .. Len(Logged)]
        /\ \A i, j \in 0 .. m_maxRotations + 1 : i <= j => cut[j] <= cut[i]
        /\ \A i \in Rotations : Content(i) = SubSeq(Logged, cut[i + 1] + 1, cut[i])
        /\ \A i \in Rotations \ {0} :
             cut[i] = 0 \/ Len(Content(i)) > MAX_LOG_FILE_SIZE
    BY <2>1 DEF CutsAreRight, Cuts
  <2>3. \A i \in Rotations :
          /\ i \in 0 .. m_maxRotations + 1 /\ i + 1 \in 0 .. m_maxRotations + 1
          /\ m_maxRotations + 1 \in 0 .. m_maxRotations + 1
          /\ i <= i + 1 /\ i <= m_maxRotations + 1
    BY DEF Rotations
  <2>4. \A i \in Rotations : cut[i + 1] <= cut[i]
    BY <2>2, <2>3
  <2>5. ASSUME cut[m_maxRotations + 1] # 0, NEW i \in Rotations \ {0}
        PROVE  Len(Content(i)) > MAX_LOG_FILE_SIZE
    <3>1. /\ cut[m_maxRotations + 1] <= cut[i]
          /\ cut[m_maxRotations + 1] \in Nat /\ cut[i] \in Nat
      BY <2>2, <2>3
    <3> QED BY <2>2, <2>5, <3>1
  <2> QED BY <2>2, <2>4, <2>5 DEF KeptAreTheNewest
<1> QED BY <1>2, <1>3, PTL

=============================================================================
