----------------------------- MODULE LogRotator -----------------------------
(***************************************************************************)
(* The log of kwlegion_ui/cpp: every thread that logs pushes into a ring   *)
(* buffer, the log thread drains it into a file that it rotates, and main  *)
(* stops the io thread, then the log thread.                               *)
(*                                                                         *)
(* A call of enqueue or dequeue is one step once it has the mutex, ended   *)
(* either with its work done or asleep on its condition variable; being    *)
(* woken makes it try again.  A message is the thread it is from and its   *)
(* number there; the nullopt that asks for the end is Sentinel.  A file    *)
(* is the sequence of messages in it.                                      *)
(***************************************************************************)
EXTENDS Integers, Sequences, FiniteSets

CONSTANTS
  Threads,         \* the threads that log
  Main, Io,        \* two of them: main and the io thread
  BufferSize,
  m_maxRotations,
  LOG_FILE_POLL_INTERVAL,
  MAX_LOG_FILE_SIZE,   \* in messages
  MaxMessages,     \* bound: messages of one thread
  MaxLate,         \* bound: messages logged after main has asked for the end
  Sentinel,
  None             \* no message, no file

Message == [from : Threads, nr : 1 .. MaxMessages]

ASSUME RotatorAssumption ==
  /\ Main \in Threads /\ Io \in Threads /\ Main # Io
  /\ IsFiniteSet(Threads)
  /\ BufferSize \in Nat /\ BufferSize >= 2
  /\ m_maxRotations \in Nat \ {0}
  /\ LOG_FILE_POLL_INTERVAL \in Nat \ {0}
  /\ MAX_LOG_FILE_SIZE \in Nat
  /\ MaxMessages \in Nat
  \* what comes behind the sentinel fits in: see QuittingEnds
  /\ MaxLate \in Nat /\ MaxLate + Cardinality(Threads \ {Main, Io}) < BufferSize
  /\ Sentinel \notin Message
  /\ None \notin Message \cup {Sentinel} \cup Seq(Message)

VARIABLES
  \* the ring buffer
  m_buffer, m_head, m_tail,
  \* the threads that log: state, item they are pushing, messages so far
  thread, item, said,
  late,             \* messages logged since main asked for the end
  stage,            \* how far main is on its way out
  \* the log thread
  pc,
  message,          \* the message it took last
  m_logFile,        \* whether the file is open
  m_rotatePollCheck,
  files,            \* 0: the log file, i: the file with suffix .i
  \* history
  taken,            \* what dequeue returned, in order
  mishap            \* a step of a rotation has failed

ringVars == <<m_buffer, m_head, m_tail>>
callVars == <<thread, item, said, late>>
fileVars == <<m_logFile, m_rotatePollCheck, files, mishap>>
vars == <<ringVars, callVars, stage, pc, message, fileVars, taken>>

Items == Message \cup {Sentinel}
Slots == 0 .. BufferSize - 1
Rotations == 0 .. m_maxRotations

Init ==
  /\ m_buffer = [i \in Slots |-> None] /\ m_head = 0 /\ m_tail = 0
  /\ thread = [t \in Threads |-> "running"]
  /\ item = [t \in Threads |-> None]
  /\ said = [t \in Threads |-> 0]
  /\ late = 0
  /\ stage = "up"
  /\ pc = "startup" /\ message = None
  /\ m_logFile = FALSE /\ m_rotatePollCheck = 0
  /\ files \in [Rotations -> {None, <<>>}]  \* left by an earlier session
  /\ taken = <<>> /\ mishap = FALSE

-----------------------------------------------------------------------------
(* The ring buffer.                                                        *)

\* Mutant: the index does not wrap around.
AfterUnwrapped(i) == i + 1

After(i) == (i + 1) % BufferSize

\* Mutant: the test for a full buffer does not wrap around.
FullUnwrapped == m_head + 1 = m_tail

Full == After(m_head) = m_tail
Empty == m_head = m_tail

(* wakeOne, on m_bufferNotFull; on m_bufferNotEmpty only the log thread    *)
(* ever sleeps.                                                            *)
\* Mutant: a producer is woken only when the buffer was full.
WakeProducerWhenFull(asleep) ==
  IF ~Full \/ asleep = {} THEN UNCHANGED thread
  ELSE \E t \in asleep : thread' = [thread EXCEPT ![t] = "pushing"]

WakeProducer(asleep) ==
  IF asleep = {} THEN UNCHANGED thread
  ELSE \E t \in asleep : thread' = [thread EXCEPT ![t] = "pushing"]

WakeLogThread == pc' = IF pc = "asleep" THEN "dequeue" ELSE pc

Asleep == {t \in Threads : thread[t] = "asleep"}

(* A message of a thread that may still log.  Between exec's return and    *)
(* the end of the log thread main only waits.                              *)
LogMessage(t) ==
  /\ thread[t] = "running" /\ said[t] < MaxMessages
  /\ t = Main => stage \in {"up", "leaving"}
  /\ stage # "gone"
  /\ IF stage \in {"stopping", "leaving"}
     THEN late < MaxLate /\ late' = late + 1
     ELSE UNCHANGED late
  /\ said' = [said EXCEPT ![t] = @ + 1]
  /\ item' = [item EXCEPT ![t] = [from |-> t, nr |-> said'[t]]]
  /\ thread' = [thread EXCEPT ![t] = "pushing"]
  /\ UNCHANGED <<ringVars, stage, pc, message, fileVars, taken>>

EnqueueWaits(t) ==
  /\ stage # "gone" /\ thread[t] = "pushing" /\ Full
  /\ thread' = [thread EXCEPT ![t] = "asleep"]
  /\ UNCHANGED <<ringVars, item, said, late, stage, pc, message, fileVars,
                 taken>>

Enqueue(t) ==
  /\ stage # "gone" /\ thread[t] = "pushing" /\ ~Full
  /\ m_buffer' = [m_buffer EXCEPT ![m_head] = item[t]]
  /\ m_head' = After(m_head)
  /\ WakeLogThread
  /\ thread' = [thread EXCEPT ![t] = "running"]
  /\ item' = [item EXCEPT ![t] = None]
  /\ UNCHANGED <<m_tail, said, late, stage, message, fileVars, taken>>

DequeueWaits ==
  /\ stage # "gone" /\ pc = "dequeue" /\ Empty
  /\ pc' = "asleep"
  /\ UNCHANGED <<ringVars, callVars, stage, message, fileVars, taken>>

(* dequeue, and the test of the loop in run                                *)
Dequeue ==
  /\ stage # "gone" /\ pc = "dequeue" /\ ~Empty
  /\ message' = m_buffer[m_tail]
  /\ taken' = Append(taken, message')
  /\ m_tail' = After(m_tail)
  /\ WakeProducer(Asleep)
  /\ pc' = IF message' = Sentinel THEN "closing" ELSE "write"
  /\ UNCHANGED <<m_buffer, m_head, item, said, late, stage, fileVars>>

-----------------------------------------------------------------------------
(* The files.                                                              *)

Size == IF files[0] = None THEN 0 ELSE Len(files[0])

(* The last file is removed, then each is renamed to the next name, the    *)
(* oldest first; rename refuses a name that is taken.  A name is free once *)
(* all from it up to an absent file, or up to the last, have moved.        *)
(* stuck: the files whose removal or renaming fails.                       *)
Present == {i \in Rotations : files[i] # None}

\* Mutant: the last file is not removed first.
VacatedUnlessLast(stuck) ==
  {i \in Rotations : \E j \in i .. m_maxRotations :
     j \notin Present /\ (i .. j - 1) \cap stuck = {}}

Vacated(stuck) ==
  {i \in Rotations : \E j \in i .. m_maxRotations + 1 :
     j \notin Present /\ (i .. j - 1) \cap stuck = {}}

Shifted(stuck) ==
  [i \in Rotations |->
     IF i \notin Vacated(stuck) THEN files[i]
     ELSE IF i - 1 \in Vacated(stuck) THEN files[i - 1]
     ELSE None]

\* Mutant: the file is opened for appending.
Appended(stuck) ==
  [Shifted(stuck) EXCEPT ![0] = IF @ = None THEN <<>> ELSE @]

Truncated(stuck) == [Shifted(stuck) EXCEPT ![0] = <<>>]

Rotate ==
  \E stuck \in SUBSET Present, opens \in BOOLEAN :
    /\ m_logFile' = opens
    /\ files' = IF opens THEN Truncated(stuck) ELSE Shifted(stuck)
    /\ mishap' = (mishap \/ ~opens \/ stuck # {})

Startup ==
  /\ stage # "gone" /\ pc = "startup"
  /\ Rotate
  /\ pc' = "dequeue"
  /\ UNCHANGED <<ringVars, callVars, stage, message, m_rotatePollCheck, taken>>

(* fileLog or consoleLog                                                   *)
Log ==
  /\ stage # "gone" /\ pc = "write"
  /\ files' = IF m_logFile THEN [files EXCEPT ![0] = Append(@, message)] ELSE files
  /\ pc' = "rotate"
  /\ UNCHANGED <<ringVars, callVars, stage, message, m_logFile,
                 m_rotatePollCheck, mishap, taken>>

RotateIfNecessary ==
  LET due == m_rotatePollCheck + 1 >= LOG_FILE_POLL_INTERVAL
  IN /\ stage # "gone" /\ pc = "rotate"
     /\ m_rotatePollCheck' = IF due THEN 0 ELSE m_rotatePollCheck + 1
     /\ IF due /\ Size > MAX_LOG_FILE_SIZE THEN Rotate
        ELSE UNCHANGED <<m_logFile, files, mishap>>
     /\ pc' = "dequeue"
     /\ UNCHANGED <<ringVars, callVars, stage, message, taken>>

(* run returns: the file is closed, the thread has finished.               *)
Finish ==
  /\ stage # "gone" /\ pc = "closing"
  /\ m_logFile' = FALSE
  /\ pc' = "finished"
  /\ UNCHANGED <<ringVars, callVars, stage, message, m_rotatePollCheck, files,
                 mishap, taken>>

-----------------------------------------------------------------------------
(* The end of main.                                                        *)

(* exec returns; ioThread.quit                                             *)
ExecReturns ==
  /\ stage = "up" /\ thread[Main] = "running"
  /\ stage' = "quitting"
  /\ UNCHANGED <<ringVars, callVars, pc, message, fileVars, taken>>

(* The io thread leaves its event loop, ioThread.wait returns.             *)
IoThreadEnds ==
  /\ stage = "quitting" /\ thread[Io] = "running"
  /\ thread' = [thread EXCEPT ![Io] = "ended"]
  /\ stage' = "waited"
  /\ UNCHANGED <<ringVars, item, said, late, pc, message, fileVars, taken>>

\* Mutant: main asks the log thread to end before it waits for the io thread.
StopFirst ==
  /\ stage \in {"quitting", "waited"}
  /\ thread' = [thread EXCEPT ![Main] = "pushing"]
  /\ item' = [item EXCEPT ![Main] = Sentinel]
  /\ stage' = "stopping"
  /\ UNCHANGED <<ringVars, said, late, pc, message, fileVars, taken>>

Stop ==
  /\ stage = "waited"
  /\ thread' = [thread EXCEPT ![Main] = "pushing"]
  /\ item' = [item EXCEPT ![Main] = Sentinel]
  /\ stage' = "stopping"
  /\ UNCHANGED <<ringVars, said, late, pc, message, fileVars, taken>>

(* logRotator.wait returns; what main has built is destroyed.              *)
Wait ==
  /\ stage = "stopping" /\ thread[Main] = "running" /\ pc = "finished"
  /\ stage' = "leaving"
  /\ UNCHANGED <<ringVars, callVars, pc, message, fileVars, taken>>

Exit ==
  /\ stage = "leaving" /\ thread[Main] = "running"
  /\ stage' = "gone"
  /\ UNCHANGED <<ringVars, callVars, pc, message, fileVars, taken>>

-----------------------------------------------------------------------------
Call(t) == EnqueueWaits(t) \/ Enqueue(t)
Run == Startup \/ DequeueWaits \/ Dequeue \/ Log \/ RotateIfNecessary \/ Finish
Leave == IoThreadEnds \/ Stop \/ Wait \/ Exit

Next ==
  \/ \E t \in Threads : LogMessage(t) \/ Call(t)
  \/ Run
  \/ ExecReturns \/ Leave

Safety == Init /\ [][Next]_vars

(* The threads run; nobody has to log, and the application may stay up.    *)
Fairness ==
  /\ \A t \in Threads : WF_vars(Call(t))
  /\ WF_vars(Run) /\ WF_vars(Leave)

Spec == Safety /\ Fairness

-----------------------------------------------------------------------------
RingTypes ==
  /\ m_buffer \in [Slots -> Items \cup {None}]
  /\ m_head \in Slots /\ m_tail \in Slots

CallTypes ==
  /\ thread \in [Threads -> {"running", "pushing", "asleep", "ended"}]
  /\ item \in [Threads -> Items \cup {None}]
  /\ \A t \in Threads : thread[t] \in {"pushing", "asleep"} => item[t] # None
  /\ said \in [Threads -> 0 .. MaxMessages]
  /\ late \in 0 .. MaxLate
  /\ stage \in {"up", "quitting", "waited", "stopping", "leaving", "gone"}

LogTypes ==
  /\ pc \in {"startup", "dequeue", "asleep", "write", "rotate", "closing",
             "finished"}
  /\ message \in Items \cup {None}
  /\ pc = "write" => message \in Message
  /\ taken \in Seq(Items)

FileTypes ==
  /\ m_logFile \in BOOLEAN /\ mishap \in BOOLEAN
  /\ m_rotatePollCheck \in 0 .. LOG_FILE_POLL_INTERVAL - 1
  /\ files \in [Rotations -> Seq(Message) \cup {None}]
  /\ m_logFile => files[0] # None

TypeOK == RingTypes /\ CallTypes /\ LogTypes /\ FileTypes

(* What the slots from the tail to the head hold.                          *)
Count == IF m_tail <= m_head THEN m_head - m_tail ELSE m_head + BufferSize - m_tail
Held == [i \in 1 .. Count |-> m_buffer[(m_tail + (i - 1)) % BufferSize]]

Queue == INSTANCE LogQueue
           WITH Messages <- Items, Capacity <- BufferSize - 1, queue <- Held

(***************************************************************************)
(* The ring is a queue (logrotator.h:26-29): whatever threads push while   *)
(* the log thread drains, nothing is lost, repeated or reordered at the    *)
(* wrap-around or when the ring is full, where it holds BufferSize - 1.    *)
(***************************************************************************)
DrainsLikeAQueue == Queue!Spec

(***************************************************************************)
(* No wake-up is lost (logrotator.h:42-57): while producers sleep, as many *)
(* of those awake are about to push as there are free slots, and the log   *)
(* thread sleeps only on an empty ring.                                    *)
(***************************************************************************)
Pushing == {t \in Threads : thread[t] = "pushing"}

NobodyIsForgotten ==
  /\ Asleep # {} => Cardinality(Pushing) >= BufferSize - 1 - Count
  /\ pc = "asleep" => Empty

(***************************************************************************)
(* Stopping loses nothing (main.cpp:279-283): when the log thread has      *)
(* ended, it has taken every message that main and the io thread logged    *)
(* before the end was asked for, however full the ring was.                *)
(***************************************************************************)
Took(m) == \E i \in 1 .. Len(taken) : taken[i] = m

StoppingLosesNothing ==
  pc = "finished" /\ stage = "stopping" =>
    \A t \in {Main, Io} : \A n \in 1 .. said[t] : Took([from |-> t, nr |-> n])

(***************************************************************************)
(* The disk space is bounded (logrotator.h:23-24) though the size is only  *)
(* looked at now and then, and even when renaming fails                    *)
(* (logrotator.cpp:169-170, "degrade to truncating the file").             *)
(***************************************************************************)
DiskIsBounded ==
  \A i \in Rotations : files[i] # None =>
    Len(files[i]) <= MAX_LOG_FILE_SIZE + LOG_FILE_POLL_INTERVAL

(* What has been put in the log, and what a file holds of it.              *)
Logged ==
  IF pc \in {"write", "closing", "finished"}
  THEN SubSeq(taken, 1, Len(taken) - 1) ELSE taken

Content(i) == IF files[i] = None THEN <<>> ELSE files[i]

(* From the oldest file to the newest and in each of them, messages are in *)
(* the order in which they were logged.                                    *)
KeptInOrder ==
  \A i, j \in Rotations :
    \A m \in 1 .. Len(Content(i)), n \in 1 .. Len(Content(j)) :
      i > j \/ (i = j /\ m < n) =>
        \E a, b \in 1 .. Len(Logged) :
          a < b /\ Logged[a] = Content(i)[m] /\ Logged[b] = Content(j)[n]

(* The newest file ends with the last message, each file ends where the    *)
(* next newer one begins, and the oldest begins with the first message,    *)
(* unless all the rotated files are full: file i is from cut[i + 1] on to  *)
(* cut[i].                                                                 *)
Cuts == [0 .. m_maxRotations + 1 -> 0 .. Len(Logged)]

KeptAreTheNewest ==
  \E cut \in Cuts :
    /\ cut[0] = Len(Logged)
    /\ \A i \in Rotations :
         /\ cut[i + 1] <= cut[i]
         /\ Content(i) = SubSeq(Logged, cut[i + 1] + 1, cut[i])
    /\ \/ cut[m_maxRotations + 1] = 0
       \/ \A i \in Rotations \ {0} : Len(Content(i)) > MAX_LOG_FILE_SIZE

(***************************************************************************)
(* Rotation takes from the old end only (logrotator.cpp:144-177): the      *)
(* files read in order are what was logged last, without a gap, and all of *)
(* it or more than the rotated files' worth.  If a step of some rotation   *)
(* failed there may be gaps, but the order stands.                         *)
(***************************************************************************)
FilesHoldTheNewest == KeptInOrder /\ (~mishap => KeptAreTheNewest)

(***************************************************************************)
(* Once the application quits the process ends (main.cpp:277-285): the     *)
(* end asked for of a log thread behind a full ring reaches it, and no     *)
(* thread that still logs holds main up.  Nobody drains what comes behind  *)
(* the sentinel, so this takes that fewer than BufferSize messages do: the *)
(* late ones and those under way in the other threads (RotatorAssumption). *)
(***************************************************************************)
QuittingEnds == stage = "quitting" ~> stage = "gone"
=============================================================================
