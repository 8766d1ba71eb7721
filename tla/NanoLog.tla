------------------------------- MODULE NanoLog -------------------------------
(* The logger (log/NanoLog.cpp): producers push lines into a buffer, and the
   logger's own thread pops them and writes them to a file.

   The buffer is, as initialize() chose, a QueueBuffer ("queue", the guaranteed
   logger, which main.cpp uses): a queue of buffers of Size slots, of which
   producers fill the last and the consumer reads the first; or a RingBuffer
   ("ring").  Every step is one access to what threads share: an atomic, or a
   critical section of a spin lock.  A buffer whose memory was freed may be
   allocated again, so buffers are a bounded set of addresses.               *)
EXTENDS Integers, Sequences, FiniteSets

CONSTANTS Producers, Lines,   \* bound: lines each producer logs
          Kinds,              \* the buffers to consider
          Size, RingSize,
          Addresses,          \* bound: buffers that exist at one time
          NoLine, NoBuffer

ASSUME KindsAssumption == Kinds \subseteq {"queue", "ring"} /\ Kinds # {}
ASSUME SizesAssumption == {Size, RingSize} \subseteq Nat \ {0}
ASSUME LinesAssumption == Lines \in Nat
ASSUME AddressesAssumption == Addresses # {} /\ NoBuffer \notin Addresses

LogLines == [by : Producers, nr : 1..Lines]
ASSUME NoLineAssumption == NoLine \notin LogLines

VARIABLES
  kind,         \* m_buffer_base
  state,        \* NanoLogger::m_state
  popper,       \* where NanoLogger::pop() is
  pc,           \* where each producer is in push()
  sent,         \* how many lines each has pushed
  index,        \* the slot each has claimed
  into,         \* the buffer each has loaded, or has made
  writeIndex,   \* m_write_index, of either buffer
  readIndex,    \* m_read_index, of either buffer
  writeBuffer,  \* m_current_write_buffer
  readBuffer,   \* m_current_read_buffer
  buffers,      \* m_buffers
  alive,        \* addresses that are allocated
  slot,         \* the marked slots of each buffer, and their lines
  counted,      \* m_write_state[size] of each
  ring,         \* m_ring: the written slots and their lines
  log,          \* the lines popped, which write() is given: see LogFile
  stray,        \* history: a producer has counted in memory that was freed
  overrun       \* history: a producer has claimed a slot not read yet

control == <<kind, state, popper>>
producers == <<pc, sent, index, into>>
queueVars == <<writeBuffer, buffers, alive, slot, counted>>
reading == <<readIndex, readBuffer>>
history == <<stray, overrun>>
vars == <<control, producers, writeIndex, reading, queueVars, ring, log,
          history>>

-----------------------------------------------------------------------------
Slots == 0..(Size - 1)
Blank == [i \in Slots |-> NoLine]

InitRing == ring = [i \in 0..(RingSize - 1) |-> NoLine]

(* The first buffer is made by the constructor. *)
InitQueue ==
  /\ writeBuffer = CHOOSE b \in Addresses : TRUE
  /\ readBuffer = NoBuffer
  /\ buffers = <<writeBuffer>> /\ alive = {writeBuffer}
  /\ slot = [b \in Addresses |-> Blank]
  /\ counted = [b \in Addresses |-> 0]

Init ==
  /\ kind \in Kinds
  /\ InitRing /\ InitQueue
  /\ writeIndex = 0 /\ readIndex = 0
  /\ state = "INIT" /\ popper = "waiting"
  /\ pc = [p \in Producers |-> "idle"]
  /\ sent = [p \in Producers |-> 0]
  /\ index = [p \in Producers |-> 0]
  /\ into = [p \in Producers |-> NoBuffer]
  /\ log = <<>>
  /\ stray = FALSE /\ overrun = FALSE

Line(p) == [by |-> p, nr |-> sent[p] + 1]
Goto(p, there) == pc' = [pc EXCEPT ![p] = there]

(* push() returns: the line is logged. *)
Return(p) == /\ Goto(p, "idle")
             /\ sent' = [sent EXCEPT ![p] = @ + 1]
             /\ index' = [index EXCEPT ![p] = 0]
             /\ into' = [into EXCEPT ![p] = NoBuffer]

-----------------------------------------------------------------------------
(* QueueBuffer::push(): a slot, or none left. *)
Claim(p) ==
  /\ kind = "queue" /\ state = "READY"
  /\ pc[p] = "again" \/ (pc[p] = "idle" /\ sent[p] < Lines)
  /\ writeIndex' = writeIndex + 1
  /\ IF writeIndex < Size
       THEN Goto(p, "load") /\ index' = [index EXCEPT ![p] = writeIndex]
       ELSE Goto(p, "spin") /\ UNCHANGED index
  /\ UNCHANGED <<control, sent, into, reading, queueVars, ring, log, history>>

Spin(p) ==
  /\ pc[p] = "spin" /\ writeIndex < Size
  /\ Goto(p, "again")
  /\ UNCHANGED <<control, sent, index, into, writeIndex, reading, queueVars,
                 ring, log, history>>

Load(p) ==
  /\ pc[p] = "load"
  /\ into' = [into EXCEPT ![p] = writeBuffer]
  /\ Goto(p, "mark")
  /\ UNCHANGED <<control, sent, index, writeIndex, reading, queueVars, ring,
                 log, history>>

(* Buffer::push(): the line is in its slot, which is marked as written. *)
Mark(p) ==
  /\ pc[p] = "mark"
  /\ slot' = [slot EXCEPT ![into[p]][index[p]] = Line(p)]
  /\ Goto(p, "count")
  /\ UNCHANGED <<control, sent, index, into, writeIndex, reading, writeBuffer,
                 buffers, alive, counted, ring, log, history>>

(* The slot is counted, and whoever fills the buffer makes the next one.  But
   the consumer waits for marks only: it may have freed the buffer.  Then this
   counts in memory of nobody, with any result, or in the next buffer's.  (The
   process may also end there, which the steps so far show as well.)         *)
Count(p) ==
  /\ pc[p] = "count"
  /\ counted' = [counted EXCEPT ![into[p]] = @ + 1]
  /\ \/ /\ counted'[into[p]] = Size \/ into[p] \notin alive
        /\ Goto(p, "make")
        /\ UNCHANGED <<sent, index, into>>
     \/ /\ counted'[into[p]] # Size \/ into[p] \notin alive
        /\ Return(p)
  /\ stray' = (stray \/ slot[into[p]][index[p]] # Line(p))
  /\ UNCHANGED <<control, writeIndex, reading, writeBuffer, buffers, alive,
                 slot, ring, log, overrun>>

(* Mutant of Make: the index is reset when the buffer is stored, too. *)
MakeOpen(p) ==
  /\ pc[p] = "make"
  /\ \E b \in Addresses \ alive :
       /\ writeBuffer' = b
       /\ alive' = alive \cup {b}
       /\ slot' = [slot EXCEPT ![b] = Blank]
       /\ counted' = [counted EXCEPT ![b] = 0]
       /\ into' = [into EXCEPT ![p] = b]
  /\ writeIndex' = 0
  /\ Goto(p, "publish")
  /\ UNCHANGED <<control, sent, index, reading, buffers, ring, log, history>>

(* setup_next_write_buffer(): producers that load see the buffer from here on;
   they have no slot in it before the index is reset, in the lock's scope.   *)
Make(p) ==
  /\ pc[p] = "make"
  /\ \E b \in Addresses \ alive :
       /\ writeBuffer' = b
       /\ alive' = alive \cup {b}
       /\ slot' = [slot EXCEPT ![b] = Blank]
       /\ counted' = [counted EXCEPT ![b] = 0]
       /\ into' = [into EXCEPT ![p] = b]
  /\ Goto(p, "publish")
  /\ UNCHANGED <<control, sent, index, writeIndex, reading, buffers, ring, log,
                 history>>

Publish(p) ==
  /\ pc[p] = "publish"
  /\ buffers' = Append(buffers, into[p])
  /\ writeIndex' = 0
  /\ Return(p)
  /\ UNCHANGED <<control, reading, writeBuffer, alive, slot, counted, ring,
                 log, history>>

-----------------------------------------------------------------------------
(* Mutant of RingClaim: the index is incremented before it is used. *)
RingClaimNext(p) ==
  /\ kind = "ring" /\ state = "READY"
  /\ pc[p] = "idle" /\ sent[p] < Lines
  /\ index' = [index EXCEPT ![p] = (writeIndex + 1) % RingSize]
  /\ writeIndex' = writeIndex + 1
  /\ overrun' = (overrun \/ writeIndex >= readIndex + RingSize)
  /\ Goto(p, "put")
  /\ UNCHANGED <<control, sent, into, reading, queueVars, ring, log, stray>>

(* RingBuffer::push(): the slot is claimed first, and written under its lock. *)
RingClaim(p) ==
  /\ kind = "ring" /\ state = "READY"
  /\ pc[p] = "idle" /\ sent[p] < Lines
  /\ index' = [index EXCEPT ![p] = writeIndex % RingSize]
  /\ writeIndex' = writeIndex + 1
  /\ overrun' = (overrun \/ writeIndex >= readIndex + RingSize)
  /\ Goto(p, "put")
  /\ UNCHANGED <<control, sent, into, reading, queueVars, ring, log, stray>>

RingPut(p) ==
  /\ pc[p] = "put"
  /\ ring' = [ring EXCEPT ![index[p]] = Line(p)]
  /\ Return(p)
  /\ UNCHANGED <<control, writeIndex, reading, queueVars, log, history>>

-----------------------------------------------------------------------------
(* try_pop() of the queue: the next line of the first buffer, which is given up
   with its last line. *)
First == IF readBuffer = NoBuffer /\ buffers # <<>> THEN Head(buffers) ELSE readBuffer
Marked == First # NoBuffer /\ slot[First][readIndex] # NoLine
Ready == IF kind = "ring" THEN ring[readIndex % RingSize] # NoLine ELSE Marked

Popping == popper \in {"reading", "draining"}

(* Mutant of PopQueue: a buffer is given up before its last line. *)
PopQueueShort ==
  /\ Popping /\ kind = "queue" /\ Marked
  /\ log' = Append(log, slot[First][readIndex])
  /\ IF readIndex + 2 >= Size
       THEN /\ readIndex' = 0 /\ readBuffer' = NoBuffer
            /\ buffers' = Tail(buffers)
            /\ alive' = alive \ {First}
            /\ slot' = [slot EXCEPT ![First] = Blank]
            /\ counted' = [counted EXCEPT ![First] = 0]
       ELSE /\ readIndex' = readIndex + 1 /\ readBuffer' = First
            /\ UNCHANGED <<buffers, alive, slot, counted>>
  /\ popper' = IF popper = "reading" THEN "testing" ELSE popper
  /\ UNCHANGED <<kind, state, producers, writeIndex, writeBuffer, ring, history>>

PopQueue ==
  /\ Popping /\ kind = "queue" /\ Marked
  /\ log' = Append(log, slot[First][readIndex])
  /\ IF readIndex + 1 = Size
       THEN /\ readIndex' = 0 /\ readBuffer' = NoBuffer
            /\ buffers' = Tail(buffers)
            /\ alive' = alive \ {First}
            /\ slot' = [slot EXCEPT ![First] = Blank]
            /\ counted' = [counted EXCEPT ![First] = 0]
       ELSE /\ readIndex' = readIndex + 1 /\ readBuffer' = First
            /\ UNCHANGED <<buffers, alive, slot, counted>>
  /\ popper' = IF popper = "reading" THEN "testing" ELSE popper
  /\ UNCHANGED <<kind, state, producers, writeIndex, writeBuffer, ring, history>>

PopRing ==
  /\ Popping /\ kind = "ring" /\ Ready
  /\ LET i == readIndex % RingSize
     IN log' = Append(log, ring[i]) /\ ring' = [ring EXCEPT ![i] = NoLine]
  /\ readIndex' = readIndex + 1
  /\ popper' = IF popper = "reading" THEN "testing" ELSE popper
  /\ UNCHANGED <<kind, state, producers, writeIndex, readBuffer, queueVars,
                 history>>

(* Mutant of PopNothing: pop() ends when there is nothing to pop. *)
PopNothingEnds ==
  /\ Popping /\ ~Ready
  /\ popper' = "ended"
  /\ UNCHANGED <<kind, state, producers, writeIndex, reading, queueVars, ring,
                 log, history>>

(* Nothing to pop: pop() sleeps and tests m_state again, or ends the drain. *)
PopNothing ==
  /\ Popping /\ ~Ready
  /\ popper' = IF popper = "reading" THEN "testing" ELSE "ended"
  /\ UNCHANGED <<kind, state, producers, writeIndex, reading, queueVars, ring,
                 log, history>>

(* Mutant of Test: nothing is popped after the shutdown. *)
TestEnds ==
  /\ \/ popper = "waiting" /\ state # "INIT" /\ popper' = "testing"
     \/ popper = "testing"
        /\ popper' = IF state = "READY" THEN "reading" ELSE "ended"
  /\ UNCHANGED <<kind, state, producers, writeIndex, reading, queueVars, ring,
                 log, history>>

(* NanoLogger::pop(), the conditions of its loops. *)
Test ==
  /\ \/ popper = "waiting" /\ state # "INIT" /\ popper' = "testing"
     \/ popper = "testing"
        /\ popper' = IF state = "READY" THEN "reading" ELSE "draining"
  /\ UNCHANGED <<kind, state, producers, writeIndex, reading, queueVars, ring,
                 log, history>>

(* The constructor ends; the destructor begins, at the exit of main(), when the
   threads that log have been joined.                                        *)
Start ==
  /\ state = "INIT" /\ state' = "READY"
  /\ UNCHANGED <<kind, popper, producers, writeIndex, reading, queueVars, ring,
                 log, history>>

Shutdown ==
  /\ state = "READY" /\ \A p \in Producers : pc[p] = "idle"
  /\ state' = "SHUTDOWN"
  /\ UNCHANGED <<kind, popper, producers, writeIndex, reading, queueVars, ring,
                 log, history>>

-----------------------------------------------------------------------------
Pushing(p) == \/ Spin(p) \/ (pc[p] = "again" /\ Claim(p)) \/ Load(p) \/ Mark(p)
              \/ Count(p) \/ Make(p) \/ Publish(p) \/ RingPut(p)
Log(p) == pc[p] = "idle" /\ (Claim(p) \/ RingClaim(p))
Pop == Test \/ PopQueue \/ PopRing \/ PopNothing

Next == \/ \E p \in Producers : Log(p) \/ Pushing(p)
        \/ Pop \/ Start \/ Shutdown

Spec == Init /\ [][Next]_vars

(* All threads are scheduled, as long as they are not waiting to be. *)
FairSpec == /\ Spec /\ WF_vars(Pop) /\ WF_vars(Start)
            /\ \A p \in Producers : WF_vars(Pushing(p))

-----------------------------------------------------------------------------
InLog(line) == \E i \in DOMAIN log : log[i] = line
Pushed(p) == {[by |-> p, nr |-> n] : n \in 1..sent[p]}

(* What waits in the slots that the consumer has yet to read. *)
Unread == {slot[b][i] : b \in alive, i \in Slots}
            \cup {ring[i] : i \in DOMAIN ring}

(* A line that was pushed is popped or waits where the consumer will find it,
   unless the ring was overrun or a producer counted in freed memory.        *)
LinesKept ==
  ~stray /\ ~overrun =>
    \A p \in Producers : \A line \in Pushed(p) : InLog(line) \/ line \in Unread

(* Lines of one thread are popped in their order, and none twice. *)
LinesInOrder ==
  ~stray /\ ~overrun =>
    \A i, j \in DOMAIN log :
      i < j /\ log[i].by = log[j].by => log[i].nr < log[j].nr

(* A producer that has claimed a slot owns it: the buffer it loads is the one
   its index is of, is not freed, and nobody else writes to the slot.        *)
SlotsExclusive ==
  ~stray =>
    \A p \in Producers :
      /\ pc[p] = "mark" => /\ into[p] = writeBuffer /\ into[p] \in alive
                           /\ slot[into[p]][index[p]] = NoLine
      /\ \A q \in Producers \ {p} : {pc[p], pc[q]} \subseteq {"load", "mark"} =>
           index[p] # index[q]

(* When the destructor has joined the logger's thread everything is popped. *)
DrainComplete ==
  ~stray /\ ~overrun /\ popper = "ended" =>
    \A p \in Producers : \A line \in Pushed(p) : InLog(line)

(* What is pushed is popped, as long as the program runs and when it ends. *)
LinesPopped ==
  \A line \in LogLines :
    line.nr <= sent[line.by] ~> InLog(line) \/ stray \/ overrun

(* NanoLog.hpp:140 "Provides a guarantee log lines will not be dropped."  False:
   when the producer of a buffer's last line counts after the buffer was freed,
   it may not see that it was the last, and nobody makes the next buffer.    *)
LinesNotDropped ==
  kind = "queue" =>
    \A line \in LogLines :
      pc[line.by] # "idle" /\ line = Line(line.by) ~> InLog(line)
=============================================================================
