------------------------------- MODULE LogLine -------------------------------
(* A line of the log (log/NanoLog.hpp, log/NanoLog.cpp): a thread that logs
   encodes the arguments, one after another, in a buffer that starts inside the
   line and grows on the heap; the logger's thread decodes them as text.

   Memory is cells of a byte.  The bytes of a value are <<value, 1>>, <<value, 2>>
   and so on, with values numbered from 1; Unset is memory nobody has written to. *)
EXTENDS Integers, Sequences, SequencesExt

CONSTANTS HeaderSize,    \* of time, thread, file, function, line, level
          StackSize,     \* sizeof m_stack_buffer
          HeapSize,      \* the least size on the heap
          Arguments,     \* the arguments considered, and
          MaxArguments,  \* bound: how many of them a line has
          Unset

ASSUME BuffersAssumption ==
  /\ {HeaderSize, StackSize, HeapSize, MaxArguments} \subseteq Nat
  /\ HeaderSize <= StackSize  \* the constructor does not test its space

(* SupportedTypes, in the order of their ids, and their sizes. *)
SupportedTypes == <<"char", "uint32", "uint64", "int32", "int64", "double", "literal", "string">>
SizeOf == [char |-> 1, uint32 |-> 4, uint64 |-> 8, int32 |-> 4, int64 |-> 8, double |-> 8,
           literal |-> 8]
TypeId(type) == (CHOOSE i \in DOMAIN SupportedTypes : SupportedTypes[i] = type) - 1

(* An argument is a value of a type with a size, or text: a C string (which may
   be null), a std::string, or a string_view.  Text has no NUL in it.         *)
TextTypes == {"cstring", "std::string", "string_view"}
ASSUME ArgumentsAssumption ==
  \A a \in Arguments : \/ a.type \in DOMAIN SizeOf
                       \/ a.type \in TextTypes /\ a.length \in Nat

VARIABLES args,  \* the arguments so far
          line   \* the line: its cells, how many are used and how many there are

NUL == <<0, 0>>
BytesOf(value, n) == [i \in 1..n |-> <<value, i>>]

-----------------------------------------------------------------------------
NewLine == [used |-> HeaderSize, size |-> StackSize, heap |-> FALSE, wild |-> FALSE,
            memory |-> [i \in 0..(StackSize - 1) |-> IF i < HeaderSize THEN "header" ELSE Unset]]

Larger(m, n) == IF m > n THEN m ELSE n

(* Mutant of resize_buffer_if_needed: the size doubles, whatever is required. *)
doubleBuffer(old, additional_bytes) ==
  IF old.used + additional_bytes <= old.size THEN old
  ELSE LET size == IF old.heap THEN 2 * old.size ELSE HeapSize
       IN [old EXCEPT !.size = size, !.heap = TRUE,
             !.memory = [i \in 0..(size - 1) |-> IF i < old.used THEN old.memory[i] ELSE Unset]]

resize_buffer_if_needed(old, additional_bytes) ==
  LET required_size == old.used + additional_bytes
  IN IF required_size <= old.size THEN old
     ELSE LET size == Larger(IF old.heap THEN 2 * old.size ELSE HeapSize, required_size)
          IN [old EXCEPT !.size = size, !.heap = TRUE,
                !.memory = [i \in 0..(size - 1) |->
                              IF i < old.used THEN old.memory[i] ELSE Unset]]

(* Bytes at buffer(); wild is a write past the end. *)
Put(old, bytes) ==
  [old EXCEPT
     !.memory = [i \in DOMAIN old.memory |->
                   IF i \in old.used..(old.used + Len(bytes) - 1)
                     THEN bytes[i - old.used + 1] ELSE old.memory[i]],
     !.used = @ + Len(bytes),
     !.wild = @ \/ old.used + Len(bytes) > old.size]

encode(old, value, type) ==
  Put(resize_buffer_if_needed(old, 1 + SizeOf[type]),
      <<TypeId(type)>> \o BytesOf(value, SizeOf[type]))

(* Text has the type of a char *, and is copied with the NUL at its end. *)
encode_c_string(old, value, length) ==
  Put(resize_buffer_if_needed(old, 1 + length + 1),
      <<TypeId("string")>> \o BytesOf(value, length) \o <<NUL>>)

(* operator<<: text that is null or empty is left out, but for a string_view. *)
Appended(before, value, arg) ==
  IF arg.type \in DOMAIN SizeOf THEN encode(before, value, arg.type)
  ELSE IF arg.length = 0 /\ arg.type # "string_view" THEN before
  ELSE encode_c_string(before, value, arg.length)

(* A thread logs: operator<< is called for one argument after another. *)
LineInit == args = <<>> /\ line = NewLine

Insert(arg) ==
  /\ Len(args) < MaxArguments
  /\ args' = args \o <<arg>>
  /\ line' = Appended(line, Len(args) + 1, arg)

LineNext == \E arg \in Arguments : Insert(arg)
LineSpec == LineInit /\ [][LineNext]_<<args, line>>

-----------------------------------------------------------------------------
(* stringify(): type by type, to the end of what is used.  A cell that has no
   type ends it.                                                              *)
TextEnd(b) ==  \* of the text at b
  CHOOSE e \in b..line.used : /\ e = line.used \/ line.memory[e] = NUL
                             /\ \A i \in b..(e - 1) : line.memory[i] # NUL
Cells(from, to) == [i \in 1..(to - from) |-> line.memory[from + i - 1]]

Decoded[b \in Nat] ==
  IF b >= line.used \/ line.memory[b] \notin 0..(Len(SupportedTypes) - 1) THEN <<>>
  ELSE LET type == SupportedTypes[line.memory[b] + 1]
       IN IF type = "string" THEN Cells(b + 1, TextEnd(b + 1)) \o Decoded[TextEnd(b + 1) + 1]
          ELSE <<<<type, Cells(b + 1, b + 1 + SizeOf[type])>>>> \o Decoded[b + 1 + SizeOf[type]]

stringify == Decoded[HeaderSize]

-----------------------------------------------------------------------------
Text(value, arg) ==
  IF arg.type \in DOMAIN SizeOf THEN <<<<arg.type, BytesOf(value, SizeOf[arg.type])>>>>
  ELSE BytesOf(value, arg.length)

(* What is logged is what was passed: the text of a line is that of its arguments,
   of the types they had and in their order, wherever in them the buffer has to
   grow, and no byte is written behind the buffer's end.                      *)
LinesRestored ==
  /\ ~line.wild
  /\ stringify = FlattenSeq([i \in DOMAIN args |-> Text(i, args[i])])
=============================================================================
