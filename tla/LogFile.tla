------------------------------- MODULE LogFile -------------------------------
(* The logger's file writer (log/NanoLog.cpp, log/day.hpp, log/tee.hpp) behind
   its buffers: each line that pop() takes is written to the file of the day.

   write() goes to the file, or, with echo, to a tee of stdout and the file.  A
   stream of either kind that has failed once stays silent until it is replaced,
   and only roll_file() replaces it, at the first line after midnight by the
   system clock, which is taken never to be set back.                          *)
EXTENDS NanoLog, SequencesExt

CONSTANT Streams  \* what a line is written to

ASSUME StreamsAssumption == Streams \in {{"file"}, {"file", "stdout"}}

VARIABLES
  good,    \* the stream that is written to has not failed
  file,    \* what the file of FileWriter::day has got
  dawn,    \* history: the length of the log before that file's first line
  failed   \* history: a stream has failed since

fileVars == <<good, file, dawn, failed>>
allVars == <<vars, fileVars>>

(* The constructor opens the first file, and may fail to. *)
FileInit ==
  /\ Init /\ good \in BOOLEAN
  /\ file = <<>> /\ dawn = 0 /\ failed = ~good

-----------------------------------------------------------------------------
(* Mutant of roll_file: the new file gets the old stream. *)
reopen(opened) == good /\ opened

(* A new stream, on the new day's file if that can be opened. *)
roll_file(opened) == opened

(* The tee gives each character to both of its ends, but stops at the first that
   either does not take.                                                       *)
Taken(failing) == failing = {}

(* One line is written; on another day than the one before, to another file.  It
   is lost when an end of the stream fails, and the stream stays silent then.  *)
write(line) ==
  \E midnight, opened \in BOOLEAN, failing \in SUBSET Streams :
    LET writable == IF midnight THEN roll_file(opened) ELSE good
        before == IF midnight THEN <<>> ELSE file
        written == writable /\ Taken(failing)
    IN /\ good' = written
       /\ file' = IF written THEN Append(before, line) ELSE before
       /\ dawn' = IF midnight THEN Len(log) ELSE dawn
       /\ failed' = \/ ~midnight /\ failed
                    \/ midnight /\ ~opened
                    \/ writable /\ ~Taken(failing)

Buffering == Next /\ log' = log /\ UNCHANGED fileVars
Writing == Next /\ log' # log /\ write(Last(log'))

FileNext == Buffering \/ Writing

FileSpec == FileInit /\ [][FileNext]_allVars

(* The fairness of FairSpec. *)
FairFileSpec ==
  /\ FileSpec /\ WF_vars(Pop) /\ WF_vars(Start)
  /\ \A p \in Producers : WF_vars(Pushing(p))

-----------------------------------------------------------------------------
(* A day's file has the lines popped on that day, in order.  From a failure on,
   even of stdout, lines are missing, but never one of the day after.         *)
LinesFiled ==
  LET today == SubSeq(log, dawn + 1, Len(log))
  IN IsPrefix(file, today) /\ (~failed => file = today)
=============================================================================
