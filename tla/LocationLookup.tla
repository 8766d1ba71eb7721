--------------------------- MODULE LocationLookup ---------------------------
(* Lookups of client addresses (client/mmdb.cpp) over the connections of
   ConnectionPool: who has acquired a connection writes a query to its buffer,
   sends the buffer, and reads until an empty line ends the answer.

   The service answers each query of a connection in turn; an answer arrives in
   two parts, of which the second has the empty line.  A query is sent as a
   whole, or not at all.                                                      *)
EXTENDS ConnectionPool

CONSTANT MaxLookups  \* bound: lookups in all

ASSUME MaxLookupsAssumption == MaxLookups \in Nat

VARIABLES
  asked,   \* lookups so far: their numbers
  query,   \* the lookup of each user, 0 for none
  answer,  \* what it got: 0 for nothing, or the number of the query answered
  step,    \* where each user is in fields()
  buffer,  \* of each connection: queries and parts of answers
  link,    \* of each connection, whose socket stays open when it breaks
  wire,    \* answers on their way
  inbox,   \* texts on their way to the service
  upset    \* history: connections on which an exchange has failed

client == <<asked, query, answer, step>>
peer == <<buffer, link, wire, inbox, upset>>
pool == <<available, total, admitted, held, due, mon, stop, leaked>>
allVars == <<pool, client, peer>>

Texts == [text : {"query", "begin", "end"}, nr : 1..MaxLookups]
Text(text, n) == [text |-> text, nr |-> n]

InitLookups ==
  /\ Init
  /\ asked = 0
  /\ query = [u \in Users |-> 0] /\ answer = [u \in Users |-> 0]
  /\ step = [u \in Users |-> "idle"]
  /\ buffer = [c \in Connections |-> <<>>]
  /\ link = [c \in Connections |-> "up"]
  /\ wire = [c \in Connections |-> <<>>]
  /\ inbox = [c \in Connections |-> <<>>]
  /\ upset = {}

-----------------------------------------------------------------------------
(* ~MMDBConnection(), of the connections that a step of the pool closes; what
   is left is what createMMDBPool() begins with.                             *)
ClosedBy(texts) == [c \in Connections |-> IF c \in Alive' THEN texts[c] ELSE <<>>]
Closing ==
  /\ buffer' = ClosedBy(buffer) /\ wire' = ClosedBy(wire) /\ inbox' = ClosedBy(inbox)
  /\ link' = [c \in Connections |-> IF c \in Alive' THEN link[c] ELSE "up"]
  /\ upset' = upset \cap Alive'

(* The proxy goes, when fields() has returned. *)
GiveBack(u) ==
  /\ step[u] \in {"idle", "done"}
  /\ Release(u)
  /\ step' = [step EXCEPT ![u] = "idle"]
  /\ query' = [query EXCEPT ![u] = 0] /\ answer' = [answer EXCEPT ![u] = 0]
  /\ Closing
  /\ UNCHANGED asked

(* execute(), up to send(): what the buffer held before goes along.  If send()
   throws, the query stays in the buffer; if the link is down, it may not.     *)
Ask(u) ==
  /\ held[u] # None /\ step[u] = "idle" /\ asked < MaxLookups
  /\ asked' = asked + 1
  /\ query' = [query EXCEPT ![u] = asked + 1]
  /\ LET c == held[u]
         texts == Append(buffer[c], Text("query", asked + 1))
     IN \/ /\ step' = [step EXCEPT ![u] = "reading"]
           /\ buffer' = [buffer EXCEPT ![c] = <<>>]
           /\ inbox' = IF link[c] = "up"
                         THEN [inbox EXCEPT ![c] = @ \o texts] ELSE inbox
           /\ UNCHANGED upset
        \/ /\ step' = [step EXCEPT ![u] = "done"]
           /\ buffer' = [buffer EXCEPT ![c] = texts]
           /\ upset' = upset \cup {c}
           /\ UNCHANGED inbox
  /\ UNCHANGED <<pool, answer, link, wire>>

(* Mutant of Ends: an answer ends with its first line. *)
LineEnds(texts) == {i \in DOMAIN texts : texts[i].text # "query"}

(* An empty line ends an answer. *)
Ends(texts) == {i \in DOMAIN texts : texts[i].text = "end"}

(* read_until(): some of what has arrived, until the buffer has an empty line;
   what is behind the line is thrown away.                                    *)
Read(u) ==
  /\ step[u] = "reading"
  /\ LET c == held[u]
     IN \E n \in 1..Len(wire[c]) :
          LET texts == buffer[c] \o SubSeq(wire[c], 1, n)
              ends == Ends(texts)
          IN /\ wire' = [wire EXCEPT ![c] = SubSeq(@, n + 1, Len(@))]
             /\ IF ends = {}
                  THEN /\ buffer' = [buffer EXCEPT ![c] = texts]
                       /\ UNCHANGED <<answer, step>>
                  ELSE /\ buffer' = [buffer EXCEPT ![c] = <<>>]
                       /\ answer' = [answer EXCEPT ![u] =
                            texts[CHOOSE i \in ends : \A j \in ends : i <= j].nr]
                       /\ step' = [step EXCEPT ![u] = "done"]
  /\ UNCHANGED <<pool, asked, query, link, inbox, upset>>

ReadEnds(u) ==
  /\ step' = [step EXCEPT ![u] = "done"]
  /\ upset' = upset \cup {held[u]}
  /\ UNCHANGED <<pool, asked, query, answer, buffer, link, wire, inbox>>

(* Mutant of EndOfFile: the end of the stream is waited out. *)
EndOfFileWaits(u) == FALSE /\ ReadEnds(u)

(* The link is down and everything was read: the buffer keeps a part. *)
EndOfFile(u) == /\ step[u] = "reading" /\ link[held[u]] = "down"
                /\ wire[held[u]] = <<>>
                /\ ReadEnds(u)

(* A signal interrupts the read, which is not taken up again. *)
Interrupted(u) == step[u] = "reading" /\ ReadEnds(u)

-----------------------------------------------------------------------------
(* What the service answers to a text: to parts of answers nothing.  (External.) *)
Answer(n) == <<Text("begin", n), Text("end", n)>>
AnswerTo(text) == IF text.text = "query" THEN Answer(text.nr) ELSE <<>>

(* The service answers.  (External.) *)
Serve(c) ==
  /\ inbox[c] # <<>> /\ link[c] = "up"
  /\ inbox' = [inbox EXCEPT ![c] = Tail(@)]
  /\ wire' = [wire EXCEPT ![c] = @ \o AnswerTo(Head(inbox[c]))]
  /\ UNCHANGED <<pool, client, buffer, link, upset>>

(* The service, or the network, goes; some of the answers still arrive. *)
Break(c) ==
  /\ c \in Alive /\ link[c] = "up"
  /\ link' = [link EXCEPT ![c] = "down"]
  /\ inbox' = [inbox EXCEPT ![c] = <<>>]
  /\ \E n \in 0..Len(wire[c]) : wire' = [wire EXCEPT ![c] = SubSeq(@, 1, n)]
  /\ UNCHANGED <<pool, client, buffer, upset>>

-----------------------------------------------------------------------------
OfPool == \/ \E u \in Users : Admit(u) \/ Acquire(u)
          \/ Monitor \/ Destroy \/ Tick

NextLookup ==
  \/ OfPool /\ Closing /\ UNCHANGED client
  \/ \E u \in Users : \/ GiveBack(u) \/ Ask(u) \/ Read(u)
                      \/ EndOfFile(u) \/ Interrupted(u)
  \/ \E c \in Connections : Serve(c) \/ Break(c)

SpecLookups == InitLookups /\ [][NextLookup]_allVars

(* The monitor and the time of the pool; the service answers while its link is
   up, and who reads is told of what arrives, or that nothing more will.      *)
FairLookups ==
  /\ SpecLookups
  /\ WF_pool(Monitor)
  /\ WF_pool(Tick)
  /\ \A c \in Connections : WF_allVars(Serve(c))
  /\ \A u \in Users : WF_allVars(Read(u) \/ EndOfFile(u))

-----------------------------------------------------------------------------
(* A lookup gets the answer to its own query, whoever used the connection
   before: until an exchange on it has failed, for then the answer to a query
   that was given up may come first (mmdb.cpp:93).                           *)
AnswersMatch ==
  \A u \in Users :
    answer[u] # 0 /\ held[u] \notin upset => answer[u] = query[u]

(* A lookup ends, though no timeout bounds it (mmdb.cpp:92), as long as the
   service answers, or its end of the link is closed.                        *)
LookupsEnd == \A u \in Users : step[u] = "reading" ~> step[u] # "reading"
=============================================================================
