--------------------------- MODULE ConnectionPool ---------------------------
(* The connection pool (client/pool.hpp): threads acquire and release
   connections, and a monitor thread closes those that were idle too long.

   Every step is one critical section of the pool's mutex, except the test of
   the limit, which reads the count without it.  acquire() hands out the
   connection that has been idle longest, release() puts it at the back.     *)
EXTENDS Integers, FiniteSets, Sequences

CONSTANTS Users,           \* threads that use the pool
          Connections,     \* bound: connections that exist at one time
          None,            \* no connection
          InitialSize, MaxPoolSize, MaxConnections,
          MaxIdleTime,     \* in ticks
          Revocable        \* users may mark a connection invalid

ASSUME UsersAssumption == IsFiniteSet(Users) /\ IsFiniteSet(Connections)
ASSUME NoneAssumption == None \notin Connections
ASSUME SizesAssumption ==
  /\ {InitialSize, MaxPoolSize} \subseteq Nat
  /\ {MaxConnections, MaxIdleTime} \subseteq Nat \ {0}
  /\ InitialSize <= Cardinality(Connections)
ASSUME RevocableAssumption == Revocable \in BOOLEAN

VARIABLES
  available,  \* idle connections with the ticks since their release
  total,      \* connections counted as in use
  admitted,   \* users that passed the limit and wait for the lock
  held,       \* the connection each user holds
  due,        \* idle too long when the monitor's scan read the clock
  mon,        \* where the monitor is
  stop,       \* the destructor has run
  leaked      \* history: slots counted by acquires whose factory threw

vars == <<available, total, admitted, held, due, mon, stop, leaked>>

-----------------------------------------------------------------------------
IdleConnections == {available[i].con : i \in DOMAIN available}
Holders == {u \in Users : held[u] # None}
Alive == IdleConnections \cup {held[u] : u \in Holders}
Outside(u) == u \notin admitted /\ held[u] = None

(* The constructor's connections; if one cannot be made there is no pool. *)
Init ==
  /\ \E initial \in [1..InitialSize -> Connections] :
       /\ \A i, j \in 1..InitialSize : initial[i] = initial[j] => i = j
       /\ available = [i \in 1..InitialSize |-> [con |-> initial[i], age |-> 0]]
  /\ total = 0
  /\ admitted = {}
  /\ held = [u \in Users |-> None]
  /\ due = {}
  /\ mon = "asleep"
  /\ stop = FALSE
  /\ leaked = 0

-----------------------------------------------------------------------------
(* Mutant of Admit: the limit is tested with > instead of >=. *)
AdmitOneMore(u) ==
  /\ ~stop /\ Outside(u) /\ total <= MaxConnections
  /\ admitted' = admitted \cup {u}
  /\ UNCHANGED <<available, total, held, due, mon, stop, leaked>>

(* acquire(), line 105, before the lock is taken.  A full pool answers nullopt,
   which changes nothing.                                                    *)
Admit(u) ==
  /\ ~stop /\ Outside(u)
  /\ total < MaxConnections
  /\ admitted' = admitted \cup {u}
  /\ UNCHANGED <<available, total, held, due, mon, stop, leaked>>

(* Mutant of TakeIdle: the front connection is copied, and stays. *)
TakeCopy(u) ==
  /\ u \in admitted /\ available # <<>>
  /\ admitted' = admitted \ {u}
  /\ total' = total + 1
  /\ held' = [held EXCEPT ![u] = Head(available).con]
  /\ UNCHANGED <<available, due, mon, stop, leaked>>

(* acquire() with an idle connection at the front. *)
TakeIdle(u) ==
  /\ u \in admitted /\ available # <<>>
  /\ admitted' = admitted \ {u}
  /\ total' = total + 1
  /\ held' = [held EXCEPT ![u] = Head(available).con]
  /\ available' = Tail(available)
  /\ due' = due \ {Head(available).con}
  /\ UNCHANGED <<mon, stop, leaked>>

(* acquire() with none: the factory connects, under the lock. *)
Create(u) ==
  /\ u \in admitted /\ available = <<>>
  /\ admitted' = admitted \ {u}
  /\ total' = total + 1
  /\ \E c \in Connections \ Alive : held' = [held EXCEPT ![u] = c]
  /\ UNCHANGED <<available, due, mon, stop, leaked>>

(* The factory throws, after the count was raised. *)
CreateFails(u) ==
  /\ u \in admitted /\ available = <<>>
  /\ admitted' = admitted \ {u}
  /\ total' = total + 1
  /\ leaked' = leaked + 1
  /\ UNCHANGED <<available, held, due, mon, stop>>

(* Mutant of Release: an invalid connection returns before it is counted. *)
ReleaseValid(u) ==
  /\ held[u] # None
  /\ held' = [held EXCEPT ![u] = None]
  /\ \/ /\ Len(available) < MaxPoolSize /\ total' = total - 1
        /\ available' = Append(available, [con |-> held[u], age |-> 0])
     \/ Revocable /\ UNCHANGED <<available, total>>
  /\ UNCHANGED <<admitted, due, mon, stop, leaked>>

(* Mutant of Release: the pool is a stack. *)
ReleaseFront(u) ==
  /\ held[u] # None
  /\ total' = total - 1
  /\ held' = [held EXCEPT ![u] = None]
  /\ available' = IF Len(available) < MaxPoolSize
                    THEN <<[con |-> held[u], age |-> 0]>> \o available
                    ELSE available
  /\ UNCHANGED <<admitted, due, mon, stop, leaked>>

(* ~Proxy: release().  An invalid connection, and one more than maxPoolSize,
   is closed.                                                                *)
Release(u) ==
  /\ held[u] # None
  /\ total' = total - 1
  /\ held' = [held EXCEPT ![u] = None]
  /\ \E valid \in (IF Revocable THEN BOOLEAN ELSE {TRUE}) :
       available' = IF valid /\ Len(available) < MaxPoolSize
                      THEN Append(available, [con |-> held[u], age |-> 0])
                      ELSE available
  /\ UNCHANGED <<admitted, due, mon, stop, leaked>>

-----------------------------------------------------------------------------
(* The idle connections that have not been used for maxIdleTime. *)
Expired == {available[i].con : i \in {j \in DOMAIN available :
                                         available[j].age >= MaxIdleTime}}

(* removeExpired() reads the clock before it takes the lock. *)
StartScan ==
  /\ mon = "asleep" /\ ~stop
  /\ mon' = "scanning"
  /\ due' = Expired
  /\ UNCHANGED <<available, total, admitted, held, stop, leaked>>

(* One turn of its loop: the front connection is closed, or ends the scan. *)
ScanFront ==
  /\ mon = "scanning"
  /\ IF available # <<>> /\ Head(available).con \in due
       THEN /\ available' = Tail(available)
            /\ due' = due \ {Head(available).con}
            /\ UNCHANGED mon
       ELSE mon' = "asleep" /\ due' = {} /\ UNCHANGED available
  /\ UNCHANGED <<total, admitted, held, stop, leaked>>

(* ~Pool, once nobody uses the pool, and the end of ttlMonitor(). *)
Destroy ==
  /\ ~stop /\ \A u \in Users : Outside(u)
  /\ stop' = TRUE
  /\ UNCHANGED <<available, total, admitted, held, due, mon, leaked>>

EndMonitor ==
  /\ mon = "asleep" /\ stop
  /\ mon' = "ended"
  /\ UNCHANGED <<available, total, admitted, held, due, stop, leaked>>

(* A second passes.  Only ages up to MaxIdleTime make a difference. *)
Older(a) == IF a < MaxIdleTime THEN a + 1 ELSE a
Tick ==
  /\ \E i \in DOMAIN available : available[i].age < MaxIdleTime
  /\ available' = [i \in DOMAIN available |->
                     [available[i] EXCEPT !.age = Older(available[i].age)]]
  /\ UNCHANGED <<total, admitted, held, due, mon, stop, leaked>>

-----------------------------------------------------------------------------
Acquire(u) == TakeIdle(u) \/ Create(u) \/ CreateFails(u)
Monitor == StartScan \/ ScanFront \/ EndMonitor

Next ==
  \/ \E u \in Users : Admit(u) \/ Acquire(u) \/ Release(u)
  \/ Monitor \/ Destroy \/ Tick

Spec == Init /\ [][Next]_vars

(* The monitor thread runs and time passes; users may hold on for ever. *)
FairSpec == Spec /\ WF_vars(Monitor) /\ WF_vars(Tick)

-----------------------------------------------------------------------------
TypeOK ==
  /\ available \in Seq([con : Connections, age : 0..MaxIdleTime])
  /\ total \in Nat /\ leaked \in Nat
  /\ admitted \subseteq Users
  /\ held \in [Users -> Connections \cup {None}]
  /\ due \subseteq Connections
  /\ mon \in {"asleep", "scanning", "ended"}
  /\ stop \in BOOLEAN

(* The count is the connections in use, and the slots that failed factories
   kept (pool.hpp:108, 113): nothing else is lost, and it never wraps.       *)
SlotsAccounted == total = Cardinality(Holders) + leaked

(* The limit is tested before the lock is taken (pool.hpp:105), so threads may
   pass it together: by no more than all of them but one, even if factories
   that throw have used slots up.                                            *)
UseBounded == total + Cardinality(admitted) < MaxConnections + Cardinality(Users)

(* A connection is idle once, or used by one thread: two threads never write
   their queries to one socket.                                              *)
Exclusive ==
  /\ \A u, v \in Holders : held[u] = held[v] => u = v
  /\ \A i, j \in DOMAIN available : available[i].con = available[j].con => i = j
  /\ \A u \in Holders : held[u] \notin IdleConnections

(* No more connections are kept idle than maxPoolSize, or than there were at
   the start (pool.hpp:85, 128).                                             *)
IdleBounded == Len(available) <= MaxPoolSize \/ Len(available) <= InitialSize

(* Connections are idle in the order of their release, the oldest first, so
   those a scan must close are the first ones: what removeExpired() relies on
   when it looks at nothing but the front.                                   *)
OldestFirst ==
  /\ \A i, j \in DOMAIN available : i < j =>
       /\ available[i].age >= available[j].age
       /\ available[j].con \in due => available[i].con \in due
  /\ due \subseteq IdleConnections
  /\ mon # "scanning" => due = {}

(* A scan stops at the first connection that is not due (pool.hpp:161), and
   yet leaves none that was due when it read the clock: whatever is released
   or acquired meanwhile, the idle connections are in the order of their age. *)
ScansComplete ==
  [][mon = "scanning" /\ mon' = "asleep" => due \cap IdleConnections' = {}]_vars

(* No connection stays idle for ever, however fast others come and go. *)
IdleClosed == \A c \in Connections : c \in IdleConnections /\ ~stop
                                        ~> c \notin IdleConnections \/ stop
=============================================================================
