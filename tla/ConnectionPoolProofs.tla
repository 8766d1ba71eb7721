------------------------ MODULE ConnectionPoolProofs ------------------------
(* Theorems about ConnectionPool, for any finite set of users, any sizes and
   limits; and about LocationLookup: its users use the pool as ConnectionPool lets
   them, and a lookup gets its own answer, for any number of lookups, with and
   without revocable connections.                                              *)
EXTENDS LocationLookup, FiniteSetTheorems, SequenceTheorems, TLAPS

-----------------------------------------------------------------------------
Idle == [con : Connections, age : 0..MaxIdleTime]

-----------------------------------------------------------------------------
(* What taking the front connection leaves. *)
LEMMA Popped ==
  ASSUME NEW S, NEW s \in Seq(S), s # <<>>
  PROVE  /\ Head(s) = s[1] /\ Head(s) \in S /\ Tail(s) \in Seq(S)
         /\ Len(s) \in Nat \ {0} /\ Len(Tail(s)) = Len(s) - 1
         /\ DOMAIN s = 1..Len(s) /\ DOMAIN Tail(s) = 1..(Len(s) - 1)
         /\ \A i \in 1..(Len(s) - 1) : Tail(s)[i] = s[i + 1]
<1>1. Len(s) \in Nat /\ DOMAIN s = 1..Len(s) /\ Len(s) # 0
  BY EmptySeq
<1>2. Head(s) = s[1] /\ Head(s) \in S /\ Tail(s) \in Seq(S)
  BY HeadTailProperties
<1>3. Len(Tail(s)) = Len(s) - 1 /\ \A i \in 1..(Len(s) - 1) : Tail(s)[i] = s[i + 1]
  BY HeadTailProperties
<1> QED
  BY <1>1, <1>2, <1>3

(* What releasing a connection adds. *)
LEMMA Pushed ==
  ASSUME NEW S, NEW s \in Seq(S), NEW e \in S
  PROVE  /\ Append(s, e) \in Seq(S)
         /\ Len(s) \in Nat /\ Len(Append(s, e)) = Len(s) + 1
         /\ DOMAIN s = 1..Len(s) /\ DOMAIN Append(s, e) = 1..(Len(s) + 1)
         /\ \A i \in 1..Len(s) : Append(s, e)[i] = s[i]
         /\ Append(s, e)[Len(s) + 1] = e
BY AppendProperties

(* What the idle connections are. *)
LEMMA IdleTyped ==
  ASSUME TypeOK
  PROVE  /\ available \in Seq(Idle) /\ Len(available) \in Nat
         /\ DOMAIN available = 1..Len(available)
         /\ \A i \in DOMAIN available : /\ available[i] \in Idle
                                       /\ available[i].con \in Connections
                                       /\ available[i].age \in Nat
<1>1. available \in Seq(Idle) /\ Len(available) \in Nat /\ DOMAIN available = 1..Len(available)
  BY LenProperties DEF TypeOK, Idle
<1>2. \A i \in DOMAIN available : available[i] \in Idle
  BY <1>1, ElementOfSeq
<1> QED
  BY <1>1, <1>2 DEF Idle

(* The idle connections without the front one, which is idle only once. *)
LEMMA IdlePopped ==
  ASSUME TypeOK, Exclusive, available # <<>>, available' = Tail(available)
  PROVE  /\ IdleConnections' = IdleConnections \ {Head(available).con}
         /\ Head(available).con \in IdleConnections
         /\ Head(available).con \in Connections
<1> DEFINE n == Len(available)
<1> USE DEF TypeOK
<1>1. /\ Head(available) = available[1] /\ Head(available) \in Idle
      /\ n \in Nat \ {0} /\ DOMAIN available = 1..n /\ DOMAIN available' = 1..(n - 1)
      /\ \A i \in 1..(n - 1) : available'[i] = available[i + 1]
  BY Popped DEF Idle
<1> HIDE DEF TypeOK
<1>2. IdleConnections = {available[i].con : i \in 1..n}
  BY <1>1 DEF IdleConnections
<1>3. IdleConnections' = {available'[i].con : i \in 1..(n - 1)}
  BY <1>1 DEF IdleConnections
<1>4. \A i \in 1..(n - 1) : i + 1 \in 1..n /\ i + 1 # 1
  BY <1>1
<1>5. \A i \in 1..n : i = 1 \/ (i - 1 \in 1..(n - 1) /\ (i - 1) + 1 = i)
  BY <1>1
<1>6. \A i \in 1..n : available[i].con = available[1].con => i = 1
  BY <1>1 DEF Exclusive
<1>7. 1 \in 1..n
  BY <1>1
<1>8. IdleConnections' \subseteq IdleConnections \ {available[1].con}
  BY <1>1, <1>2, <1>3, <1>4, <1>6
<1>9. IdleConnections \ {available[1].con} \subseteq IdleConnections'
  BY <1>1, <1>2, <1>3, <1>5
<1>10. available[1].con \in IdleConnections
  BY <1>2, <1>7
<1> QED
  BY <1>1, <1>8, <1>9, <1>10 DEF Idle

(* The idle connections with one more at the back. *)
LEMMA IdlePushed ==
  ASSUME TypeOK, NEW e \in Idle, available' = Append(available, e)
  PROVE  IdleConnections' = IdleConnections \cup {e.con}
<1> DEFINE n == Len(available)
<1>1. /\ n \in Nat /\ DOMAIN available = 1..n /\ DOMAIN available' = 1..(n + 1)
      /\ \A i \in 1..n : available'[i] = available[i]
      /\ available'[n + 1] = e
  BY Pushed DEF TypeOK, Idle
<1>2. IdleConnections = {available[i].con : i \in 1..n}
  BY <1>1 DEF IdleConnections
<1>3. IdleConnections' = {available'[i].con : i \in 1..(n + 1)}
  BY <1>1 DEF IdleConnections
<1>4. \A i \in 1..(n + 1) : i \in 1..n \/ i = n + 1
  BY <1>1
<1>5. 1..n \subseteq 1..(n + 1) /\ n + 1 \in 1..(n + 1)
  BY <1>1
<1>6. IdleConnections' \subseteq IdleConnections \cup {e.con}
  BY <1>1, <1>2, <1>3, <1>4
<1>7. IdleConnections \subseteq IdleConnections'
  BY <1>1, <1>2, <1>3, <1>5
<1>8. e.con \in IdleConnections'
  BY <1>1, <1>3, <1>5
<1> QED
  BY <1>6, <1>7, <1>8

-----------------------------------------------------------------------------
(* Type correctness. *)

(* Typing holds when the pool is made. *)
LEMMA InitTypeOK == Init => TypeOK
<1> SUFFICES ASSUME Init PROVE TypeOK
  OBVIOUS
<1>1. PICK initial \in [1..InitialSize -> Connections] :
        available = [i \in 1..InitialSize |-> [con |-> initial[i], age |-> 0]]
  BY DEF Init
<1>2. \A i \in 1..InitialSize : [con |-> initial[i], age |-> 0] \in Idle
  BY SizesAssumption DEF Idle
<1>3. available \in Seq(Idle)
  BY <1>1, <1>2, SizesAssumption
<1> QED
  BY <1>3 DEF Init, TypeOK, Idle

(* Every step of the pool keeps its variables in their types.  The count stays
   a natural number because SlotsAccounted says what it counts.              *)
LEMMA NextTypeOK ==
  ASSUME TypeOK, SlotsAccounted, Exclusive, [Next]_vars
  PROVE  TypeOK'
<1> USE NoneAssumption DEF TypeOK
<1>0. available \in Seq(Idle) /\ Len(available) \in Nat /\ DOMAIN available = 1..Len(available)
  BY LenProperties DEF Idle
<1>1. ASSUME NEW u \in Users, Admit(u) PROVE TypeOK'
  BY <1>1 DEF Admit
<1>2. ASSUME NEW u \in Users, TakeIdle(u) PROVE TypeOK'
  <2>1. Head(available) \in Idle /\ available' \in Seq(Idle)
    BY <1>0, <1>2, Popped DEF TakeIdle
  <2> QED
    BY <1>2, <2>1 DEF TakeIdle, Idle
<1>3. ASSUME NEW u \in Users, Create(u) PROVE TypeOK'
  BY <1>3 DEF Create
<1>4. ASSUME NEW u \in Users, CreateFails(u) PROVE TypeOK'
  BY <1>4 DEF CreateFails
<1>5. ASSUME NEW u \in Users, Release(u) PROVE TypeOK'
  <2>1. held[u] \in Connections
    BY <1>5 DEF Release
  <2>2. available' \in Seq(Idle)
    <3>1. [con |-> held[u], age |-> 0] \in Idle
      BY <2>1, SizesAssumption DEF Idle
    <3>2. Append(available, [con |-> held[u], age |-> 0]) \in Seq(Idle)
      BY <3>1, AppendProperties DEF Idle
    <3> QED
      BY <1>5, <3>2 DEF Release, Idle
  <2>3. Cardinality(Holders) \in Nat \ {0}
    <3>1. IsFiniteSet(Holders) /\ u \in Holders
      BY <1>5, UsersAssumption, FS_Subset DEF Release, Holders
    <3> QED
      BY <3>1, FS_EmptySet, FS_CardinalityType
  <2>4. total' \in Nat
    BY <1>5, <2>3 DEF Release, SlotsAccounted
  <2> QED
    BY <1>5, <2>2, <2>4 DEF Release, Idle
<1>6. CASE StartScan
  <2>1. Expired \subseteq Connections
    <3>1. \A i \in DOMAIN available : available[i] \in Idle
      BY <1>0, ElementOfSeq
    <3> QED
      BY <3>1 DEF Expired, Idle
  <2> QED
    BY <1>6, <2>1 DEF StartScan
<1>7. CASE ScanFront
  <2>1. CASE available' = Tail(available) /\ available # <<>>
    <3>1. available' \in Seq(Idle)
      BY <2>1, Popped DEF Idle
    <3> QED
      BY <1>7, <3>1 DEF ScanFront, Idle
  <2> QED
    BY <1>7, <2>1 DEF ScanFront
<1>8. CASE EndMonitor \/ Destroy
  BY <1>8 DEF EndMonitor, Destroy
<1>9. CASE Tick
  <2> DEFINE n == Len(available)
             aged(i) == [available[i] EXCEPT !.age = Older(available[i].age)]
  <2>1. n \in Nat /\ DOMAIN available = 1..n
    BY LenProperties
  <2>2. \A i \in 1..n : available[i] \in Idle
    BY <2>1, ElementOfSeq DEF Idle
  <2>3. \A a \in 0..MaxIdleTime : Older(a) \in 0..MaxIdleTime
    BY SizesAssumption DEF Older
  <2>4. \A i \in 1..n : aged(i) \in Idle
    BY <2>2, <2>3 DEF Idle
  <2>5. available' = [i \in 1..n |-> aged(i)]
    BY <1>9, <2>1 DEF Tick
  <2>6. available' \in Seq(Idle)
    BY <2>1, <2>4, <2>5
  <2> QED
    BY <1>9, <2>6 DEF Tick, Idle
<1>10. CASE UNCHANGED vars
  BY <1>10 DEF vars
<1> QED
  BY <1>1, <1>2, <1>3, <1>4, <1>5, <1>6, <1>7, <1>8, <1>9, <1>10
  DEF Next, Acquire, Monitor

-----------------------------------------------------------------------------
(* Counting. *)

(* A user that waits for the lock has no connection yet. *)
WaitersEmptyHanded == \A u \in admitted : held[u] = None

(* A user gets a connection: one more holder. *)
LEMMA OneMoreHolder ==
  ASSUME TypeOK, NEW u \in Users, held[u] = None, NEW c \in Connections,
         held' = [held EXCEPT ![u] = c]
  PROVE  Cardinality(Holders') = Cardinality(Holders) + 1
<1>1. Holders' = Holders \cup {u} /\ u \notin Holders
  BY NoneAssumption DEF TypeOK, Holders
<1>2. IsFiniteSet(Holders)
  BY UsersAssumption, FS_Subset DEF Holders
<1> QED
  BY <1>1, <1>2, FS_AddElement

(* A user gives one back: one holder less. *)
LEMMA OneHolderLess ==
  ASSUME TypeOK, NEW u \in Users, held[u] # None,
         held' = [held EXCEPT ![u] = None]
  PROVE  Cardinality(Holders') = Cardinality(Holders) - 1
<1>1. Holders' = Holders \ {u} /\ u \in Holders
  BY DEF TypeOK, Holders
<1>2. IsFiniteSet(Holders)
  BY UsersAssumption, FS_Subset DEF Holders
<1> QED
  BY <1>1, <1>2, FS_RemoveElement

(* A user leaves the queue for the lock. *)
LEMMA OneWaiterLess ==
  ASSUME TypeOK, NEW u \in admitted, admitted' = admitted \ {u}
  PROVE  Cardinality(admitted') = Cardinality(admitted) - 1 /\ Cardinality(admitted) \in Nat
<1>1. IsFiniteSet(admitted)
  BY UsersAssumption, FS_Subset DEF TypeOK
<1> QED
  BY <1>1, FS_RemoveElement, FS_CardinalityType

(* Every slot stays accounted for. *)
LEMMA SlotsStayAccounted ==
  ASSUME TypeOK, SlotsAccounted, WaitersEmptyHanded, [Next]_vars
  PROVE  SlotsAccounted'
<1>0. Cardinality(Holders) \in Nat
  BY UsersAssumption, FS_Subset, FS_CardinalityType DEF Holders
<1>1. ASSUME NEW u \in Users, TakeIdle(u) PROVE SlotsAccounted'
  <2>0. available \in Seq(Idle) /\ available # <<>>
    BY <1>1 DEF TypeOK, TakeIdle, Idle
  <2>3. Head(available) \in Idle
    BY <2>0, Popped
  <2>1. Head(available).con \in Connections
    BY <2>3 DEF Idle
  <2>2. Cardinality(Holders') = Cardinality(Holders) + 1
    BY <1>1, <2>1, OneMoreHolder DEF TakeIdle, WaitersEmptyHanded
  <2> QED
    BY <1>0, <1>1, <2>2 DEF TakeIdle, SlotsAccounted, TypeOK
<1>2. ASSUME NEW u \in Users, Create(u) PROVE SlotsAccounted'
  <2>1. Cardinality(Holders') = Cardinality(Holders) + 1
    BY <1>2, OneMoreHolder DEF Create, WaitersEmptyHanded
  <2> QED
    BY <1>0, <1>2, <2>1 DEF Create, SlotsAccounted, TypeOK
<1>3. ASSUME NEW u \in Users, CreateFails(u) PROVE SlotsAccounted'
  BY <1>0, <1>3 DEF CreateFails, SlotsAccounted, TypeOK, Holders
<1>4. ASSUME NEW u \in Users, Release(u) PROVE SlotsAccounted'
  <2>1. Cardinality(Holders') = Cardinality(Holders) - 1
    BY <1>4, OneHolderLess DEF Release
  <2> QED
    BY <1>0, <1>4, <2>1 DEF Release, SlotsAccounted, TypeOK
<1>5. CASE UNCHANGED <<total, held, leaked>>
  BY <1>5 DEF SlotsAccounted, Holders
<1> QED
  BY <1>1, <1>2, <1>3, <1>4, <1>5
  DEF Next, Acquire, Monitor, Admit, StartScan, ScanFront, EndMonitor, Destroy, Tick, vars

(* The limit is overshot by less than the number of users. *)
LEMMA UseStaysBounded ==
  ASSUME TypeOK, UseBounded, [Next]_vars
  PROVE  UseBounded'
<1>0. /\ Cardinality(Users) \in Nat /\ Cardinality(admitted) \in Nat
      /\ MaxConnections \in Nat
  BY UsersAssumption, SizesAssumption, FS_Subset, FS_CardinalityType DEF TypeOK
<1>1. ASSUME NEW u \in Users, Admit(u) PROVE UseBounded'
  <2>1. admitted' \subseteq Users
    BY <1>1 DEF Admit, TypeOK
  <2>2. Cardinality(admitted') <= Cardinality(Users) /\ Cardinality(admitted') \in Nat
    BY <2>1, UsersAssumption, FS_Subset, FS_CardinalityType
  <2> QED
    BY <1>0, <1>1, <2>2 DEF Admit, UseBounded, TypeOK
<1>2. ASSUME NEW u \in Users, Acquire(u) PROVE UseBounded'
  <2>1. total' = total + 1 /\ u \in admitted /\ admitted' = admitted \ {u}
    BY <1>2 DEF Acquire, TakeIdle, Create, CreateFails
  <2>2. Cardinality(admitted') = Cardinality(admitted) - 1
    BY <2>1, OneWaiterLess
  <2> QED
    BY <1>0, <2>1, <2>2 DEF UseBounded, TypeOK
<1>3. ASSUME NEW u \in Users, Release(u) PROVE UseBounded'
  BY <1>0, <1>3 DEF Release, UseBounded, TypeOK
<1>4. CASE UNCHANGED <<total, admitted>>
  BY <1>4 DEF UseBounded
<1> QED
  BY <1>1, <1>2, <1>3, <1>4
  DEF Next, Monitor, StartScan, ScanFront, EndMonitor, Destroy, Tick, vars

(* Waiters stay empty-handed. *)
LEMMA WaitersStayEmptyHanded ==
  ASSUME TypeOK, WaitersEmptyHanded, [Next]_vars
  PROVE  WaitersEmptyHanded'
BY DEF TypeOK, WaitersEmptyHanded, Next, Admit, Outside, Acquire, TakeIdle, Create,
       CreateFails, Release, Monitor, StartScan, ScanFront, EndMonitor, Destroy, Tick, vars

-----------------------------------------------------------------------------
(* No connection is in two places. *)

(* Taking the front connection: whoever has it now is the only one. *)
LEMMA PoppedExclusive ==
  ASSUME TypeOK, Exclusive, available # <<>>, available' = Tail(available)
  PROVE  \A i, j \in DOMAIN available' : available'[i].con = available'[j].con => i = j
<1> DEFINE n == Len(available)
<1>1. /\ n \in Nat \ {0} /\ DOMAIN available = 1..n /\ DOMAIN available' = 1..(n - 1)
      /\ \A i \in 1..(n - 1) : available'[i] = available[i + 1]
  BY Popped DEF TypeOK
<1>2. \A i \in 1..(n - 1) : i + 1 \in 1..n
  BY <1>1
<1> QED
  BY <1>1, <1>2 DEF Exclusive

(* Putting one at the back that was not idle. *)
LEMMA PushedExclusive ==
  ASSUME TypeOK, Exclusive, NEW e \in Idle, e.con \notin IdleConnections,
         available' = Append(available, e)
  PROVE  \A i, j \in DOMAIN available' : available'[i].con = available'[j].con => i = j
<1> DEFINE n == Len(available)
<1>1. /\ n \in Nat /\ DOMAIN available = 1..n /\ DOMAIN available' = 1..(n + 1)
      /\ \A i \in 1..n : available'[i] = available[i]
      /\ available'[n + 1] = e
  BY Pushed DEF TypeOK, Idle
<1>2. \A i \in 1..(n + 1) : i \in 1..n \/ i = n + 1
  BY <1>1
<1>3. \A i \in 1..n : available[i].con # e.con
  BY <1>1 DEF IdleConnections
<1> QED
  BY <1>1, <1>2, <1>3 DEF Exclusive

(* Time does not change which connections are where. *)
LEMMA AgedAlike ==
  ASSUME Tick
  PROVE  /\ DOMAIN available' = DOMAIN available
         /\ \A i \in DOMAIN available :
              /\ available'[i] = [available[i] EXCEPT !.age = Older(available[i].age)]
BY DEF Tick

(* Time does not change which connections are idle. *)
LEMMA AgedIdle ==
  ASSUME TypeOK, Tick
  PROVE  /\ \A i \in DOMAIN available :
              /\ available'[i].con = available[i].con
              /\ available'[i].age = Older(available[i].age)
         /\ IdleConnections' = IdleConnections
<1>1. \A i \in DOMAIN available : available[i] \in Idle
  BY LenProperties, ElementOfSeq DEF TypeOK, Idle
<1>2. \A i \in DOMAIN available : /\ available'[i].con = available[i].con
                                  /\ available'[i].age = Older(available[i].age)
  BY <1>1, AgedAlike DEF Idle
<1> QED
  BY <1>2, AgedAlike DEF IdleConnections

(* Connections stay in one place each. *)
LEMMA StaysExclusive ==
  ASSUME TypeOK, Exclusive, [Next]_vars
  PROVE  Exclusive'
<1> USE NoneAssumption DEF Holders
<1>1. ASSUME NEW u \in Users, TakeIdle(u) PROVE Exclusive'
  <2>1. /\ IdleConnections' = IdleConnections \ {Head(available).con}
        /\ Head(available).con \in IdleConnections
        /\ Head(available).con \in Connections
    BY <1>1, IdlePopped DEF TakeIdle
  <2>2. \A i, j \in DOMAIN available' : available'[i].con = available'[j].con => i = j
    BY <1>1, PoppedExclusive DEF TakeIdle
  <2>3. held' = [held EXCEPT ![u] = Head(available).con] /\ held \in [Users -> Connections \cup {None}]
    BY <1>1 DEF TakeIdle, TypeOK
  <2> QED
    BY <2>1, <2>2, <2>3 DEF Exclusive
<1>2. ASSUME NEW u \in Users, Create(u) PROVE Exclusive'
  <2>1. PICK c \in Connections \ Alive : held' = [held EXCEPT ![u] = c]
    BY <1>2 DEF Create
  <2>2. held \in [Users -> Connections \cup {None}] /\ available' = available
    BY <1>2 DEF Create, TypeOK
  <2>3. c \notin IdleConnections /\ \A v \in Holders : held[v] # c
    BY <2>1 DEF Alive
  <2> QED
    BY <2>1, <2>2, <2>3 DEF Exclusive, IdleConnections
<1>3. ASSUME NEW u \in Users, Release(u) PROVE Exclusive'
  <2> DEFINE e == [con |-> held[u], age |-> 0]
  <2>1. /\ held \in [Users -> Connections \cup {None}]
        /\ held' = [held EXCEPT ![u] = None] /\ u \in Holders
    BY <1>3 DEF Release, TypeOK
  <2>2. CASE available' = available
    BY <2>1, <2>2 DEF Exclusive, IdleConnections
  <2>3. CASE available' = Append(available, e)
    <3>1. e \in Idle /\ e.con = held[u]
      BY <2>1, SizesAssumption DEF Idle
    <3>2. e.con \notin IdleConnections
      BY <2>1, <3>1 DEF Exclusive
    <3>3. IdleConnections' = IdleConnections \cup {held[u]}
      BY <2>3, <3>1, IdlePushed
    <3>4. \A i, j \in DOMAIN available' : available'[i].con = available'[j].con => i = j
      BY <2>3, <3>1, <3>2, PushedExclusive
    <3> QED
      BY <2>1, <3>3, <3>4 DEF Exclusive
  <2> QED
    BY <1>3, <2>2, <2>3 DEF Release
<1>4. CASE ScanFront /\ available' # available
  <2>1. available # <<>> /\ available' = Tail(available) /\ held' = held
    BY <1>4 DEF ScanFront
  <2>2. IdleConnections' = IdleConnections \ {Head(available).con}
    BY <2>1, IdlePopped
  <2>3. \A i, j \in DOMAIN available' : available'[i].con = available'[j].con => i = j
    BY <2>1, PoppedExclusive
  <2> QED
    BY <2>1, <2>2, <2>3 DEF Exclusive
<1>5. CASE Tick
  <2>1. held' = held
    BY <1>5 DEF Tick
  <2> QED
    BY <1>5, <2>1, AgedAlike, AgedIdle DEF Exclusive
<1>6. CASE UNCHANGED <<held, available>>
  BY <1>6 DEF Exclusive, IdleConnections
<1> QED
  BY <1>1, <1>2, <1>3, <1>4, <1>5, <1>6
  DEF Next, Acquire, Monitor, Admit, CreateFails, StartScan, ScanFront, EndMonitor, Destroy, vars

-----------------------------------------------------------------------------
(* The order of the idle connections. *)

(* Without the front one they are in order. *)
LEMMA PoppedInOrder ==
  ASSUME TypeOK, Exclusive, OldestFirst, available # <<>>,
         available' = Tail(available), due' = due \ {Head(available).con},
         mon' = mon
  PROVE  OldestFirst'
<1> DEFINE n == Len(available)
<1>1. /\ n \in Nat \ {0} /\ DOMAIN available = 1..n /\ DOMAIN available' = 1..(n - 1)
      /\ \A i \in 1..(n - 1) : available'[i] = available[i + 1]
      /\ Head(available) = available[1]
  BY Popped DEF TypeOK
<1>2. \A i \in 1..(n - 1) : i + 1 \in 1..n /\ i + 1 # 1
  BY <1>1
<1>3. \A i \in 1..(n - 1) : available[i + 1].con # available[1].con
  BY <1>1, <1>2 DEF Exclusive
<1>4. \A i, j \in 1..(n - 1) : i < j => i + 1 < j + 1
  BY <1>1
<1>5. ASSUME NEW i \in 1..(n - 1), NEW j \in 1..(n - 1), i < j
      PROVE  /\ available[i + 1].age >= available[j + 1].age
             /\ available[j + 1].con \in due => available[i + 1].con \in due
  BY <1>1, <1>2, <1>4, <1>5 DEF OldestFirst
<1>6. due' \subseteq IdleConnections'
  BY IdlePopped DEF OldestFirst
<1> QED
  BY <1>1, <1>3, <1>5, <1>6 DEF OldestFirst

(* What was in use goes behind all of them. *)
LEMMA PushedInOrder ==
  ASSUME TypeOK, OldestFirst, NEW e \in Idle, e.age = 0, e.con \notin IdleConnections,
         available' = Append(available, e), due' = due, mon' = mon
  PROVE  OldestFirst'
<1> DEFINE n == Len(available)
<1>1. /\ n \in Nat /\ DOMAIN available = 1..n /\ DOMAIN available' = 1..(n + 1)
      /\ \A i \in 1..n : available'[i] = available[i]
      /\ available'[n + 1] = e
  BY Pushed DEF TypeOK, Idle
<1>2. \A i \in 1..n : available[i] \in Idle
  BY <1>1, ElementOfSeq DEF TypeOK, Idle
<1>3. \A i \in 1..n : available[i].age >= 0
  BY <1>2 DEF Idle
<1>4. \A i, j \in 1..(n + 1) : i < j => i \in 1..n /\ (j \in 1..n \/ j = n + 1)
  BY <1>1
<1>5. e.con \notin due
  BY DEF OldestFirst
<1>6. due' \subseteq IdleConnections'
  BY IdlePushed DEF OldestFirst
<1> QED
  BY <1>1, <1>3, <1>4, <1>5, <1>6 DEF OldestFirst

(* A scan that starts finds those that are due in front. *)
LEMMA ScanInOrder ==
  ASSUME TypeOK, Exclusive, OldestFirst, StartScan
  PROVE  OldestFirst'
<1>1. \A i \in DOMAIN available : available[i].age \in Nat
  BY IdleTyped
<1>2. MaxIdleTime \in Nat
  BY SizesAssumption
<1>3. \A i \in DOMAIN available : available[i].con \in Expired <=> available[i].age >= MaxIdleTime
  BY DEF Expired, Exclusive
<1>4. Expired \subseteq IdleConnections
  BY DEF Expired, IdleConnections
<1>5. available' = available /\ due' = Expired /\ mon' = "scanning"
  BY DEF StartScan
<1>6. \A i, j \in DOMAIN available : i < j => available[i].age >= available[j].age
  BY DEF OldestFirst
<1>7. \A i, j \in DOMAIN available : i < j /\ available[j].con \in Expired => available[i].con \in Expired
  BY <1>1, <1>2, <1>3, <1>6
<1> QED
  BY <1>4, <1>5, <1>6, <1>7 DEF OldestFirst, IdleConnections

(* Idle connections stay in order. *)
LEMMA StaysOldestFirst ==
  ASSUME TypeOK, Exclusive, OldestFirst, [Next]_vars
  PROVE  OldestFirst'
<1>1. ASSUME NEW u \in Users, TakeIdle(u) PROVE OldestFirst'
  BY <1>1, PoppedInOrder DEF TakeIdle
<1>2. ASSUME NEW u \in Users, Release(u), available' # available PROVE OldestFirst'
  <2> DEFINE e == [con |-> held[u], age |-> 0]
  <2>1. available' = Append(available, e) /\ due' = due /\ mon' = mon
    BY <1>2 DEF Release
  <2>2. held[u] \in Connections /\ u \in Holders
    BY <1>2 DEF Release, TypeOK, Holders
  <2>3. e \in Idle /\ e.age = 0 /\ e.con = held[u]
    BY <2>2, SizesAssumption DEF Idle
  <2>4. e.con \notin IdleConnections
    BY <2>2, <2>3 DEF Exclusive
  <2> QED
    BY <2>1, <2>3, <2>4, PushedInOrder
<1>3. CASE StartScan
  BY <1>3, ScanInOrder
<1>4. CASE ScanFront /\ mon' = mon
  BY <1>4, PoppedInOrder DEF ScanFront
<1>5. CASE ScanFront /\ mon' # mon
  BY <1>5 DEF ScanFront, OldestFirst, IdleConnections
<1>6. CASE Tick
  <2>1. \A i \in DOMAIN available : available[i].age \in Nat
    BY IdleTyped
  <2>2. \A a, b \in Nat : a >= b => Older(a) >= Older(b)
    BY SizesAssumption DEF Older
  <2>3. due' = due /\ mon' = mon /\ DOMAIN available' = DOMAIN available
    BY <1>6, AgedAlike DEF Tick
  <2>4. /\ \A i \in DOMAIN available : /\ available'[i].con = available[i].con
                                      /\ available'[i].age = Older(available[i].age)
        /\ IdleConnections' = IdleConnections
    BY <1>6, AgedIdle
  <2> QED
    BY <2>1, <2>2, <2>3, <2>4 DEF OldestFirst
<1>7. CASE EndMonitor
  BY <1>7 DEF EndMonitor, OldestFirst, IdleConnections
<1>8. CASE UNCHANGED <<available, due, mon>>
  BY <1>8 DEF OldestFirst, IdleConnections
<1> QED
  BY <1>1, <1>2, <1>3, <1>4, <1>5, <1>6, <1>7, <1>8
  DEF Next, Acquire, Monitor, Admit, Create, CreateFails, Release, ScanFront, Destroy, vars

(* No more than maxPoolSize are kept. *)
LEMMA IdleStaysBounded ==
  ASSUME TypeOK, IdleBounded, [Next]_vars
  PROVE  IdleBounded'
<1>0. /\ Len(available) \in Nat /\ DOMAIN available = 1..Len(available)
      /\ MaxPoolSize \in Nat /\ InitialSize \in Nat
  BY LenProperties, SizesAssumption DEF TypeOK
<1>1. CASE available # <<>> /\ available' = Tail(available)
  <2>1. Len(available') = Len(available) - 1
    BY <1>1, Popped DEF TypeOK
  <2> QED
    BY <1>0, <2>1 DEF IdleBounded
<1>2. ASSUME NEW u \in Users, Release(u), available' # available PROVE IdleBounded'
  <2> DEFINE e == [con |-> held[u], age |-> 0]
  <2>1. available' = Append(available, e) /\ Len(available) < MaxPoolSize
    BY <1>2 DEF Release
  <2>2. e \in Idle
    BY <1>2, SizesAssumption DEF Release, TypeOK, Idle
  <2>3. Len(available') = Len(available) + 1
    BY <2>1, <2>2, Pushed DEF TypeOK, Idle
  <2> QED
    BY <1>0, <2>1, <2>3 DEF IdleBounded
<1>3. CASE Tick
  <2>1. Len(available') = Len(available)
    BY <1>0, <1>3 DEF Tick
  <2> QED
    BY <2>1 DEF IdleBounded
<1>4. CASE available' = available
  BY <1>4 DEF IdleBounded
<1> QED
  BY <1>1, <1>2, <1>3, <1>4
  DEF Next, Acquire, Monitor, Admit, TakeIdle, Create, CreateFails, Release, StartScan,
      ScanFront, EndMonitor, Destroy, vars

-----------------------------------------------------------------------------
(* The inductive invariant and the theorems. *)

IInv == /\ TypeOK /\ SlotsAccounted /\ UseBounded /\ WaitersEmptyHanded
        /\ Exclusive /\ IdleBounded /\ OldestFirst

(* A new pool satisfies the invariant. *)
LEMMA InitIInv == Init => IInv
<1> SUFFICES ASSUME Init PROVE IInv
  OBVIOUS
<1>1. TypeOK
  BY InitTypeOK
<1>2. PICK initial \in [1..InitialSize -> Connections] :
        /\ \A i, j \in 1..InitialSize : initial[i] = initial[j] => i = j
        /\ available = [i \in 1..InitialSize |-> [con |-> initial[i], age |-> 0]]
  BY DEF Init
<1>3. DOMAIN available = 1..InitialSize /\ Holders = {} /\ InitialSize \in Nat
  BY <1>2, SizesAssumption DEF Init, Holders
<1>4. Exclusive
  BY <1>2, <1>3 DEF Exclusive
<1>5. OldestFirst
  BY <1>2, <1>3 DEF Init, OldestFirst
<1>6. Len(available) = InitialSize
  BY <1>1, <1>3, IdleTyped
<1>7. SlotsAccounted
  BY <1>3, FS_EmptySet DEF Init, SlotsAccounted
<1>8. UseBounded
  BY SizesAssumption, UsersAssumption, FS_EmptySet, FS_CardinalityType DEF Init, UseBounded
<1> QED
  BY <1>1, <1>3, <1>4, <1>5, <1>6, <1>7, <1>8 DEF Init, IInv, IdleBounded, WaitersEmptyHanded

(* Every step of the pool keeps the invariant. *)
LEMMA NextIInv == IInv /\ [Next]_vars => IInv'
BY NextTypeOK, SlotsStayAccounted, UseStaysBounded, WaitersStayEmptyHanded,
   StaysExclusive, IdleStaysBounded, StaysOldestFirst DEF IInv

(* The invariant holds in every reachable state. *)
LEMMA PoolInductive == Spec => []IInv
BY InitIInv, NextIInv, PTL DEF Spec

(* Every variable of the pool keeps its type. *)
THEOREM TypeCorrect == Spec => []TypeOK
<1>1. IInv => TypeOK
  BY DEF IInv
<1> QED BY <1>1, PoolInductive, PTL

(* Every slot of the pool is in use or was lost to a factory that threw. *)
THEOREM Accounting == Spec => []SlotsAccounted
<1>1. IInv => SlotsAccounted
  BY DEF IInv
<1> QED BY <1>1, PoolInductive, PTL

(* The limit is overshot by less than the number of threads. *)
THEOREM Bounded == Spec => []UseBounded
<1>1. IInv => UseBounded
  BY DEF IInv
<1> QED BY <1>1, PoolInductive, PTL

(* No two threads use one connection, and none is used while idle. *)
THEOREM NoSharing == Spec => []Exclusive
<1>1. IInv => Exclusive
  BY DEF IInv
<1> QED BY <1>1, PoolInductive, PTL

(* The pool keeps no more idle connections than it was told to. *)
THEOREM IdleLimit == Spec => []IdleBounded
<1>1. IInv => IdleBounded
  BY DEF IInv
<1> QED BY <1>1, PoolInductive, PTL

(* Idle connections are in the order of their release, which is what a scan
   relies on when it looks at the front only (pool.hpp:161).                 *)
THEOREM InOrder == Spec => []OldestFirst
<1>1. IInv => OldestFirst
  BY DEF IInv
<1> QED BY <1>1, PoolInductive, PTL

(* A scan closes every connection that was due when it read the clock. *)
THEOREM NoneOverlooked == Spec => ScansComplete
<1> DEFINE Complete == mon = "scanning" /\ mon' = "asleep" => due \cap IdleConnections' = {}
<1>1. IInv /\ [Next]_vars => Complete
  <2> SUFFICES ASSUME IInv, [Next]_vars, mon = "scanning", mon' = "asleep"
               PROVE  due \cap IdleConnections' = {}
    OBVIOUS
  <2>1. ScanFront /\ mon' # mon
    BY DEF Next, Acquire, Monitor, Admit, TakeIdle, Create, CreateFails, Release, StartScan,
           EndMonitor, Destroy, Tick, ScanFront, vars
  <2>2. available' = available /\ (available = <<>> \/ Head(available).con \notin due)
    BY <2>1 DEF ScanFront
  <2>3. CASE available = <<>>
    BY <2>2, <2>3 DEF IdleConnections
  <2>4. CASE available # <<>>
    <3>1. /\ Head(available) = available[1] /\ DOMAIN available = 1..Len(available)
          /\ Len(available) \in Nat \ {0}
      BY <2>4, Popped DEF IInv, TypeOK
    <3>2. \A j \in DOMAIN available : j = 1 \/ 1 < j
      BY <3>1
    <3>3. \A j \in DOMAIN available : available[j].con \notin due
      BY <2>2, <2>4, <3>1, <3>2 DEF IInv, OldestFirst
    <3> QED
      BY <2>2, <3>3 DEF IdleConnections
  <2> QED
    BY <2>3, <2>4
<1>2. [][Complete]_vars => ScansComplete
  BY DEF ScansComplete
<1> HIDE DEF Complete
<1> QED BY <1>1, <1>2, PoolInductive, PTL DEF Spec

-----------------------------------------------------------------------------
(* The type of what users and connections have.  (Of an answer: everybody has one;
   what it is AnswersMatch says.)                                             *)
LookupsTyped ==
  /\ asked \in Nat
  /\ query \in [Users -> Nat] /\ answer = [u \in Users |-> answer[u]]
  /\ step \in [Users -> {"idle", "reading", "done"}]
  /\ buffer \in [Connections -> Seq(Texts)]
  /\ wire \in [Connections -> Seq(Texts)]
  /\ inbox \in [Connections -> Seq(Texts)]
  /\ link \in [Connections -> {"up", "down"}]
  /\ upset \subseteq Connections

(* Who looks something up holds a connection, and an answer ends the lookup. *)
Busy ==
  \A u \in Users : /\ step[u] # "idle" => held[u] # None
                   /\ step[u] = "reading" => query[u] \in 1..MaxLookups
                   /\ answer[u] # 0 => step[u] = "done"

(* Nothing is left on a connection, or on its way. *)
Quiet(c) == buffer[c] = <<>> /\ wire[c] = <<>> /\ inbox[c] = <<>>

(* The n-th lookup waits for its answer: the query is on its way, or what comes
   is the answer's text, which a broken link may cut.                         *)
Expects(c, n) ==
  \/ /\ inbox[c] = <<Text("query", n)>>
     /\ buffer[c] = <<>> /\ wire[c] = <<>>
  \/ /\ inbox[c] = <<>>
     /\ \/ /\ buffer[c] = <<>>
           /\ wire[c] \in {<<>>, <<Text("begin", n)>>, <<Text("begin", n), Text("end", n)>>}
        \/ /\ buffer[c] = <<Text("begin", n)>>
           /\ wire[c] \in {<<>>, <<Text("end", n)>>}

(* On a connection where no exchange has failed there is nothing but the current
   exchange.                                                                  *)
Reads(u, c) == step[u] = "reading" /\ held[u] = c
Exchange(c) ==
  /\ \A u \in Users : Reads(u, c) => Expects(c, query[u])
  /\ (\A u \in Users : ~Reads(u, c)) => Quiet(c)
Exchanges == \A c \in Connections \ upset : Exchange(c)

LInv == LookupsTyped /\ Busy /\ Exchanges /\ AnswersMatch

-----------------------------------------------------------------------------
(* Every step of a lookup is one of the pool, or leaves the pool alone. *)
LEMMA StepsOfPool == [NextLookup]_allVars => [Next]_vars
<1>1. \A u \in Users : GiveBack(u) => Release(u)
  BY DEF GiveBack
<1>2. OfPool => Next
  BY DEF OfPool, Next
<1>3. \A u \in Users : Ask(u) \/ Read(u) \/ EndOfFile(u) \/ Interrupted(u) => pool' = pool
  BY DEF Ask, Read, EndOfFile, Interrupted, ReadEnds
<1>4. \A c \in Connections : Serve(c) \/ Break(c) => pool' = pool
  BY DEF Serve, Break
<1>5. UNCHANGED allVars => pool' = pool
  BY DEF allVars
<1>6. pool' = pool => vars' = vars
  BY DEF pool, vars
<1> QED
  BY <1>1, <1>2, <1>3, <1>4, <1>5, <1>6 DEF NextLookup, Next

(* Threads that look up locations use the pool as it is meant to be used: what
   was proved of the pool holds while they do (mmdb.cpp:109-136, pool.hpp).    *)
THEOREM UsesPool == SpecLookups => Spec
<1>1. InitLookups => Init
  BY DEF InitLookups
<1> QED
  BY <1>1, StepsOfPool, PTL DEF SpecLookups, Spec

(* So the pool's accounting, its limit and its exclusiveness hold for them, and no
   scan overlooks a connection.                                               *)
THEOREM PoolKept ==
  SpecLookups => [](SlotsAccounted /\ UseBounded /\ Exclusive) /\ ScansComplete
BY UsesPool, Accounting, Bounded, NoSharing, NoneOverlooked, PTL

-----------------------------------------------------------------------------
(* Connections that a step of the pool closes keep the type of what is on them. *)
LEMMA ClosingTyped ==
  ASSUME LookupsTyped, Closing
  PROVE  /\ buffer' \in [Connections -> Seq(Texts)] /\ wire' \in [Connections -> Seq(Texts)]
         /\ inbox' \in [Connections -> Seq(Texts)] /\ link' \in [Connections -> {"up", "down"}]
         /\ upset' \subseteq Connections
<1>1. <<>> \in Seq(Texts)
  BY EmptySeq
<1> QED
  BY <1>1 DEF LookupsTyped, Closing, ClosedBy

(* If the step leaves those who read alone, the connections that it closes become
   quiet, and the others stay as they are.                                    *)
LEMMA ClosingExchanges ==
  ASSUME Exchanges, Closing, held' \in [Users -> Connections \cup {None}],
         \A u \in Users : step'[u] = "reading" <=> step[u] = "reading",
         \A u \in Users : step[u] = "reading" =>
           held[u] # None /\ held'[u] = held[u] /\ query'[u] = query[u]
  PROVE  Exchanges'
<1> SUFFICES ASSUME NEW c \in Connections, c \notin upset' PROVE Exchange(c)'
  BY DEF Exchanges
<1>1. CASE c \in Alive'
  <2>1. c \notin upset
    BY <1>1 DEF Closing
  <2>2. buffer'[c] = buffer[c] /\ wire'[c] = wire[c] /\ inbox'[c] = inbox[c]
    BY <1>1 DEF Closing, ClosedBy
  <2>3. Exchange(c)
    BY <2>1 DEF Exchanges
  <2>4. \A u \in Users : Reads(u, c)' <=> Reads(u, c)
    BY DEF Reads
  <2> QED
    BY <2>2, <2>3, <2>4 DEF Exchange, Expects, Quiet, Reads
<1>2. CASE c \notin Alive'
  <2>1. Quiet(c)'
    BY <1>2 DEF Closing, ClosedBy, Quiet
  <2>2. \A u \in Users : ~Reads(u, c)'
    BY <1>2, NoneAssumption DEF Reads, Alive, Holders
  <2> QED
    BY <2>1, <2>2 DEF Exchange, Reads
<1> QED
  BY <1>1, <1>2

(* The answers of those who keep their connections, too. *)
LEMMA ClosingMatch ==
  ASSUME AnswersMatch, Closing, held' \in [Users -> Connections \cup {None}],
         \A u \in Users : answer'[u] # 0 =>
           /\ held[u] # None /\ held'[u] = held[u]
           /\ answer'[u] = answer[u] /\ query'[u] = query[u]
  PROVE  AnswersMatch'
<1> SUFFICES ASSUME NEW u \in Users, answer'[u] # 0, held'[u] \notin upset'
             PROVE  answer'[u] = query'[u]
  BY DEF AnswersMatch
<1>1. held'[u] \in Alive'
  BY DEF Alive, Holders
<1>2. held[u] \notin upset
  BY <1>1 DEF Closing
<1> QED
  BY <1>2 DEF AnswersMatch

-----------------------------------------------------------------------------
(* A sequence of one or two parts. *)
LEMMA OneOrTwo ==
  ASSUME NEW S, NEW s \in Seq(S)
  PROVE  /\ Len(s) = 1 => s = <<s[1]>>
         /\ Len(s) = 2 => s = <<s[1], s[2]>>
<1>1. s \in [1..Len(s) -> S]
  BY LenProperties
<1>2. ASSUME Len(s) = 1 PROVE s = <<s[1]>>
  <2>1. s[1] \in S /\ <<s[1]>> \in Seq(S) /\ Len(<<s[1]>>) = 1
    BY <1>1, <1>2
  <2> QED
    BY <1>1, <1>2, <2>1, SeqEqual
<1>3. ASSUME Len(s) = 2 PROVE s = <<s[1], s[2]>>
  <2>1. s[1] \in S /\ s[2] \in S /\ <<s[1], s[2]>> \in Seq(S) /\ Len(<<s[1], s[2]>>) = 2
    BY <1>1, <1>3
  <2>2. \A i \in 1..2 : i = 1 \/ i = 2
    OBVIOUS
  <2> QED
    BY <1>1, <1>3, <2>1, <2>2, SeqEqual
<1> QED
  BY <1>2, <1>3

(* How a text of one or two parts can be cut. *)
LEMMA Cuts ==
  ASSUME NEW x, NEW y
  PROVE  /\ SubSeq(<<x>>, 1, 0) = <<>> /\ SubSeq(<<x>>, 1, 1) = <<x>> /\ SubSeq(<<x>>, 2, 1) = <<>>
         /\ SubSeq(<<x, y>>, 1, 0) = <<>> /\ SubSeq(<<x, y>>, 1, 1) = <<x>>
         /\ SubSeq(<<x, y>>, 1, 2) = <<x, y>>
         /\ SubSeq(<<x, y>>, 2, 2) = <<y>> /\ SubSeq(<<x, y>>, 3, 2) = <<>>
<1>1. SubSeq(<<x>>, 1, 0) = <<>> /\ SubSeq(<<x, y>>, 1, 0) = <<>>
  BY SubSeqEmpty
<1>2. SubSeq(<<x>>, 2, 1) = <<>> /\ SubSeq(<<x, y>>, 3, 2) = <<>>
  BY SubSeqEmpty
<1> DEFINE S == {x, y}
<1>3. SubSeq(<<x>>, 1, 1) = <<x>>
  <2>1. /\ SubSeq(<<x>>, 1, 1) \in Seq(S) /\ Len(SubSeq(<<x>>, 1, 1)) = 1
        /\ SubSeq(<<x>>, 1, 1)[1] = x
    BY SubSeqProperties
  <2> QED
    BY <2>1, OneOrTwo
<1>4. SubSeq(<<x, y>>, 1, 1) = <<x>>
  <2>1. /\ SubSeq(<<x, y>>, 1, 1) \in Seq(S) /\ Len(SubSeq(<<x, y>>, 1, 1)) = 1
        /\ SubSeq(<<x, y>>, 1, 1)[1] = x
    BY SubSeqProperties
  <2> QED
    BY <2>1, OneOrTwo
<1>5. SubSeq(<<x, y>>, 1, 2) = <<x, y>>
  <2>1. /\ SubSeq(<<x, y>>, 1, 2) \in Seq(S) /\ Len(SubSeq(<<x, y>>, 1, 2)) = 2
        /\ SubSeq(<<x, y>>, 1, 2)[1] = x /\ SubSeq(<<x, y>>, 1, 2)[2] = y
    BY SubSeqProperties
  <2> QED
    BY <2>1, OneOrTwo
<1>6. SubSeq(<<x, y>>, 2, 2) = <<y>>
  <2>1. /\ SubSeq(<<x, y>>, 2, 2) \in Seq(S) /\ Len(SubSeq(<<x, y>>, 2, 2)) = 1
        /\ SubSeq(<<x, y>>, 2, 2)[1] = y
    BY SubSeqProperties
  <2> QED
    BY <2>1, OneOrTwo
<1> QED
  BY <1>1, <1>2, <1>3, <1>4, <1>5, <1>6

(* How parts are joined. *)
LEMMA Joins ==
  ASSUME NEW x, NEW y
  PROVE  /\ <<>> \o <<>> = <<>> /\ <<>> \o <<x>> = <<x>>
         /\ <<>> \o <<x, y>> = <<x, y>> /\ <<x>> \o <<y>> = <<x, y>>
         /\ Append(<<>>, x) = <<x>> /\ Head(<<x>>) = x /\ Tail(<<x>>) = <<>>
<1>1. <<>> \in Seq({x, y}) /\ <<x>> \in Seq({x, y}) /\ <<x, y>> \in Seq({x, y})
  OBVIOUS
<1>2. <<>> \o <<>> = <<>> /\ <<>> \o <<x>> = <<x>> /\ <<>> \o <<x, y>> = <<x, y>>
  BY <1>1, ConcatEmptySeq
<1>3. <<x>> \o <<y>> = <<x, y>>
  <2>1. /\ <<x>> \o <<y>> \in Seq({x, y}) /\ Len(<<x>> \o <<y>>) = 2
        /\ (<<x>> \o <<y>>)[1] = x /\ (<<x>> \o <<y>>)[2] = y
    BY ConcatProperties, <<y>> \in Seq({x, y}), <1>1
  <2> QED
    BY <2>1, OneOrTwo
<1>4. Append(<<>>, x) = <<x>>
  OBVIOUS
<1>5. Head(<<x>>) = x
  OBVIOUS
<1>6. Tail(<<x>>) = <<>>
  OBVIOUS
<1> QED
  BY <1>2, <1>3, <1>4, <1>5, <1>6

(* A step of one exchange changes nothing for the other connections. *)
LEMMA OthersAlike ==
  ASSUME Exchanges, NEW d \in Connections, held' = held, upset \subseteq upset',
         \A c \in Connections \ {d} :
           buffer'[c] = buffer[c] /\ wire'[c] = wire[c] /\ inbox'[c] = inbox[c],
         \A u \in Users : held[u] # d => step'[u] = step[u] /\ query'[u] = query[u],
         d \in upset' \/ Exchange(d)'
  PROVE  Exchanges'
<1> SUFFICES ASSUME NEW c \in Connections, c \notin upset', c # d PROVE Exchange(c)'
  BY DEF Exchanges
<1>1. Exchange(c)
  BY DEF Exchanges
<1>2. \A u \in Users : Reads(u, c)' <=> Reads(u, c)
  BY DEF Reads
<1>3. \A u \in Users : Reads(u, c) => query'[u] = query[u]
  BY DEF Reads
<1>4. buffer'[c] = buffer[c] /\ wire'[c] = wire[c] /\ inbox'[c] = inbox[c]
  OBVIOUS
<1> QED
  BY <1>1, <1>2, <1>3, <1>4 DEF Exchange, Expects, Quiet, Reads

(* Who reads on a connection is its only user. *)
LEMMA OneReader ==
  ASSUME TypeOK, Exclusive, NEW u \in Users, held[u] # None
  PROVE  /\ held[u] \in Connections
         /\ \A v \in Users : v # u => held[v] # held[u]
BY DEF TypeOK, Exclusive, Holders

-----------------------------------------------------------------------------
(* The steps, one after the other. *)

(* acquire(), the monitor, time and the end of the pool. *)
LEMMA PoolStep ==
  ASSUME LInv, IInv, TypeOK', OfPool, Closing, UNCHANGED client
  PROVE  LInv'
<1>1. \A u \in Users : held[u] # None => held'[u] = held[u]
  BY DEF IInv, TypeOK, WaitersEmptyHanded, OfPool, Acquire, Monitor, Admit, TakeIdle, Create,
         CreateFails, StartScan, ScanFront, EndMonitor, Destroy, Tick
<1>2. held' \in [Users -> Connections \cup {None}]
  BY DEF TypeOK
<1>3. asked' = asked /\ query' = query /\ answer' = answer /\ step' = step
  BY DEF client
<1>4. LookupsTyped'
  BY <1>3, ClosingTyped DEF LInv, LookupsTyped
<1>5. Busy'
  BY <1>1, <1>3 DEF LInv, Busy
<1>6. \A u \in Users : step[u] # "idle" => held[u] # None /\ held'[u] = held[u]
  BY <1>1 DEF LInv, Busy
<1>7. Exchanges'
  BY <1>2, <1>3, <1>6, ClosingExchanges DEF LInv
<1>8. AnswersMatch'
  BY <1>2, <1>3, <1>6, ClosingMatch DEF LInv, Busy
<1> QED
  BY <1>4, <1>5, <1>7, <1>8 DEF LInv

(* ~Proxy. *)
LEMMA GiveBackStep ==
  ASSUME LInv, TypeOK, TypeOK', NEW u \in Users, GiveBack(u)
  PROVE  LInv'
<1>1. held' = [held EXCEPT ![u] = None] /\ held \in [Users -> Connections \cup {None}]
  BY DEF TypeOK, GiveBack, Release
<1>2. held' \in [Users -> Connections \cup {None}]
  BY DEF TypeOK
<1>3. /\ asked' = asked /\ query' = [query EXCEPT ![u] = 0] /\ answer' = [answer EXCEPT ![u] = 0]
      /\ step' = [step EXCEPT ![u] = "idle"] /\ step[u] # "reading" /\ Closing
  BY DEF GiveBack
<1>4. LookupsTyped'
  BY <1>3, ClosingTyped DEF LInv, LookupsTyped
<1>5. \A v \in Users : v # u => /\ held'[v] = held[v] /\ query'[v] = query[v]
                                /\ answer'[v] = answer[v] /\ step'[v] = step[v]
  BY <1>1, <1>3 DEF LInv, LookupsTyped
<1>6. step'[u] = "idle" /\ answer'[u] = 0
  BY <1>3 DEF LInv, LookupsTyped
<1>7. Busy'
  BY <1>5, <1>6 DEF LInv, Busy
<1>8. \A v \in Users : step[v] # "idle" => held[v] # None
  BY DEF LInv, Busy
<1>9. Exchanges'
  BY <1>2, <1>3, <1>5, <1>6, <1>8, ClosingExchanges DEF LInv
<1>10. AnswersMatch'
  BY <1>2, <1>3, <1>5, <1>6, <1>8, ClosingMatch DEF LInv, Busy
<1> QED
  BY <1>4, <1>7, <1>9, <1>10 DEF LInv

(* The query goes out on a quiet connection, unless an exchange has failed on it. *)
LEMMA AskStep ==
  ASSUME LInv, TypeOK, Exclusive, NEW u \in Users, Ask(u)
  PROVE  LInv'
<1> DEFINE c == held[u]
           n == asked + 1
           texts == Append(buffer[c], Text("query", n))
<1>1. /\ c \in Connections /\ \A v \in Users : v # u => held[v] # c
  BY OneReader DEF Ask
<1>2. n \in 1..MaxLookups /\ Text("query", n) \in Texts
  BY MaxLookupsAssumption DEF Ask, LInv, LookupsTyped, Text, Texts
<1>3. texts \in Seq(Texts) /\ inbox[c] \o texts \in Seq(Texts) /\ <<>> \in Seq(Texts)
  BY <1>1, <1>2, AppendProperties, ConcatProperties, EmptySeq DEF LInv, LookupsTyped
<1>4. /\ held' = held /\ answer' = answer /\ link' = link /\ wire' = wire /\ asked' = n
      /\ query' = [query EXCEPT ![u] = n] /\ step[u] = "idle" /\ c # None
  BY DEF Ask, pool
<1>5. \/ /\ step' = [step EXCEPT ![u] = "reading"] /\ buffer' = [buffer EXCEPT ![c] = <<>>]
         /\ inbox' \in {inbox, [inbox EXCEPT ![c] = @ \o texts]} /\ upset' = upset
      \/ /\ step' = [step EXCEPT ![u] = "done"] /\ buffer' = [buffer EXCEPT ![c] = texts]
         /\ inbox' = inbox /\ upset' = upset \cup {c}
  BY DEF Ask
<1> HIDE DEF texts
<1>6. LookupsTyped'
  <2>1. buffer' \in [Connections -> Seq(Texts)] /\ inbox' \in [Connections -> Seq(Texts)]
    BY <1>1, <1>3, <1>5, ZenonT(60) DEF LInv, LookupsTyped
  <2>2. step' \in [Users -> {"idle", "reading", "done"}] /\ upset' \subseteq Connections
    BY <1>1, <1>5 DEF LInv, LookupsTyped
  <2>3. query' \in [Users -> Nat] /\ asked' \in Nat
    BY <1>2, <1>4 DEF LInv, LookupsTyped
  <2> QED
    BY <1>4, <2>1, <2>2, <2>3 DEF LInv, LookupsTyped
<1>7. \A v \in Users : v # u => query'[v] = query[v] /\ step'[v] = step[v]
  BY <1>4, <1>5 DEF LInv, LookupsTyped
<1>8. query'[u] = n /\ step'[u] \in {"reading", "done"} /\ answer[u] = 0
  BY <1>4, <1>5 DEF LInv, LookupsTyped, Busy
<1>9. Busy'
  BY <1>2, <1>4, <1>7, <1>8 DEF LInv, Busy
<1>10. AnswersMatch'
  BY <1>4, <1>5, <1>7, <1>8 DEF LInv, AnswersMatch
<1>11. ASSUME c \notin upset' PROVE Exchange(c)'
  <2>1. /\ step' = [step EXCEPT ![u] = "reading"] /\ buffer' = [buffer EXCEPT ![c] = <<>>]
        /\ inbox' \in {inbox, [inbox EXCEPT ![c] = @ \o texts]} /\ c \notin upset
    BY <1>5, <1>11
  <2>2. \A v \in Users : ~Reads(v, c)
    BY <1>1, <1>4 DEF Reads
  <2>3. Quiet(c)
    BY <1>1, <2>1, <2>2 DEF LInv, Exchanges, Exchange
  <2>4. texts = <<Text("query", n)>> /\ inbox[c] \o texts = <<Text("query", n)>>
    BY <2>3, Joins DEF Quiet, texts
  <2>5. /\ buffer'[c] = <<>> /\ wire'[c] = <<>>
        /\ inbox'[c] = <<>> \/ inbox'[c] = <<Text("query", n)>>
    BY <1>1, <1>4, <2>1, <2>3, <2>4 DEF LInv, LookupsTyped, Quiet
  <2>6. \A v \in Users : step'[v] = "reading" /\ held[v] = c => query'[v] = n
    BY <1>1, <1>8
  <2>7. step'[u] = "reading"
    BY <2>1 DEF LInv, LookupsTyped
  <2> QED
    BY <1>4, <2>5, <2>6, <2>7 DEF Exchange, Expects, Quiet, Reads
<1>12. \A d \in Connections \ {c} : buffer'[d] = buffer[d] /\ inbox'[d] = inbox[d]
  BY <1>5 DEF LInv, LookupsTyped
<1>13. Exchanges'
  BY <1>1, <1>4, <1>5, <1>7, <1>11, <1>12, OthersAlike DEF LInv
<1> QED
  BY <1>6, <1>9, <1>10, <1>13 DEF LInv

(* What arrives is joined with what has been read: it is the first part of the own
   answer, or all of it, and then nothing is left.                            *)
LEMMA Arrives ==
  ASSUME NEW c \in Connections, NEW n, Expects(c, n), NEW k \in 1..Len(wire[c])
  PROVE  LET texts == buffer[c] \o SubSeq(wire[c], 1, k)
             rest == SubSeq(wire[c], k + 1, Len(wire[c]))
         IN /\ inbox[c] = <<>>
            /\ \/ texts = <<Text("begin", n)>> /\ rest \in {<<>>, <<Text("end", n)>>}
               \/ texts = <<Text("begin", n), Text("end", n)>> /\ rest = <<>>
<1> DEFINE b == Text("begin", n)
           e == Text("end", n)
<1> HIDE DEF b, e
<1>0. (\A m \in 1..2 : m = 1 \/ m = 2) /\ 1 + 1 = 2 /\ 2 + 1 = 3
  OBVIOUS
<1>1. Len(wire[c]) # 0
  OBVIOUS
<1>2. inbox[c] = <<>> /\ \/ buffer[c] = <<>> /\ wire[c] = <<b>>
                         \/ buffer[c] = <<>> /\ wire[c] = <<b, e>>
                         \/ buffer[c] = <<b>> /\ wire[c] = <<e>>
  BY <1>1 DEF Expects, b, e
<1>3. /\ SubSeq(<<b>>, 1, 1) = <<b>> /\ SubSeq(<<b>>, 2, 1) = <<>>
      /\ SubSeq(<<e>>, 1, 1) = <<e>> /\ SubSeq(<<e>>, 2, 1) = <<>>
      /\ SubSeq(<<b, e>>, 1, 1) = <<b>> /\ SubSeq(<<b, e>>, 2, 2) = <<e>>
      /\ SubSeq(<<b, e>>, 1, 2) = <<b, e>> /\ SubSeq(<<b, e>>, 3, 2) = <<>>
  BY Cuts
<1>4. <<>> \o <<b>> = <<b>> /\ <<>> \o <<b, e>> = <<b, e>> /\ <<b>> \o <<e>> = <<b, e>>
  BY Joins
<1>5. ASSUME buffer[c] = <<>>, wire[c] = <<b>>
      PROVE  buffer[c] \o SubSeq(wire[c], 1, k) = <<b>> /\ SubSeq(wire[c], k + 1, Len(wire[c])) = <<>>
  <2>1. k = 1 /\ Len(wire[c]) = 1 /\ k + 1 = 2
    BY <1>5
  <2> QED
    BY <1>5, <2>1, <1>3, <1>4
<1>6. ASSUME buffer[c] = <<>>, wire[c] = <<b, e>>
      PROVE  \/ /\ buffer[c] \o SubSeq(wire[c], 1, k) = <<b>>
                /\ SubSeq(wire[c], k + 1, Len(wire[c])) = <<e>>
             \/ /\ buffer[c] \o SubSeq(wire[c], 1, k) = <<b, e>>
                /\ SubSeq(wire[c], k + 1, Len(wire[c])) = <<>>
  <2>1. Len(wire[c]) = 2
    BY <1>6
  <2>2. k \in 1..2
    BY <2>1, Zenon
  <2>3. k = 1 \/ k = 2
    BY <1>0, <2>2, Zenon
  <2> QED
    BY <1>0, <1>6, <2>1, <2>3, <1>3, <1>4
<1>7. ASSUME buffer[c] = <<b>>, wire[c] = <<e>>
      PROVE  buffer[c] \o SubSeq(wire[c], 1, k) = <<b, e>> /\ SubSeq(wire[c], k + 1, Len(wire[c])) = <<>>
  <2>1. k = 1 /\ Len(wire[c]) = 1 /\ k + 1 = 2
    BY <1>7
  <2> QED
    BY <1>7, <2>1, <1>3, <1>4
<1> QED
  BY <1>2, <1>5, <1>6, <1>7 DEF b, e

(* Where the first empty line is: at the end of the answer. *)
LEMMA EndsThere ==
  ASSUME NEW n
  PROVE  /\ Ends(<<Text("begin", n)>>) = {}
         /\ Ends(<<Text("begin", n), Text("end", n)>>) = {2}
<1>1. Text("begin", n).text = "begin" /\ Text("end", n).text = "end"
  BY DEF Text
<1>2. \A i \in 1..2 : i = 1 \/ i = 2
  OBVIOUS
<1>3. \A x, y : DOMAIN <<x, y>> = 1..2 /\ <<x, y>>[1] = x /\ <<x, y>>[2] = y
  OBVIOUS
<1>4. Ends(<<Text("begin", n), Text("end", n)>>) = {2}
  BY <1>1, <1>2, <1>3 DEF Ends
<1>5. \A x : DOMAIN <<x>> = 1..1 /\ <<x>>[1] = x
  OBVIOUS
<1>6. Ends(<<Text("begin", n)>>) = {}
  BY <1>1, <1>5 DEF Ends
<1> QED
  BY <1>4, <1>6

(* Some of the answer is read. *)
LEMMA ReadStep ==
  ASSUME LInv, TypeOK, Exclusive, NEW u \in Users, Read(u)
  PROVE  LInv'
<1> DEFINE c == held[u]
<1>1. step[u] = "reading" /\ c # None /\ query[u] \in 1..MaxLookups
  BY DEF Read, LInv, Busy
<1>2. /\ c \in Connections /\ \A v \in Users : v # u => held[v] # c
  BY <1>1, OneReader
<1>3. PICK k \in 1..Len(wire[c]) :
        LET texts == buffer[c] \o SubSeq(wire[c], 1, k)
            ends == Ends(texts)
        IN /\ wire' = [wire EXCEPT ![c] = SubSeq(@, k + 1, Len(@))]
           /\ IF ends = {}
                THEN /\ buffer' = [buffer EXCEPT ![c] = texts]
                     /\ UNCHANGED <<answer, step>>
                ELSE /\ buffer' = [buffer EXCEPT ![c] = <<>>]
                     /\ answer' = [answer EXCEPT ![u] =
                          texts[CHOOSE i \in ends : \A j \in ends : i <= j].nr]
                     /\ step' = [step EXCEPT ![u] = "done"]
  BY DEF Read
<1> DEFINE texts == buffer[c] \o SubSeq(wire[c], 1, k)
           rest == SubSeq(wire[c], k + 1, Len(wire[c]))
           nr == texts[CHOOSE i \in Ends(texts) : \A j \in Ends(texts) : i <= j].nr
<1>4. /\ wire' = [wire EXCEPT ![c] = rest]
      /\ \/ /\ Ends(texts) = {} /\ buffer' = [buffer EXCEPT ![c] = texts]
            /\ answer' = answer /\ step' = step
         \/ /\ Ends(texts) # {} /\ buffer' = [buffer EXCEPT ![c] = <<>>]
            /\ answer' = [answer EXCEPT ![u] = nr] /\ step' = [step EXCEPT ![u] = "done"]
  BY <1>3
<1>5. /\ held' = held /\ asked' = asked /\ query' = query /\ link' = link /\ inbox' = inbox
      /\ upset' = upset
  BY DEF Read, pool
<1>6. wire[c] \in Seq(Texts) /\ Len(wire[c]) \in Nat /\ \A i \in 1..Len(wire[c]) : wire[c][i] \in Texts
  BY <1>2, LenProperties, ElementOfSeq DEF LInv, LookupsTyped
<1>7. rest \in Seq(Texts) /\ SubSeq(wire[c], 1, k) \in Seq(Texts)
  BY <1>6, SubSeqProperties
<1>8. texts \in Seq(Texts) /\ <<>> \in Seq(Texts)
  BY <1>2, <1>7, ConcatProperties, EmptySeq DEF LInv, LookupsTyped
<1>9. c \notin upset => Expects(c, query[u])
  BY <1>1, <1>2 DEF LInv, Exchanges, Exchange, Reads
<1>10. c \notin upset =>
         /\ inbox[c] = <<>>
         /\ \/ texts = <<Text("begin", query[u])>> /\ rest \in {<<>>, <<Text("end", query[u])>>}
            \/ texts = <<Text("begin", query[u]), Text("end", query[u])>> /\ rest = <<>>
  BY <1>2, <1>9, Arrives
<1> HIDE DEF texts, rest
<1>11. c \notin upset /\ Ends(texts) = {} => texts = <<Text("begin", query[u])>>
  BY <1>10, EndsThere
<1>12. c \notin upset /\ Ends(texts) # {} => rest = <<>> /\ nr = query[u]
  <2> SUFFICES ASSUME c \notin upset, Ends(texts) # {} PROVE rest = <<>> /\ nr = query[u]
    OBVIOUS
  <2>1. texts = <<Text("begin", query[u]), Text("end", query[u])>> /\ rest = <<>>
    BY <1>10, EndsThere
  <2>2. Ends(texts) = {2}
    BY <2>1, EndsThere
  <2>4. texts[2] = Text("end", query[u])
    BY <2>1
  <2>5. texts[2].nr = query[u]
    BY <2>4 DEF Text
  <2>3. (CHOOSE i \in Ends(texts) : \A j \in Ends(texts) : i <= j) = 2
    BY <2>2
  <2> QED
    BY <2>1, <2>3, <2>5
<1> HIDE DEF nr
<1>13. LookupsTyped'
  <2>1. buffer' \in [Connections -> Seq(Texts)] /\ wire' \in [Connections -> Seq(Texts)]
    BY <1>2, <1>4, <1>7, <1>8, ZenonT(60) DEF LInv, LookupsTyped
  <2>2. /\ step' \in [Users -> {"idle", "reading", "done"}]
        /\ answer' = [v \in Users |-> answer'[v]]
    BY <1>4 DEF LInv, LookupsTyped
  <2> QED
    BY <1>5, <2>1, <2>2 DEF LInv, LookupsTyped
<1>14. \A v \in Users : v # u => answer'[v] = answer[v] /\ step'[v] = step[v]
  BY <1>4 DEF LInv, LookupsTyped
<1>15. \/ Ends(texts) = {} /\ answer'[u] = answer[u] /\ step'[u] = "reading" /\ buffer'[c] = texts
       \/ Ends(texts) # {} /\ answer'[u] = nr /\ step'[u] = "done" /\ buffer'[c] = <<>>
  BY <1>1, <1>2, <1>4 DEF LInv, LookupsTyped
<1>16. Busy'
  BY <1>1, <1>5, <1>14, <1>15 DEF LInv, Busy
<1>17. AnswersMatch'
  BY <1>5, <1>12, <1>14, <1>15 DEF LInv, AnswersMatch
<1>18. wire'[c] = rest
  BY <1>2, <1>4 DEF LInv, LookupsTyped
<1>19. ASSUME c \notin upset PROVE Exchange(c)'
  <2>1. CASE Ends(texts) = {}
    <3>1. /\ buffer'[c] = <<Text("begin", query[u])>> /\ inbox'[c] = <<>> /\ step'[u] = "reading"
          /\ wire'[c] \in {<<>>, <<Text("end", query[u])>>}
      BY <1>5, <1>10, <1>11, <1>15, <1>18, <1>19, <2>1, EndsThere
    <3>2. \A v \in Users : held[v] = c => v = u
      BY <1>2
    <3> QED
      BY <1>5, <3>1, <3>2 DEF Exchange, Expects, Reads
  <2>2. CASE Ends(texts) # {}
    <3>1. buffer'[c] = <<>> /\ inbox'[c] = <<>> /\ wire'[c] = <<>> /\ step'[u] = "done"
      BY <1>5, <1>10, <1>12, <1>15, <1>18, <1>19, <2>2
    <3> QED
      BY <1>2, <1>5, <3>1 DEF Exchange, Quiet, Reads
  <2> QED
    BY <2>1, <2>2
<1>20. \A d \in Connections \ {c} : buffer'[d] = buffer[d] /\ wire'[d] = wire[d] /\ inbox'[d] = inbox[d]
  BY <1>4, <1>5 DEF LInv, LookupsTyped
<1>21. Exchanges'
  BY <1>2, <1>5, <1>14, <1>19, <1>20, OthersAlike DEF LInv, Exchanges
<1> QED
  BY <1>13, <1>16, <1>17, <1>21 DEF LInv

(* A read that fails. *)
LEMMA ReadEndsStep ==
  ASSUME LInv, TypeOK, Exclusive, NEW u \in Users, EndOfFile(u) \/ Interrupted(u)
  PROVE  LInv'
<1> DEFINE c == held[u]
<1>1. step[u] = "reading" /\ c # None
  BY DEF EndOfFile, Interrupted, LInv, Busy
<1>2. /\ c \in Connections /\ \A v \in Users : v # u => held[v] # c
  BY <1>1, OneReader
<1>3. /\ step' = [step EXCEPT ![u] = "done"] /\ upset' = upset \cup {c} /\ held' = held
      /\ UNCHANGED <<asked, query, answer, buffer, link, wire, inbox>>
  BY DEF EndOfFile, Interrupted, ReadEnds, pool
<1>4. LookupsTyped'
  BY <1>2, <1>3 DEF LInv, LookupsTyped
<1>5. step'[u] = "done" /\ \A v \in Users : v # u => step'[v] = step[v]
  BY <1>3 DEF LInv, LookupsTyped
<1>6. Busy'
  BY <1>1, <1>3, <1>5 DEF LInv, Busy
<1>7. AnswersMatch'
  BY <1>3 DEF LInv, AnswersMatch
<1>8. Exchanges'
  BY <1>2, <1>3, <1>5, OthersAlike DEF LInv
<1> QED
  BY <1>4, <1>6, <1>7, <1>8 DEF LInv

(* Steps of the service and the network change nothing for users. *)
LEMMA PeerFrame ==
  ASSUME LInv, UNCHANGED <<pool, client, buffer, upset>>
  PROVE  /\ Busy' /\ AnswersMatch'
         /\ held' = held /\ query' = query /\ step' = step /\ buffer' = buffer /\ upset' = upset
BY DEF LInv, Busy, AnswersMatch, pool, client

(* The service answers: on a quiet connection it has nothing to answer. *)
LEMMA ServeStep ==
  ASSUME LInv, NEW c \in Connections, Serve(c)
  PROVE  LInv'
<1> DEFINE texts == AnswerTo(Head(inbox[c]))
<1>1. /\ inbox[c] # <<>> /\ inbox' = [inbox EXCEPT ![c] = Tail(inbox[c])]
      /\ wire' = [wire EXCEPT ![c] = wire[c] \o texts]
      /\ link' = link /\ UNCHANGED <<pool, client, buffer, upset>>
  BY DEF Serve
<1>2. /\ Busy' /\ AnswersMatch'
      /\ held' = held /\ query' = query /\ step' = step /\ buffer' = buffer /\ upset' = upset
  BY <1>1, PeerFrame
<1>3. Head(inbox[c]) \in Texts /\ Tail(inbox[c]) \in Seq(Texts)
  BY <1>1, HeadTailProperties DEF LInv, LookupsTyped
<1>4. texts \in Seq(Texts)
  <2>1. Head(inbox[c]).nr \in 1..MaxLookups
    BY <1>3 DEF Texts
  <2>2. /\ Text("begin", Head(inbox[c]).nr) \in Texts
        /\ Text("end", Head(inbox[c]).nr) \in Texts
    BY <2>1 DEF Text, Texts
  <2> QED
    BY <2>2, EmptySeq DEF AnswerTo, Answer
<1>5. wire[c] \o texts \in Seq(Texts)
  BY <1>4, ConcatProperties DEF LInv, LookupsTyped
<1>6. asked' = asked /\ answer' = answer
  BY <1>1 DEF client
<1> HIDE DEF texts
<1>7. LookupsTyped'
  BY <1>1, <1>2, <1>3, <1>5, <1>6 DEF LInv, LookupsTyped
<1>8. inbox'[c] = Tail(inbox[c]) /\ wire'[c] = wire[c] \o texts
  BY <1>1 DEF LInv, LookupsTyped
<1>9. ASSUME c \notin upset PROVE Exchange(c)'
  <2>1. Exchange(c)
    BY <1>9 DEF LInv, Exchanges
  <2>2. \E u \in Users : Reads(u, c)
    BY <1>1, <2>1 DEF Exchange, Quiet
  <2>3. ASSUME NEW u \in Users, Reads(u, c) PROVE Expects(c, query[u])'
    <3> DEFINE n == query[u]
    <3>1. inbox[c] = <<Text("query", n)>> /\ buffer[c] = <<>> /\ wire[c] = <<>>
      BY <1>1, <2>1, <2>3 DEF Exchange, Expects
    <3>2. Head(inbox[c]) = Text("query", n) /\ Tail(inbox[c]) = <<>>
      BY <3>1, Joins
    <3>3. texts = <<Text("begin", n), Text("end", n)>>
      BY <3>2 DEF texts, AnswerTo, Answer, Text
    <3>4. wire[c] \o texts = <<Text("begin", n), Text("end", n)>>
      BY <3>1, <3>3, Joins
    <3> QED
      BY <1>2, <1>8, <3>1, <3>2, <3>4 DEF Expects
  <2> QED
    BY <1>2, <2>2, <2>3 DEF Exchange, Reads
<1>10. \A d \in Connections \ {c} : wire'[d] = wire[d] /\ inbox'[d] = inbox[d]
  BY <1>1 DEF LInv, LookupsTyped
<1>11. Exchanges'
  BY <1>2, <1>9, <1>10, OthersAlike DEF LInv
<1> QED
  BY <1>2, <1>7, <1>11 DEF LInv

(* The link breaks: what was on its way is cut, and that is all. *)
LEMMA BreakStep ==
  ASSUME LInv, NEW c \in Connections, Break(c)
  PROVE  LInv'
<1>1. PICK k \in 0..Len(wire[c]) : wire' = [wire EXCEPT ![c] = SubSeq(wire[c], 1, k)]
  BY DEF Break
<1>2. /\ link' = [link EXCEPT ![c] = "down"] /\ inbox' = [inbox EXCEPT ![c] = <<>>]
      /\ UNCHANGED <<pool, client, buffer, upset>>
  BY DEF Break
<1>3. /\ Busy' /\ AnswersMatch'
      /\ held' = held /\ query' = query /\ step' = step /\ buffer' = buffer /\ upset' = upset
  BY <1>2, PeerFrame
<1>4. wire[c] \in Seq(Texts) /\ Len(wire[c]) \in Nat /\ \A i \in 1..Len(wire[c]) : wire[c][i] \in Texts
  BY LenProperties, ElementOfSeq DEF LInv, LookupsTyped
<1>5. SubSeq(wire[c], 1, k) \in Seq(Texts) /\ <<>> \in Seq(Texts)
  BY <1>4, SubSeqProperties, EmptySeq
<1>6. asked' = asked /\ answer' = answer
  BY <1>2 DEF client
<1>7. LookupsTyped'
  BY <1>1, <1>2, <1>3, <1>5, <1>6 DEF LInv, LookupsTyped
<1>8. inbox'[c] = <<>> /\ wire'[c] = SubSeq(wire[c], 1, k)
  BY <1>1, <1>2 DEF LInv, LookupsTyped
<1>9. ASSUME c \notin upset PROVE Exchange(c)'
  <2>1. Exchange(c)
    BY <1>9 DEF LInv, Exchanges
  <2>2. wire[c] = <<>> => wire'[c] = <<>>
    BY <1>8, SubSeqEmpty
  <2>3. \A x : wire[c] = <<x>> => wire'[c] \in {<<>>, <<x>>}
    <3> SUFFICES ASSUME NEW x, wire[c] = <<x>> PROVE wire'[c] \in {<<>>, <<x>>}
      OBVIOUS
    <3>1. k = 0 \/ k = 1
      OBVIOUS
    <3> QED
      BY <1>8, <3>1, Cuts
  <2>4. \A x, y : wire[c] = <<x, y>> => wire'[c] \in {<<>>, <<x>>, <<x, y>>}
    <3> SUFFICES ASSUME NEW x, NEW y, wire[c] = <<x, y>> PROVE wire'[c] \in {<<>>, <<x>>, <<x, y>>}
      OBVIOUS
    <3>1. Len(wire[c]) = 2
      OBVIOUS
    <3>2. k = 0 \/ k = 1 \/ k = 2
      BY <3>1
    <3>3. /\ SubSeq(<<x, y>>, 1, 0) = <<>> /\ SubSeq(<<x, y>>, 1, 1) = <<x>>
          /\ SubSeq(<<x, y>>, 1, 2) = <<x, y>>
      BY Cuts
    <3> QED
      BY <1>8, <3>2, <3>3
  <2>5. \A n : Expects(c, n) => Expects(c, n)'
    <3> SUFFICES ASSUME NEW n, Expects(c, n) PROVE Expects(c, n)'
      OBVIOUS
    <3>1. CASE buffer[c] = <<>> /\ wire[c] = <<>>
      BY <1>3, <1>8, <2>2, <3>1 DEF Expects
    <3>2. CASE buffer[c] = <<>> /\ wire[c] = <<Text("begin", n)>>
      BY <1>3, <1>8, <2>3, <3>2 DEF Expects
    <3>3. CASE buffer[c] = <<>> /\ wire[c] = <<Text("begin", n), Text("end", n)>>
      BY <1>3, <1>8, <2>4, <3>3 DEF Expects
    <3>4. CASE buffer[c] = <<Text("begin", n)>> /\ wire[c] = <<>>
      BY <1>3, <1>8, <2>2, <3>4 DEF Expects
    <3>5. CASE buffer[c] = <<Text("begin", n)>> /\ wire[c] = <<Text("end", n)>>
      BY <1>3, <1>8, <2>3, <3>5 DEF Expects
    <3> QED
      BY <3>1, <3>2, <3>3, <3>4, <3>5 DEF Expects
  <2>6. \A u \in Users : step'[u] = "reading" /\ held'[u] = c => Expects(c, query[u])'
    BY <1>3, <2>1, <2>5 DEF Exchange, Reads
  <2> QED
    BY <1>3, <1>8, <2>1, <2>2, <2>6 DEF Exchange, Expects, Quiet, Reads
<1>10. \A d \in Connections \ {c} : wire'[d] = wire[d] /\ inbox'[d] = inbox[d]
  BY <1>1, <1>2 DEF LInv, LookupsTyped
<1>11. Exchanges'
  BY <1>3, <1>9, <1>10, OthersAlike DEF LInv
<1> QED
  BY <1>3, <1>7, <1>11 DEF LInv

-----------------------------------------------------------------------------
(* Nobody has asked anything yet. *)
LEMMA InitLookupsInv == InitLookups => LInv
<1> SUFFICES ASSUME InitLookups PROVE LInv
  OBVIOUS
<1>1. LookupsTyped
  BY EmptySeq DEF InitLookups, LookupsTyped
<1>2. Busy /\ AnswersMatch
  BY DEF InitLookups, Busy, AnswersMatch
<1>3. Exchanges
  BY DEF InitLookups, Exchanges, Exchange, Quiet, Reads
<1> QED
  BY <1>1, <1>2, <1>3 DEF LInv

(* Every step keeps the invariant, given the pool's. *)
LEMMA NextLookupsInv == IInv /\ IInv' /\ LInv /\ [NextLookup]_allVars => LInv'
<1> SUFFICES ASSUME IInv, IInv', LInv, [NextLookup]_allVars PROVE LInv'
  OBVIOUS
<1>1. TypeOK /\ TypeOK' /\ Exclusive
  BY DEF IInv
<1>2. OfPool /\ Closing /\ UNCHANGED client => LInv'
  BY <1>1, PoolStep
<1>3. \A u \in Users : GiveBack(u) => LInv'
  BY <1>1, GiveBackStep
<1>4. \A u \in Users : Ask(u) => LInv'
  BY <1>1, AskStep
<1>5. \A u \in Users : Read(u) => LInv'
  BY <1>1, ReadStep
<1>6. \A u \in Users : EndOfFile(u) \/ Interrupted(u) => LInv'
  BY <1>1, ReadEndsStep
<1>7. \A c \in Connections : Serve(c) => LInv'
  BY ServeStep
<1>8. \A c \in Connections : Break(c) => LInv'
  BY BreakStep
<1>9. UNCHANGED allVars => LInv'
  BY DEF allVars, pool, client, peer, LInv, LookupsTyped, Busy, Exchanges, Exchange, Expects, Quiet,
         Reads, AnswersMatch
<1> QED
  BY <1>2, <1>3, <1>4, <1>5, <1>6, <1>7, <1>8, <1>9 DEF NextLookup

(* A lookup gets the answer to its own query, unless an exchange has failed on its
   connection before (mmdb.cpp:83-107): whatever links break, and whoever else
   uses the pool.                                                             *)
THEOREM OwnAnswers == SpecLookups => []AnswersMatch
<1>1. LInv => AnswersMatch
  BY DEF LInv
<1>2. SpecLookups => []IInv
  BY UsesPool, PoolInductive, PTL
<1>3. SpecLookups => []LInv
  BY <1>2, InitLookupsInv, NextLookupsInv, PTL DEF SpecLookups
<1> QED
  BY <1>1, <1>3, PTL
=============================================================================
