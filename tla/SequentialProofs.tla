-------------------------- MODULE SequentialProofs --------------------------
(* What is proved of the parts in which nothing runs concurrently: the answers to
   requests (HttpRouter) and to preflights (Cors), dates (IsoDate), lines of the log
   (LogLine) and records for the database (LineProtocol).  What a recursive function
   computes is shown by its least counterexample: every set of numbers has a least one. *)
EXTENDS HttpRouter, Cors, IsoDate, LogLine, LineProtocol,
        SequenceTheorems, FiniteSetTheorems, WellFoundedInduction, TLAPS

(* Every set of numbers has a least one. *)
LEMMA LeastNumber ==
  ASSUME NEW T \in SUBSET Nat, T # {}
  PROVE  \E x \in T : \A y \in T : x <= y
<1>1. PICK R : R = OpToRel(<, Nat)
  OBVIOUS
<1>2. IsWellFoundedOn(R, Nat)
  BY <1>1, NatLessThanWellFounded
<1>3. PICK x \in T : \A y \in T : <<y, x>> \notin R
  BY <1>2, WFMin
<1>4. \A m, n \in Nat : m < n => <<m, n>> \in R
  BY <1>1 DEF OpToRel
<1>5. \A y \in T : ~(y < x)
  BY <1>3, <1>4
<1>6. \A y \in T : x <= y
  BY <1>5
<1> QED
  BY <1>6

-----------------------------------------------------------------------------
(* The router's paths are a vector, whatever was added. *)
Vector == \E S : paths \in Seq(S)

(* A function on the first numbers is a sequence of its values. *)
LEMMA Tabulated ==
  ASSUME NEW n \in Nat, NEW f, f = [j \in 1..n |-> f[j]]
  PROVE  \E S : f \in Seq(S)
<1>1. PICK S : S = {f[j] : j \in 1..n}
  OBVIOUS
<1>2. f \in [1..n -> S]
  BY <1>1
<1>3. f \in Seq(S)
  BY <1>2
<1> QED
  BY <1>3

(* How many elements of a sequence there are of some kind. *)
LEMMA CountOfElements ==
  ASSUME NEW S, NEW s \in Seq(S), NEW A \in SUBSET (DOMAIN s)
  PROVE  Cardinality(A) \in 0..Len(s)
<1>1. DOMAIN s = 1..Len(s) /\ Len(s) \in Nat
  OBVIOUS
<1>2. IsFiniteSet(1..Len(s)) /\ Cardinality(1..Len(s)) = Len(s)
  <2>1. 1 \in Int /\ Len(s) \in Int
    BY <1>1
  <2>2. /\ IsFiniteSet(1..Len(s))
        /\ Cardinality(1..Len(s)) = IF 1 > Len(s) THEN 0 ELSE Len(s) - 1 + 1
    BY <2>1, FS_Interval
  <2> QED
    BY <1>1, <2>2
<1>3. A \subseteq 1..Len(s)
  BY <1>1
<1>4. IsFiniteSet(A) /\ Cardinality(A) <= Len(s)
  BY <1>2, <1>3, FS_Subset
<1>5. Cardinality(A) \in Nat
  BY <1>4, FS_CardinalityType
<1> QED
  BY <1>1, <1>4, <1>5

(* An insertion makes a sequence of a sequence. *)
LEMMA InsertionTyped ==
  ASSUME NEW S, NEW s \in Seq(S), NEW e, NEW k \in 1..(Len(s) + 1)
  PROVE  \E T : InsertAt(s, k, e) \in Seq(T)
<1>1. PICK T : T = S \cup {e}
  OBVIOUS
<1>2. Len(s) \in Nat /\ \A j \in 1..Len(s) : s[j] \in T
  BY <1>1
<1>3. SubSeq(s, 1, k - 1) \in Seq(T)
  <2>1. 1 \in Int /\ k - 1 \in Int /\ \A j \in 1..(k - 1) : s[j] \in T
    BY <1>2
  <2> QED
    BY <2>1, SubSeqProperties
<1>4. SubSeq(s, k, Len(s)) \in Seq(T)
  <2>1. k \in Int /\ Len(s) \in Int /\ \A j \in k..Len(s) : s[j] \in T
    BY <1>2
  <2> QED
    BY <2>1, SubSeqProperties
<1>5. <<e>> \in Seq(T)
  BY <1>1
<1>6. SubSeq(s, 1, k - 1) \o <<e>> \in Seq(T)
  BY <1>3, <1>5, ConcatProperties
<1>7. SubSeq(s, 1, k - 1) \o <<e>> \o SubSeq(s, k, Len(s)) \in Seq(T)
  BY <1>4, <1>6, ConcatProperties
<1> QED
  BY <1>7 DEF InsertAt

-----------------------------------------------------------------------------
(* add() keeps the paths a vector: it changes one in place, or inserts one. *)
LEMMA VectorInit == Init => Vector
<1> SUFFICES ASSUME Init PROVE Vector
  OBVIOUS
<1>1. paths \in Seq({})
  BY DEF Init
<1> QED
  BY <1>1 DEF Vector

(* add() keeps them so: it changes one in place, or inserts one. *)
LEMMA VectorNext == Vector /\ [Next]_vars => Vector'
<1> SUFFICES ASSUME Vector, [Next]_vars PROVE Vector'
  OBVIOUS
<1>1. PICK S : paths \in Seq(S)
  BY DEF Vector
<1>2. CASE paths' = paths
  BY <1>1, <1>2 DEF Vector
<1>3. ASSUME NEW m \in Methods, NEW path \in RoutePaths, AddMethod(m, path)
      PROVE  Vector'
  <2>1. PICK i : paths' = [paths EXCEPT ![i].methods = Append(@, m),
                                        ![i].handlers = Append(@, Len(handlers) + 1)]
    BY <1>3 DEF AddMethod
  <2>2. PICK n \in Nat : n = Len(paths)
    BY <1>1
  <2>3. DOMAIN paths = 1..n
    BY <1>1, <2>2
  <2>4. PICK f : f = paths'
    OBVIOUS
  <2>5. f = [j \in 1..n |-> f[j]]
    BY <2>1, <2>3, <2>4
  <2>6. \E T : f \in Seq(T)
    BY <2>5, Tabulated
  <2> QED
    BY <2>4, <2>6 DEF Vector
<1>4. ASSUME NEW m \in Methods, NEW path \in RoutePaths, AddPath(m, path)
      PROVE  Vector'
  <2>1. PICK e : paths' = Inserted(e)
    BY <1>4 DEF AddPath
  <2>2. PICK k : /\ k = 1 + Cardinality({i \in DOMAIN paths : ~Less(e.path, paths[i].path)})
                 /\ paths' = InsertAt(paths, k, e)
    BY <2>1 DEF Inserted
  <2>3. Cardinality({i \in DOMAIN paths : ~Less(e.path, paths[i].path)}) \in 0..Len(paths)
    BY <1>1, CountOfElements
  <2>4. Len(paths) \in Nat
    BY <1>1
  <2>5. k \in 1..(Len(paths) + 1)
    BY <2>2, <2>3, <2>4
  <2>6. \E T : InsertAt(paths, k, e) \in Seq(T)
    BY <1>1, <2>5, InsertionTyped
  <2> QED
    BY <2>2, <2>6 DEF Vector
<1> QED
  BY <1>2, <1>3, <1>4 DEF Next, Add, vars

(* The lower bound is a place in the vector or its end. *)
LEMMA LowerBoundTyped ==
  ASSUME Vector, NEW path
  PROVE  /\ LowerBound(path) \in Nat /\ LowerBound(path) >= 1 /\ Len(paths) \in Nat
         /\ DOMAIN paths = 1..Len(paths)
<1>1. PICK S : paths \in Seq(S)
  BY DEF Vector
<1>2. Cardinality({i \in DOMAIN paths : Less(paths[i].path, path)}) \in 0..Len(paths)
  BY <1>1, CountOfElements
<1>3. Len(paths) \in Nat /\ DOMAIN paths = 1..Len(paths)
  BY <1>1
<1> QED
  BY <1>2, <1>3 DEF LowerBound

-----------------------------------------------------------------------------
(* A header is told by the list that was configured, and only by it. *)
Told ==
  /\ env \in Configured /\ origin \in Requested
  /\ answer \subseteq {set(origin, origins)}
  /\ preflight \subseteq {cors(origin, origins)}

(* What a browser was told is kept until the page is left. *)
LEMMA ToldInit == CorsInit => Told
BY DEF CorsInit, Told

(* A preflight and a request are each answered by the configured list. *)
LEMMA ToldNext == Told /\ [CorsNext]_browser => Told'
<1> SUFFICES ASSUME Told, [CorsNext]_browser PROVE Told'
  OBVIOUS
<1>1. env' = env /\ origin' = origin
  BY DEF CorsNext, Preflight, Respond, browser
<1>2. origins' = origins
  BY <1>1 DEF origins
<1>3. answer' \subseteq {set(origin, origins)}
  BY DEF Told, CorsNext, Preflight, Respond, browser
<1>4. preflight' \subseteq {cors(origin, origins)}
  BY DEF Told, CorsNext, Preflight, Respond, browser
<1> QED
  BY <1>1, <1>2, <1>3, <1>4 DEF Told, Requested

(* With a list of names, "*" apart, both decisions are membership in it. *)
LEMMA DecisionsAgree ==
  ASSUME NEW name \in Requested, NEW allowed \in Seq(Origins \cup {"*"}),
         allowed \notin {<<>>, <<"*">>}
  PROVE  /\ set(name, allowed) = cors(name, allowed)
         /\ set(name, allowed) # {} <=> name \in Range(allowed)
<1>1. NoHeader \notin Range(allowed)
  BY OriginsAssumption DEF Range
<1>2. Allow(name) # {}
  BY DEF Allow
<1> QED
  BY <1>1, <1>2 DEF set, cors

(* A browser that sent a preflight is told by it what the answer will say, as soon
   as a name is configured.                                                   *)
THEOREM PreflightsHold == CorsSpec => []PreflightsAgree
<1>1. CorsSpec => []Told
  BY ToldInit, ToldNext, PTL DEF CorsSpec
<1>2. Told => PreflightsAgree
  <2> SUFFICES ASSUME Told, origins \notin {<<>>, <<"*">>}, NEW headers \in answer
               PROVE  /\ preflight \subseteq {headers}
                      /\ headers # {} <=> origin \in Range(origins)
    BY DEF PreflightsAgree
  <2>1. origins \in Seq(Origins \cup {"*"})
    BY OriginsAssumption DEF origins, Told
  <2>2. headers = set(origin, origins)
    BY DEF Told
  <2>3. set(origin, origins) = cors(origin, origins)
    BY <2>1, DecisionsAgree DEF Told
  <2>4. headers # {} <=> origin \in Range(origins)
    BY <2>1, <2>2, DecisionsAgree DEF Told
  <2> QED
    BY <2>2, <2>3, <2>4 DEF Told
<1> QED
  BY <1>1, <1>2, PTL

-----------------------------------------------------------------------------
(* The segments and their order. *)
Names == Range(Segments)

(* A segment is where it stands in the order, and nowhere else. *)
LEMMA SegmentRanks ==
  /\ \A s \in Names : Rank[s] \in 1..10
  /\ \A s, t \in Names : Rank[s] = Rank[t] => s = t
  /\ {"a", "b", "{x}", "{y}", "~"} \subseteq Names
  /\ Rank["a"] = 4 /\ Rank["b"] = 5 /\ Rank["{x}"] = 6 /\ Rank["{y}"] = 7 /\ Rank["~"] = 9
<1>1. /\ DOMAIN Segments = 1..10
      /\ Segments[1] = "" /\ Segments[2] = "*" /\ Segments[3] = ":x" /\ Segments[4] = "a"
      /\ Segments[5] = "b" /\ Segments[6] = "{x}" /\ Segments[7] = "{y}" /\ Segments[8] = "|"
      /\ Segments[9] = "~" /\ Segments[10] = "high"
  BY DEF Segments
<1>2. PICK f : f = Segments
  OBVIOUS
<1>3. Names = {f[i] : i \in 1..10}
  BY <1>1, <1>2 DEF Names, Range
<1>4. ASSUME NEW s \in Names
      PROVE  Rank[s] \in 1..10 /\ f[Rank[s]] = s
  <2>1. \E i \in 1..10 : f[i] = s
    BY <1>3
  <2>2. PICK r : r = CHOOSE i \in DOMAIN Segments : Segments[i] = s
    OBVIOUS
  <2>3. r \in 1..10 /\ f[r] = s
    BY <1>1, <1>2, <2>1, <2>2
  <2>4. Rank[s] = r
    BY <2>2 DEF Rank, Names
  <2> QED
    BY <2>3, <2>4
<1>5. \A s, t \in Names : Rank[s] = Rank[t] => s = t
  BY <1>4
<1>6. {"a", "b", "{x}", "{y}", "~"} \subseteq Names
  <2>1. 4 \in 1..10 /\ 5 \in 1..10 /\ 6 \in 1..10 /\ 7 \in 1..10 /\ 9 \in 1..10
    OBVIOUS
  <2> QED
    BY <1>1, <1>2, <1>3, <2>1
<1>7. \A i \in 1..10 : \/ i = 1 \/ i = 2 \/ i = 3 \/ i = 4 \/ i = 5
                      \/ i = 6 \/ i = 7 \/ i = 8 \/ i = 9 \/ i = 10
  OBVIOUS
<1>8. Rank["a"] = 4
  <2>1. PICK r \in 1..10 : r = Rank["a"] /\ f[r] = "a"
    BY <1>4, <1>6
  <2> QED
    BY <1>1, <1>2, <1>7, <2>1
<1>9. Rank["b"] = 5
  <2>1. PICK r \in 1..10 : r = Rank["b"] /\ f[r] = "b"
    BY <1>4, <1>6
  <2> QED
    BY <1>1, <1>2, <1>7, <2>1
<1>10. Rank["{x}"] = 6
  <2>1. PICK r \in 1..10 : r = Rank["{x}"] /\ f[r] = "{x}"
    BY <1>4, <1>6
  <2> QED
    BY <1>1, <1>2, <1>7, <2>1
<1>11. Rank["{y}"] = 7
  <2>1. PICK r \in 1..10 : r = Rank["{y}"] /\ f[r] = "{y}"
    BY <1>4, <1>6
  <2> QED
    BY <1>1, <1>2, <1>7, <2>1
<1>12. Rank["~"] = 9
  <2>1. PICK r \in 1..10 : r = Rank["~"] /\ f[r] = "~"
    BY <1>4, <1>6
  <2> QED
    BY <1>1, <1>2, <1>7, <2>1
<1> QED
  BY <1>4, <1>5, <1>6, <1>8, <1>9, <1>10, <1>11, <1>12

(* The order of paths is that of the ranks of their segments, where a path that has
   ended has rank zero.                                                         *)
Key(p, i) == IF i <= Len(p) THEN Rank[p[i]] ELSE 0
Precedes(p, q) ==
  \E i \in Nat \ {0} : Key(p, i) < Key(q, i) /\ \A j \in 1..(i - 1) : Key(p, j) = Key(q, j)

(* Only a path that has ended has rank zero. *)
LEMMA KeyTyped ==
  ASSUME NEW p \in Seq(Names), NEW i \in Nat \ {0}
  PROVE  /\ Key(p, i) \in 0..10
         /\ Key(p, i) # 0 <=> i <= Len(p)
<1>1. CASE i <= Len(p)
  <2>1. PICK s \in Names : s = p[i]
    BY <1>1
  <2>2. Key(p, i) = Rank[s]
    BY <1>1, <2>1 DEF Key
  <2>3. Rank[s] \in 1..10
    BY SegmentRanks
  <2> QED
    BY <1>1, <2>2, <2>3
<1>2. CASE ~(i <= Len(p))
  BY <1>2 DEF Key
<1> QED
  BY <1>1, <1>2

(* Paths have the same rank at a place where they have the same segment. *)
LEMMA KeysEqual ==
  ASSUME NEW p \in Seq(Names), NEW q \in Seq(Names), NEW i \in Nat \ {0}, i <= Len(q)
  PROVE  Key(p, i) = Key(q, i) <=> i <= Len(p) /\ p[i] = q[i]
<1>1. q[i] \in Names /\ (i <= Len(p) => p[i] \in Names)
  OBVIOUS
<1>2. Key(q, i) # 0 /\ (Key(p, i) # 0 <=> i <= Len(p))
  BY KeyTyped
<1>3. Key(q, i) = Rank[q[i]] /\ (i <= Len(p) => Key(p, i) = Rank[p[i]])
  BY DEF Key
<1>4. CASE i <= Len(p)
  <2>1. PICK s \in Names, t \in Names : s = p[i] /\ t = q[i]
    BY <1>1, <1>4
  <2>2. Rank[s] = Rank[t] <=> s = t
    BY SegmentRanks
  <2> QED
    BY <1>3, <1>4, <2>1, <2>2
<1>5. CASE ~(i <= Len(p))
  BY <1>2, <1>5
<1> QED
  BY <1>4, <1>5

(* The order of paths as strings is that of their first ranks that differ. *)
LEMMA LessByKeys ==
  ASSUME NEW p \in Seq(Names), NEW q \in Seq(Names)
  PROVE  Less(p, q) <=> Precedes(p, q)
<1>1. PICK m \in Nat, n \in Nat : m = Len(p) /\ n = Len(q) /\ DOMAIN p = 1..m /\ DOMAIN q = 1..n
  OBVIOUS
<1>2. ASSUME IsStrictPrefix(p, q) PROVE Precedes(p, q)
  <2>1. m <= n /\ SubSeq(p, 1, m) = SubSeq(q, 1, m) /\ p # q
    BY <1>1, <1>2 DEF IsStrictPrefix, IsPrefix
  <2>2. \A j \in 1..m : p[j] = q[j]
    <3>1. \A j \in 1..m : SubSeq(p, 1, m)[j] = p[j] /\ SubSeq(q, 1, m)[j] = q[j]
      BY <1>1, <2>1
    <3> QED
      BY <2>1, <3>1
  <2>3. m # n
    BY <1>1, <2>1, <2>2
  <2>4. m + 1 \in Nat \ {0} /\ m + 1 <= n /\ ~(m + 1 <= m)
    BY <2>1, <2>3
  <2>5. Key(p, m + 1) = 0 /\ Key(q, m + 1) \in 1..10
    <3>1. Key(q, m + 1) # 0 /\ Key(q, m + 1) \in 0..10
      BY <1>1, <2>4, KeyTyped
    <3> QED
      BY <1>1, <2>4, <3>1 DEF Key
  <2>6. \A j \in 1..m : Key(p, j) = Key(q, j)
    BY <1>1, <2>1, <2>2 DEF Key
  <2>7. (m + 1) - 1 = m
    OBVIOUS
  <2> QED
    BY <2>4, <2>5, <2>6, <2>7 DEF Precedes
<1>3. ASSUME NEW i \in DOMAIN p \cap DOMAIN q, Rank[p[i]] < Rank[q[i]],
             \A j \in 1..(i - 1) : p[j] = q[j]
      PROVE  Precedes(p, q)
  <2>1. i \in Nat \ {0} /\ i <= m /\ i <= n
    BY <1>1
  <2>2. Key(p, i) < Key(q, i)
    BY <1>1, <1>3, <2>1 DEF Key
  <2>3. \A j \in 1..(i - 1) : Key(p, j) = Key(q, j)
    <3>1. \A j \in 1..(i - 1) : j <= m /\ j <= n
      BY <2>1
    <3> QED
      BY <1>1, <1>3, <3>1 DEF Key
  <2> QED
    BY <2>1, <2>2, <2>3 DEF Precedes
<1>4. ASSUME NEW i \in Nat \ {0}, Key(p, i) < Key(q, i), \A j \in 1..(i - 1) : Key(p, j) = Key(q, j)
      PROVE  Less(p, q)
  <2>1. Key(p, i) \in 0..10 /\ Key(q, i) \in 0..10
    BY KeyTyped
  <2>2. i <= n
    BY <1>1, <1>4, <2>1, KeyTyped
  <2>3. \A j \in 1..(i - 1) : j <= m /\ p[j] = q[j]
    <3> SUFFICES ASSUME NEW j \in 1..(i - 1) PROVE j <= m /\ p[j] = q[j]
      OBVIOUS
    <3>1. j \in Nat \ {0} /\ j <= n
      BY <2>2
    <3> QED
      BY <1>1, <1>4, <3>1, KeysEqual
  <2>4. CASE i <= m
    <3>1. i \in DOMAIN p \cap DOMAIN q
      BY <1>1, <2>2, <2>4
    <3>2. Rank[p[i]] < Rank[q[i]]
      BY <1>1, <1>4, <2>2, <2>4 DEF Key
    <3> QED
      BY <2>3, <3>1, <3>2 DEF Less
  <2>5. CASE ~(i <= m)
    <3>1. m = i - 1
      <4>1. CASE i = 1
        BY <2>5, <4>1
      <4>2. CASE i # 1
        <5>1. i - 1 \in 1..(i - 1)
          BY <4>2
        <5>2. i - 1 <= m
          BY <2>3, <5>1
        <5> QED
          BY <2>5, <5>2
      <4> QED
        BY <4>1, <4>2
    <3>2. m < n /\ \A j \in 1..m : p[j] = q[j]
      BY <2>2, <2>3, <3>1
    <3>3. SubSeq(p, 1, m) = SubSeq(q, 1, m)
      BY <1>1, <3>2
    <3> QED
      BY <1>1, <3>2, <3>3 DEF Less, IsStrictPrefix, IsPrefix
  <2> QED
    BY <2>4, <2>5
<1>5. Less(p, q) => Precedes(p, q)
  BY <1>2, <1>3 DEF Less
<1>6. Precedes(p, q) => Less(p, q)
  BY <1>4 DEF Precedes
<1> QED
  BY <1>5, <1>6

(* It is a strict order, of which every path that is between two is told. *)
LEMMA LessAsymmetric ==
  ASSUME NEW p \in Seq(Names), NEW q \in Seq(Names), Less(p, q)
  PROVE  ~Less(q, p)
<1> SUFFICES ASSUME Less(q, p) PROVE FALSE
  OBVIOUS
<1>1. PICK i \in Nat \ {0} : Key(p, i) < Key(q, i) /\ \A j \in 1..(i - 1) : Key(p, j) = Key(q, j)
  BY LessByKeys DEF Precedes
<1>2. PICK k \in Nat \ {0} : Key(q, k) < Key(p, k) /\ \A j \in 1..(k - 1) : Key(q, j) = Key(p, j)
  BY LessByKeys DEF Precedes
<1>3. Key(p, i) \in 0..10 /\ Key(q, i) \in 0..10 /\ Key(p, k) \in 0..10 /\ Key(q, k) \in 0..10
  BY KeyTyped
<1>4. i < k => i \in 1..(k - 1)
  OBVIOUS
<1>5. k < i => k \in 1..(i - 1)
  OBVIOUS
<1>6. i < k \/ k < i \/ i = k
  OBVIOUS
<1> QED
  BY <1>1, <1>2, <1>3, <1>4, <1>5, <1>6, SMTT(30)

(* A path is after the lesser of two or before the greater. *)
LEMMA LessBetween ==
  ASSUME NEW a \in Seq(Names), NEW b \in Seq(Names), NEW c \in Seq(Names), Less(a, c)
  PROVE  Less(a, b) \/ Less(b, c)
<1>1. PICK i \in Nat \ {0} : Key(a, i) < Key(c, i) /\ \A j \in 1..(i - 1) : Key(a, j) = Key(c, j)
  BY LessByKeys DEF Precedes
<1>2. PICK T : T = {j \in Nat \ {0} : ~(Key(b, j) = Key(a, j) /\ Key(b, j) = Key(c, j))}
  OBVIOUS
<1>3. \A j \in Nat \ {0} : Key(a, j) \in 0..10 /\ Key(b, j) \in 0..10 /\ Key(c, j) \in 0..10
  BY KeyTyped
<1>4. i \in T
  <2>1. Key(a, i) # Key(c, i)
    BY <1>1, <1>3, SMTT(30)
  <2> QED
    BY <1>2, <2>1
<1>5. PICK k \in T : \A j \in T : k <= j
  <2>1. T \in SUBSET Nat
    BY <1>2
  <2> QED
    BY <1>4, <2>1, LeastNumber
<1>6. k \in Nat \ {0} /\ k <= i /\ ~(Key(b, k) = Key(a, k) /\ Key(b, k) = Key(c, k))
  BY <1>2, <1>4, <1>5
<1>7. \A j \in 1..(k - 1) : Key(b, j) = Key(a, j) /\ Key(b, j) = Key(c, j)
  <2> SUFFICES ASSUME NEW j \in 1..(k - 1) PROVE Key(b, j) = Key(a, j) /\ Key(b, j) = Key(c, j)
    OBVIOUS
  <2>1. j \in Nat \ {0} /\ ~(k <= j)
    BY <1>6
  <2> QED
    BY <1>2, <1>5, <2>1
<1>8. Key(b, k) < Key(c, k) \/ Key(a, k) < Key(b, k)
  <2>1. PICK x \in 0..10, y \in 0..10, z \in 0..10 : x = Key(a, k) /\ y = Key(b, k) /\ z = Key(c, k)
    BY <1>3, <1>6
  <2>2. x <= z
    <3>1. CASE k = i
      BY <1>1, <2>1, <3>1
    <3>2. CASE k # i
      <4>1. k \in 1..(i - 1)
        BY <1>6, <3>2
      <4> QED
        BY <1>1, <2>1, <4>1
    <3> QED
      BY <3>1, <3>2
  <2>3. k = i => x < z
    BY <1>1, <2>1
  <2>4. ~(y = x /\ y = z)
    BY <1>6, <2>1
  <2>5. y < z \/ x < y
    BY <2>2, <2>4
  <2> QED
    BY <2>1, <2>5
<1>9. CASE Key(b, k) < Key(c, k)
  <2>1. Precedes(b, c)
    BY <1>6, <1>7, <1>9 DEF Precedes
  <2> QED
    BY <2>1, LessByKeys
<1>10. CASE Key(a, k) < Key(b, k)
  <2>1. Precedes(a, b)
    BY <1>6, <1>7, <1>10 DEF Precedes
  <2> QED
    BY <2>1, LessByKeys
<1> QED
  BY <1>8, <1>9, <1>10

-----------------------------------------------------------------------------
(* A path whose empty segment, if any, is the last, and so is its wildcard. *)
Plain(path) == /\ path \in Seq(Names) /\ Len(path) # 0
               /\ \A i \in 1..(Len(path) - 1) : path[i] # "" /\ path[i] # "~"

(* The first segments of a path, and the loop of split() over them. *)
Prefix(path, i) == [j \in 1..i |-> path[j]]
Splits(upTo, path, n) ==
  upTo = [i \in 0..n |->
            IF i = 0 THEN <<>>
            ELSE IF path[i] = "" THEN upTo[i - 1] ELSE Append(upTo[i - 1], path[i])]

(* A prefix grows by one segment at a time. *)
LEMMA PrefixGrows ==
  ASSUME NEW S, NEW path \in Seq(S), NEW i \in 1..Len(path)
  PROVE  /\ Prefix(path, i) = Append(Prefix(path, i - 1), path[i])
         /\ Prefix(path, i) \in Seq(S) /\ Len(Prefix(path, i)) = i
         /\ Prefix(path, 0) = <<>> /\ Prefix(path, Len(path)) = path
<1>1. PICK n \in Nat : n = Len(path) /\ DOMAIN path = 1..n /\ \A j \in 1..n : path[j] \in S
  OBVIOUS
<1>2. i \in 1..n /\ i - 1 \in Nat
  BY <1>1
<1>3. PICK p : p = [j \in 1..(i - 1) |-> path[j]]
  OBVIOUS
<1>4. p \in Seq(S) /\ Len(p) = i - 1 /\ \A j \in 1..(i - 1) : p[j] = path[j]
  <2>1. \A j \in 1..(i - 1) : path[j] \in S
    BY <1>1, <1>2
  <2>2. p \in [1..(i - 1) -> S]
    BY <1>3, <2>1
  <2> QED
    BY <1>2, <1>3, <2>2
<1>5. PICK q : q = [j \in 1..i |-> path[j]]
  OBVIOUS
<1>6. q \in Seq(S) /\ Len(q) = i /\ \A j \in 1..i : q[j] = path[j]
  <2>1. \A j \in 1..i : path[j] \in S
    BY <1>1, <1>2
  <2>2. q \in [1..i -> S]
    BY <1>5, <2>1
  <2> QED
    BY <1>2, <1>5, <2>2
<1>7. q = Append(p, path[i])
  <2>1. path[i] \in S
    BY <1>1, <1>2
  <2>2. PICK r : r = Append(p, path[i])
    OBVIOUS
  <2>3. r \in Seq(S) /\ Len(r) = i /\ r[i] = path[i] /\ \A j \in 1..(i - 1) : r[j] = p[j]
    BY <1>2, <1>4, <2>1, <2>2
  <2>4. \A j \in 1..i : r[j] = q[j]
    BY <1>2, <1>4, <1>6, <2>3
  <2>5. q = r
    BY <1>2, <1>6, <2>3, <2>4
  <2> QED
    BY <2>2, <2>5
<1>8. Prefix(path, 0) = <<>>
  <2>1. PICK f : f = [j \in 1..0 |-> path[j]]
    OBVIOUS
  <2>2. f \in [1..0 -> S]
    BY <2>1
  <2>3. f \in Seq(S) /\ Len(f) = 0
    BY <2>2
  <2> QED
    BY <2>1, <2>3, EmptySeq DEF Prefix
<1>9. Prefix(path, Len(path)) = path
  BY <1>1 DEF Prefix
<1> QED
  BY <1>3, <1>5, <1>6, <1>7, <1>8, <1>9 DEF Prefix

(* split() drops the last segment of such a path, when that is empty, and no other. *)
LEMMA PartsOfPlain ==
  ASSUME NEW path, Plain(path), NEW n \in Nat \ {0}, n = Len(path)
  PROVE  Parts(path) = IF path[n] = "" THEN Prefix(path, n - 1) ELSE path
<1> DEFINE done(i) == IF i = n /\ path[n] = "" THEN Prefix(path, n - 1) ELSE Prefix(path, i)
<1>1. path \in Seq(Names) /\ \A i \in 1..(n - 1) : path[i] # ""
  BY DEF Plain
<1>2. /\ done(0) = <<>>
      /\ \A i \in 1..n : done(i) = IF path[i] = "" THEN done(i - 1) ELSE Append(done(i - 1), path[i])
  <2>1. Prefix(path, 0) = <<>>
    <3>1. 1 \in 1..Len(path)
      OBVIOUS
    <3> QED
      BY <1>1, <3>1, PrefixGrows
  <2>2. ASSUME NEW i \in 1..n
        PROVE  done(i) = IF path[i] = "" THEN done(i - 1) ELSE Append(done(i - 1), path[i])
    <3>1. i - 1 # n /\ i \in 1..Len(path)
      OBVIOUS
    <3>2. done(i - 1) = Prefix(path, i - 1)
      BY <3>1
    <3>3. Prefix(path, i) = Append(Prefix(path, i - 1), path[i])
      BY <1>1, <3>1, PrefixGrows
    <3>4. CASE path[i] = ""
      <4>1. i = n
        <5>1. i # n => i \in 1..(n - 1)
          OBVIOUS
        <5> QED
          BY <1>1, <3>4, <5>1
      <4> QED
        BY <3>2, <3>4, <4>1
    <3>5. CASE path[i] # ""
      <4>1. done(i) = Prefix(path, i)
        BY <3>5
      <4> QED
        BY <3>2, <3>3, <3>5, <4>1
    <3> QED
      BY <3>4, <3>5
  <2>3. done(0) = <<>>
    BY <2>1
  <2> QED
    BY <2>2, <2>3
<1> HIDE DEF done
<1>3. \E f : Splits(f, path, n)
  <2>1. PICK f : f = [i \in 0..n |-> done(i)]
    OBVIOUS
  <2>2. ASSUME NEW i \in 0..n
        PROVE  f[i] = IF i = 0 THEN <<>>
                      ELSE IF path[i] = "" THEN f[i - 1] ELSE Append(f[i - 1], path[i])
    <3>1. CASE i = 0
      BY <1>2, <2>1, <3>1
    <3>2. CASE i # 0
      <4>1. i \in 1..n /\ i - 1 \in 0..n
        BY <3>2
      <4>2. f[i] = done(i) /\ f[i - 1] = done(i - 1)
        BY <2>1, <4>1
      <4> QED
        BY <1>2, <3>2, <4>1, <4>2
    <3> QED
      BY <3>1, <3>2
  <2> DEFINE next(i) == IF i = 0 THEN <<>>
                        ELSE IF path[i] = "" THEN f[i - 1] ELSE Append(f[i - 1], path[i])
  <2>3. PICK g : g = [i \in 0..n |-> next(i)]
    OBVIOUS
  <2>7. \A i \in 0..n : f[i] = next(i)
    BY <2>2
  <2>8. g = [i \in 0..n |-> IF i = 0 THEN <<>>
                             ELSE IF path[i] = "" THEN f[i - 1] ELSE Append(f[i - 1], path[i])]
    BY <2>3, Zenon
  <2> HIDE DEF next
  <2>4. \A i \in 0..n : f[i] = g[i]
    BY <2>3, <2>7
  <2>5. f = [i \in 0..n |-> f[i]] /\ g = [i \in 0..n |-> g[i]]
    BY <2>1, <2>3
  <2>6. f = g
    BY <2>4, <2>5
  <2> QED
    BY <2>6, <2>8, ZenonT(40) DEF Splits
<1>4. PICK f : f = CHOOSE g : Splits(g, path, n)
  OBVIOUS
<1>5. Splits(f, path, n)
  BY <1>3, <1>4, Zenon
<1>6. Parts(path) = f[n]
  <2>1. Parts(path) = (CHOOSE g : g = [i \in 0..Len(path) |->
                         IF i = 0 THEN <<>>
                         ELSE IF path[i] = "" THEN g[i - 1] ELSE Append(g[i - 1], path[i])])[Len(path)]
    BY Zenon DEF Parts
  <2> QED
    BY <1>4, <2>1, Zenon DEF Splits
<1>7. \A i \in 0..n : f[i] = done(i)
  <2>1. PICK T : T = {i \in 0..n : f[i] # done(i)}
    OBVIOUS
  <2> SUFFICES ASSUME T # {} PROVE FALSE
    BY <2>1
  <2>2. PICK m \in T : \A i \in T : m <= i
    <3>1. T \in SUBSET Nat
      BY <2>1
    <3> QED
      BY <3>1, LeastNumber
  <2>3. m \in 0..n /\ f[m] # done(m)
    BY <2>1
  <2>4. f[m] = IF m = 0 THEN <<>> ELSE IF path[m] = "" THEN f[m - 1] ELSE Append(f[m - 1], path[m])
    BY <1>5, <2>3 DEF Splits
  <2>5. m # 0
    BY <1>2, <2>3, <2>4
  <2>6. m \in 1..n /\ m - 1 \in 0..n /\ ~(m <= m - 1)
    BY <2>3, <2>5
  <2>7. f[m - 1] = done(m - 1)
    BY <2>1, <2>2, <2>6
  <2> QED
    BY <1>2, <2>3, <2>4, <2>5, <2>6, <2>7
<1>8. done(n) = IF path[n] = "" THEN Prefix(path, n - 1) ELSE Prefix(path, n)
  BY DEF done
<1>9. Prefix(path, n) = path
  <2>1. n \in 1..Len(path)
    OBVIOUS
  <2> QED
    BY <1>1, <2>1, PrefixGrows
<1>10. f[n] = done(n)
  <2>1. n \in 0..n
    OBVIOUS
  <2> QED
    BY <1>7, <2>1
<1> QED
  BY <1>6, <1>8, <1>9, <1>10

(* The parts of such a path are its segments but for an empty last one. *)
PlainShaped(path, parts, m, k) ==
  /\ path \in Seq(Names) /\ Len(path) = m /\ DOMAIN path = 1..m
  /\ parts \in Seq(Names) /\ Len(parts) = k /\ DOMAIN parts = 1..k
  /\ m - 1 <= k /\ k <= m
  /\ \A i \in 1..k : parts[i] = path[i] /\ parts[i] # "" /\ (parts[i] = "~" => i = k /\ i = m)
  /\ IsWildcard(path) <=> k # 0 /\ parts[k] = "~"

(* Every such path has such parts. *)
LEMMA PlainParts ==
  ASSUME NEW path, Plain(path), NEW parts, parts = Parts(path)
  PROVE  \E m \in Nat \ {0}, k \in Nat : PlainShaped(path, parts, m, k)
<1>0. /\ path \in Seq(Names) /\ Len(path) # 0
      /\ \A i \in 1..(Len(path) - 1) : path[i] # "" /\ path[i] # "~"
  BY Zenon DEF Plain
<1>1. PICK n \in Nat \ {0} : n = Len(path)
  <2>1. path \in Seq(Names) /\ Len(path) # 0
    BY <1>0
  <2> QED
    BY <2>1
<1>2. /\ path \in Seq(Names) /\ DOMAIN path = 1..n
      /\ \A i \in 1..n : path[i] \in Names
      /\ \A i \in 1..(n - 1) : path[i] # "" /\ path[i] # "~"
  <2>1. path \in Seq(Names)
    BY <1>0
  <2>2. DOMAIN path = 1..n /\ \A i \in 1..n : path[i] \in Names
    BY <1>1, <2>1
  <2> QED
    BY <1>0, <1>1, <2>1, <2>2, Zenon
<1>3. PICK k \in Nat :
                       /\ n - 1 <= k /\ k <= n
                       /\ k # n => path[n] = ""
                       /\ parts \in Seq(Names) /\ Len(parts) = k
                       /\ \A i \in 1..k : parts[i] = path[i]
                       /\ k = n => path[n] # ""
  <2>1. CASE path[n] # ""
    <3>1. parts = path
      BY <1>1, <2>1, PartsOfPlain
    <3>2. n - 1 <= n /\ n <= n /\ n \in Nat
      OBVIOUS
    <3> QED
      BY <1>1, <1>2, <2>1, <3>1, <3>2
  <2>2. CASE path[n] = ""
    <3>1. parts = Prefix(path, n - 1)
      BY <1>1, <2>2, PartsOfPlain
    <3>2. parts = [j \in 1..(n - 1) |-> path[j]]
      BY <3>1 DEF Prefix
    <3>3. \A j \in 1..(n - 1) : path[j] \in Names
      <4>1. \A j \in 1..(n - 1) : j \in 1..n
        OBVIOUS
      <4> QED
        BY <1>2, <4>1
    <3>4. parts \in [1..(n - 1) -> Names] /\ n - 1 \in Nat
      BY <3>2, <3>3
    <3>5. parts \in Seq(Names) /\ Len(parts) = n - 1 /\ \A j \in 1..(n - 1) : parts[j] = path[j]
      BY <3>2, <3>4
    <3>6. n - 1 # n /\ n - 1 <= n - 1 /\ n - 1 <= n
      OBVIOUS
    <3> QED
      BY <2>2, <3>4, <3>5, <3>6
  <2> QED
    BY <2>1, <2>2
<1>4. n - 1 <= k /\ k <= n
  BY <1>3, Zenon
<1>5. ASSUME NEW i \in 1..k
      PROVE  parts[i] = path[i] /\ parts[i] # "" /\ (parts[i] = "~" => i = k /\ i = n)
  <2>1. parts[i] = path[i]
    BY <1>3, Zenon
  <2>3. i \in 1..n /\ (i # n => i \in 1..(n - 1))
    BY <1>4
  <2>2. i = n => k = n
    BY <1>4
  <2> QED
    BY <1>2, <1>3, <2>1, <2>2, <2>3
<1>7. DOMAIN parts = 1..k
  <2>1. parts \in Seq(Names) /\ Len(parts) = k
    BY <1>3, Zenon
  <2> QED
    BY <2>1
<1>6. IsWildcard(path) <=> k # 0 /\ parts[k] = "~"
  <2>1. IsWildcard(path) <=> \E i \in 1..k : parts[i] = "~"
    <3>1. DOMAIN parts = 1..k
      BY <1>7
    <3>2. IsWildcard(path) <=> "~" \in Range(parts)
      BY DEF IsWildcard
    <3>3. Range(parts) = {parts[i] : i \in 1..k}
      BY <3>1 DEF Range
    <3> QED
      BY <3>2, <3>3
  <2>2. k # 0 => k \in 1..k
    OBVIOUS
  <2> QED
    BY <1>5, <2>1, <2>2
<1>8. PlainShaped(path, parts, n, k)
  <2>1. path \in Seq(Names) /\ Len(path) = n /\ DOMAIN path = 1..n
    BY <1>1, <1>2
  <2>2. parts \in Seq(Names) /\ Len(parts) = k
    BY <1>3, Zenon
  <2> QED
    BY <1>4, <1>5, <1>6, <1>7, <2>1, <2>2, Zenon DEF PlainShaped
<1> QED
  BY <1>8

-----------------------------------------------------------------------------
(* The ranks of the segments that fit a request. *)
LEMMA NamedRanks ==
  /\ Rank["a"] = 4 /\ Rank["b"] = 5 /\ Rank["{x}"] = 6 /\ Rank["{y}"] = 7 /\ Rank["~"] = 9
  /\ \A s \in {"a", "b"} : Rank[s] \in 4..5
  /\ \A s \in Parameters : Rank[s] \in 6..7
<1>1. Rank["a"] = 4 /\ Rank["b"] = 5 /\ Rank["{x}"] = 6 /\ Rank["{y}"] = 7 /\ Rank["~"] = 9
  BY SegmentRanks
<1>2. ASSUME NEW s \in {"a", "b"} PROVE Rank[s] \in 4..5
  <2>1. CASE s = "a"
    <3>1. Rank[s] = 4
      BY <1>1, <2>1
    <3> QED
      BY <3>1
  <2>2. CASE s = "b"
    <3>1. Rank[s] = 5
      BY <1>1, <2>2
    <3> QED
      BY <3>1
  <2> QED
    BY <2>1, <2>2
<1>3. ASSUME NEW s \in Parameters PROVE Rank[s] \in 6..7
  <2>1. CASE s = "{x}"
    <3>1. Rank[s] = 6
      BY <1>1, <2>1
    <3> QED
      BY <3>1
  <2>2. CASE s = "{y}"
    <3>1. Rank[s] = 7
      BY <1>1, <2>2
    <3> QED
      BY <3>1
  <2> QED
    BY <2>1, <2>2 DEF Parameters
<1> QED
  BY <1>1, <1>2, <1>3

(* A request whose segments are names has them as its parts. *)
LEMMA OrdinaryParts ==
  ASSUME NEW request \in Seq(Names), request # <<>>, Ordinary(request)
  PROVE  /\ Parts(request) = request
         /\ Len(request) \in Nat \ {0} /\ DOMAIN request = 1..Len(request)
         /\ \A i \in 1..Len(request) : request[i] \in {"a", "b"} /\ Rank[request[i]] \in 4..5
<1>1. PICK n \in Nat \ {0} : n = Len(request) /\ DOMAIN request = 1..n
  BY EmptySeq
<1>2. \A i \in 1..n : request[i] \in {"a", "b"}
  BY <1>1 DEF Ordinary
<1>3. \A i \in 1..n : request[i] # "" /\ request[i] # "~"
  BY <1>2
<1>4. Plain(request)
  <2>1. \A i \in 1..(Len(request) - 1) : i \in 1..n
    BY <1>1
  <2>2. Len(request) # 0
    BY <1>1
  <2> QED
    BY <1>3, <2>1, <2>2 DEF Plain
<1>5. Parts(request) = request
  <2>1. n \in 1..n
    OBVIOUS
  <2> QED
    BY <1>1, <1>3, <1>4, <2>1, PartsOfPlain
<1>6. \A i \in 1..n : Rank[request[i]] \in 4..5
  BY <1>2, NamedRanks
<1> QED
  BY <1>1, <1>2, <1>5, <1>6

(* A route that fits is not before the request in the order of paths. *)
LEMMA FitsNotBefore ==
  ASSUME NEW q, Plain(q),
         NEW request \in Seq(Names), request # <<>>, Ordinary(request), Fits(q, request)
  PROVE  ~Less(q, request)
<1> SUFFICES ASSUME Less(q, request) PROVE FALSE
  OBVIOUS
<1>1. q \in Seq(Names)
  BY Zenon DEF Plain
<1>2. PICK i \in Nat \ {0} : /\ Key(q, i) < Key(request, i)
                            /\ \A j \in 1..(i - 1) : Key(q, j) = Key(request, j)
  BY <1>1, LessByKeys DEF Precedes
<1>3. PICK t : t = Parts(q)
  OBVIOUS
<1>4. PICK m \in Nat \ {0}, k \in Nat : PlainShaped(q, t, m, k)
  BY <1>3, PlainParts
<1>13. PICK n \in Nat : n = Len(request)
  OBVIOUS
<1>5. /\ \A j \in 1..n : request[j] \in {"a", "b"} /\ Rank[request[j]] \in 4..5
      /\ DOMAIN request = 1..n
  BY <1>13, OrdinaryParts
<1>6. /\ m - 1 <= k /\ k <= m /\ DOMAIN t = 1..k
      /\ \A j \in 1..k : t[j] = q[j] /\ (t[j] = "~" => j = k /\ j = m)
      /\ IsWildcard(q) <=> k # 0 /\ t[k] = "~"
  BY <1>4 DEF PlainShaped
<1>14. m = Len(q) /\ k = Len(t)
  BY <1>4 DEF PlainShaped
<1>7. /\ k = n \/ (IsWildcard(q) /\ k <= n)
      /\ \A j \in 1..k : t[j] \in Parameters \cup {"~"} \/ t[j] = request[j]
  BY <1>3, <1>6, <1>13, <1>14 DEF Fits
<1>8. Key(q, i) \in 0..10 /\ Key(request, i) \in 0..10
  BY <1>1, KeyTyped
<1>9. i <= n
  BY <1>2, <1>13, <1>8, KeyTyped
<1>10. Key(request, i) = Rank[request[i]] /\ Rank[request[i]] \in 4..5
  <2>1. i \in 1..n
    BY <1>9
  <2> QED
    BY <1>13, <1>5, <1>9, <2>1 DEF Key
<1>11. CASE i <= k
  <2>1. i \in 1..k /\ i <= m
    BY <1>6, <1>11
  <2>2. Key(q, i) = Rank[t[i]]
    BY <1>14, <1>6, <2>1 DEF Key
  <2>3. CASE t[i] = request[i]
    BY <1>2, <1>8, <1>10, <2>2, <2>3
  <2>4. CASE t[i] \in Parameters \cup {"~"}
    <3>1. Rank[t[i]] \in {6, 7, 9}
      BY <2>4, NamedRanks DEF Parameters
    <3> QED
      BY <1>2, <1>10, <2>2, <3>1
  <2> QED
    BY <1>7, <2>1, <2>3, <2>4
<1>12. CASE ~(i <= k)
  <2>1. IsWildcard(q) /\ k # 0 /\ t[k] = "~" /\ k \in 1..k
    BY <1>6, <1>7, <1>9, <1>12
  <2>2. k = m /\ q[k] = "~"
    BY <1>6, <2>1
  <2>3. k \in 1..(i - 1) /\ k \in 1..n
    BY <1>9, <1>12, <2>1
  <2>4. Key(q, k) = Key(request, k)
    BY <1>2, <2>3
  <2>5. Key(q, k) = 9
    <3>1. Rank[q[k]] = 9
      BY <2>2, NamedRanks
    <3>2. k <= Len(q)
      BY <1>14, <2>2
    <3> QED
      BY <3>1, <3>2 DEF Key
  <2>6. Key(request, k) \in 4..5
    BY <1>13, <1>5, <2>3 DEF Key
  <2> QED
    BY <2>4, <2>5, <2>6
<1> QED
  BY <1>11, <1>12

(* Of two routes that fit, the one that outranks the other is before it. *)
LEMMA OutranksBefore ==
  ASSUME NEW p, Plain(p), NEW q, Plain(q),
         NEW request \in Seq(Names), request # <<>>, Ordinary(request),
         Fits(p, request), Outranks(p, q), Fits(q, request)
  PROVE  Less(p, q)
<1>1. PICK s, t : s = Parts(p) /\ t = Parts(q)
  OBVIOUS
<1>2. PICK i \in DOMAIN s \cap DOMAIN t : /\ Kind(s[i]) < Kind(t[i])
                                        /\ \A j \in 1..(i - 1) : s[j] = t[j]
  BY <1>1 DEF Outranks
<1>3. p \in Seq(Names) /\ q \in Seq(Names)
  BY Zenon DEF Plain
<1>13. PICK m \in Nat \ {0}, k \in Nat : PlainShaped(p, s, m, k)
  BY <1>1, PlainParts
<1>14. PICK n \in Nat \ {0}, l \in Nat : PlainShaped(q, t, n, l)
  BY <1>1, PlainParts
<1>4. k = Len(s) /\ l = Len(t) /\ m = Len(p) /\ n = Len(q)
  BY <1>13, <1>14 DEF PlainShaped
<1>5. /\ DOMAIN s = 1..k /\ DOMAIN t = 1..l /\ DOMAIN p = 1..m /\ DOMAIN q = 1..n
      /\ k <= m /\ l <= n
      /\ \A j \in 1..k : s[j] = p[j]
      /\ \A j \in 1..l : t[j] = q[j]
  BY <1>13, <1>14 DEF PlainShaped
<1>6. i \in 1..k /\ i \in 1..l /\ i \in 1..m /\ i \in 1..n
  BY <1>5
<1>7. s[i] \in Parameters \cup {"~"} \/ s[i] = request[i]
  BY <1>1, <1>5, <1>6 DEF Fits
<1>8. k <= Len(request)
  BY <1>1, <1>4 DEF Fits
<1>9. request[i] \in {"a", "b"} /\ Rank[request[i]] \in 4..5
  <2>1. PICK r \in Nat : r = Len(request)
    BY OrdinaryParts
  <2>2. i \in 1..r
    BY <1>6, <1>8, <2>1
  <2> QED
    BY <2>1, <2>2, OrdinaryParts
<1>10. Rank[s[i]] < Rank[t[i]]
  <2>1. PICK x, y, z : x = s[i] /\ y = t[i] /\ z = request[i]
    OBVIOUS
  <2>2. Kind(x) < Kind(y) /\ (x \in Parameters \/ x = "~" \/ x = z) /\ Rank[z] \in 4..5
    BY <1>2, <1>7, <1>9, <2>1
  <2>6. /\ \A u : u = "~" => Kind(u) = 3
        /\ \A u : u # "~" /\ u \in Parameters => Kind(u) = 2
    <3>1. "~" \notin Parameters
      BY DEF Parameters
    <3> QED
      BY <3>1 DEF Kind
  <2>3. CASE y = "~"
    <3>1. x # "~"
      BY <2>2, <2>3, <2>6
    <3>2. CASE x \in Parameters
      <4>1. Rank[x] \in 6..7
        BY <3>2, NamedRanks
      <4>2. Rank[y] = 9
        BY <2>3, NamedRanks
      <4> QED
        BY <2>1, <4>1, <4>2
    <3>3. CASE x = z
      <4>1. Rank[x] \in 4..5
        BY <2>2, <3>3
      <4>2. Rank[y] = 9
        BY <2>3, NamedRanks
      <4> QED
        BY <2>1, <4>1, <4>2
    <3> QED
      BY <2>2, <3>1, <3>2, <3>3
  <2>4. CASE y # "~" /\ y \in Parameters
    <3>1. Kind(y) = 2
      BY <2>4, <2>6
    <3>2. x # "~" /\ x \notin Parameters
      BY <2>2, <2>6, <3>1
    <3>3. Rank[x] \in 4..5
      BY <2>2, <3>2
    <3>4. Rank[y] \in 6..7
      BY <2>4, NamedRanks
    <3> QED
      BY <2>1, <3>3, <3>4
  <2>5. CASE y # "~" /\ y \notin Parameters
    <3>1. Kind(y) = 1
      BY <2>5 DEF Kind
    <3>2. Kind(x) \in 1..3
      BY DEF Kind
    <3> QED
      BY <2>2, <3>1, <3>2
  <2> QED
    BY <2>3, <2>4, <2>5
<1>11. \A j \in 1..(i - 1) : p[j] = q[j]
  <2>1. \A j \in 1..(i - 1) : j \in 1..k /\ j \in 1..l
    BY <1>6
  <2> QED
    BY <1>2, <1>5, <2>1
<1>12. i \in DOMAIN p \cap DOMAIN q /\ Rank[p[i]] < Rank[q[i]]
  BY <1>5, <1>6, <1>10
<1> QED
  BY <1>11, <1>12 DEF Less

(* A request is compared with a route: the route that fits it matches. *)
LEMMA ComparisonDecides ==
  ASSUME NEW entry, NEW q, Plain(q), entry.path = q, entry.parts = Parts(q), entry.wildcard = IsWildcard(q),
         NEW request \in Seq(Names), request # <<>>, Ordinary(request)
  PROVE  Comparison(entry, request) = IF Fits(q, request) THEN "matches" ELSE "differs"
<1>1. PICK t : t = Parts(q) /\ t = entry.parts
  OBVIOUS
<1>2. PICK m \in Nat \ {0}, k \in Nat : PlainShaped(q, t, m, k)
  BY <1>1, PlainParts
<1>3. /\ Len(t) = k /\ DOMAIN t = 1..k
      /\ \A j \in 1..k : t[j] = "~" => j = k
      /\ IsWildcard(q) <=> k # 0 /\ t[k] = "~"
  BY <1>2 DEF PlainShaped
<1>4. PICK n \in Nat \ {0} : n = Len(request) /\ DOMAIN request = 1..n
  BY OrdinaryParts
<1>5. \A j \in 1..n : request[j] \in {"a", "b"}
  BY <1>4, OrdinaryParts
<1> DEFINE long == n # k /\ (~IsWildcard(q) \/ n < k)
<1>6. ~long <=> k = n \/ (IsWildcard(q) /\ k <= n)
  <2>1. CASE IsWildcard(q)
    BY <2>1
  <2>2. CASE ~IsWildcard(q)
    BY <2>2
  <2> QED
    BY <2>1, <2>2
<1>7. Fits(q, request) <=> /\ ~long
                          /\ \A j \in 1..k : t[j] \in Parameters \/ t[j] = "~" \/ t[j] = request[j]
  <2>2. Fits(q, request) <=> /\ (k = n \/ (IsWildcard(q) /\ k <= n))
                            /\ \A j \in 1..k : t[j] \in Parameters \cup {"~"} \/ t[j] = request[j]
    BY <1>1, <1>3, <1>4 DEF Fits
  <2> QED
    BY <1>6, <2>2
<1>8. CASE long
  <2>1. Comparison(entry, request) = "differs"
    BY <1>1, <1>3, <1>4, <1>8 DEF Comparison
  <2> QED
    BY <1>7, <1>8, <2>1
<1>9. CASE ~long
  <2>1. PICK stops : stops = {j \in 1..n : j > k \/ (request[j] # t[j] /\ t[j] \notin Parameters)}
    OBVIOUS
  <2>2. PICK i : i = Decider(t, request)
    OBVIOUS
  <2>3. i = IF stops = {} THEN 0 ELSE CHOOSE j \in stops : \A l \in stops : j <= l
    BY <1>3, <1>4, <2>1, <2>2 DEF Decider
  <2>4. stops # {} => i \in stops /\ \A l \in stops : i <= l
    <3>1. stops \in SUBSET Nat
      BY <2>1
    <3>2. stops # {} => \E j \in stops : \A l \in stops : j <= l
      BY <3>1, LeastNumber
    <3> QED
      BY <2>3, <3>2
  <2>5. stops # {} => i \in 1..n
    BY <2>1, <2>4
  <2>6. k <= n
    BY <1>6, <1>9
  <2>7. request # <<>>
    OBVIOUS
  <2>8. Comparison(entry, request) =
          CASE i = 0 -> "matches"
            [] i > k -> "undefined"
            [] i <= k /\ i # 0 -> IF t[i] = "~" THEN "matches" ELSE "differs"
    <3>1. ~(Len(request) # Len(t) /\ (~entry.wildcard \/ Len(request) < Len(t)))
      BY <1>3, <1>4, <1>9
    <3>2. Comparison(entry, request) =
            CASE Decider(t, request) = 0 -> IF request = <<>> THEN "differs" ELSE "matches"
              [] Decider(t, request) > Len(t) -> "undefined"
              [] Decider(t, request) <= Len(t) /\ Decider(t, request) # 0 ->
                   IF t[Decider(t, request)] = "~" THEN "matches" ELSE "differs"
      BY <1>1, <3>1 DEF Comparison
    <3> QED
      BY <1>3, <2>2, <2>7, <3>2
  <2>9. CASE Fits(q, request)
    <3>1. CASE stops = {}
      BY <2>3, <2>8, <2>9, <3>1
    <3>2. CASE stops # {}
      <4>1. i \in 1..n /\ (i > k \/ (request[i] # t[i] /\ t[i] \notin Parameters))
        BY <2>1, <2>4, <3>2
      <4>2. ~(i > k)
        <5> SUFFICES ASSUME i > k PROVE FALSE
          OBVIOUS
        <5>1. k # n
          BY <4>1
        <5>2. IsWildcard(q)
          BY <1>6, <1>9, <5>1, <2>6
        <5>3. k # 0 /\ t[k] = "~" /\ k \in 1..n
          BY <1>3, <2>6, <5>2
        <5>4. request[k] # "~" /\ "~" \notin Parameters
          BY <1>5, <5>3 DEF Parameters
        <5>5. k \in stops
          BY <2>1, <5>3, <5>4
        <5> QED
          BY <2>4, <4>1, <5>5, <5>3
      <4>3. i \in 1..k
        BY <4>1, <4>2
      <4>4. t[i] = "~"
        BY <1>7, <2>9, <4>1, <4>2, <4>3
      <4>5. i # 0 /\ i <= k
        BY <4>3
      <4> QED
        BY <2>8, <2>9, <4>2, <4>4, <4>5
    <3> QED
      BY <3>1, <3>2
  <2>10. CASE ~Fits(q, request)
    <3>1. PICK l \in 1..k : t[l] \notin Parameters /\ t[l] # "~" /\ t[l] # request[l]
      BY <1>7, <1>9, <2>10
    <3>2. l \in 1..n
      BY <2>6
    <3>3. l \in stops
      BY <2>1, <3>1, <3>2
    <3>4. i \in 1..n /\ i <= l
      BY <2>4, <2>5, <3>3
    <3>5. i # 0 /\ i <= k /\ ~(i > k) /\ i \in 1..k
      BY <3>4
    <3>6. t[i] # "~"
      <4> SUFFICES ASSUME t[i] = "~" PROVE FALSE
        OBVIOUS
      <4>1. i = k
        BY <1>3, <3>5
      <4>2. i = l
        BY <3>4, <4>1
      <4> QED
        BY <3>1, <4>2
    <3> QED
      BY <2>8, <2>10, <3>5, <3>6
  <2> QED
    BY <2>9, <2>10
<1> QED
  BY <1>8, <1>9

(* A parameter of a match is the first segment that stands for its name. *)
FirstNamed(entry, path, i) ==
  \E j \in 1..i : /\ entry.parts[j] = entry.parts[i]
                  /\ Params(entry, path)[entry.parts[i]] = <<Parts(path)[j]>>

(* The value kept for a name is that of its first segment. *)
LEMMA ParamsAt ==
  ASSUME NEW entry, NEW k \in Nat, DOMAIN entry.parts = 1..k,
         NEW path, NEW i \in 1..k, entry.parts[i] \in Parameters
  PROVE  FirstNamed(entry, path, i)
<1> DEFINE names == {l \in DOMAIN entry.parts : entry.parts[l] \in Parameters}
           first(s) == CHOOSE l \in names :
                         entry.parts[l] = s /\ \A h \in names : entry.parts[h] = s => l <= h
           rest == SubSeq(Bytes(path), 2 * Len(entry.parts), Len(Bytes(path)))
           keys == {entry.parts[l] : l \in names}
                     \cup (IF entry.wildcard THEN {"_wildcard_"} ELSE {})
<1>1. Params(entry, path) =
        [s \in keys |-> IF s = "_wildcard_" THEN rest ELSE <<Parts(path)[first(s)]>>]
  BY DEF Params
<1>2. PICK s : s = entry.parts[i]
  OBVIOUS
<1>3. PICK T : T = {l \in 1..k : entry.parts[l] = s}
  OBVIOUS
<1>4. PICK j \in T : \A l \in T : j <= l
  <2>1. T \in SUBSET Nat /\ i \in T
    BY <1>2, <1>3
  <2> QED
    BY <2>1, LeastNumber
<1>5. \A l : l \in T <=> l \in names /\ entry.parts[l] = s
  BY <1>2, <1>3
<1>6. \E l \in names : entry.parts[l] = s /\ \A h \in names : entry.parts[h] = s => l <= h
  BY <1>4, <1>5
<1>7. /\ first(s) \in names /\ entry.parts[first(s)] = s
      /\ \A h \in names : entry.parts[h] = s => first(s) <= h
  BY <1>6, Zenon
<1>8. s \in keys /\ s # "_wildcard_"
  <2>1. i \in names
    BY <1>2
  <2>2. s \in {entry.parts[l] : l \in names}
    BY <1>2, <2>1
  <2> QED
    BY <1>2, <2>2 DEF Parameters
<1>9. PICK f : f = first(s)
  OBVIOUS
<1>10. f \in 1..i /\ entry.parts[f] = s
  <2>1. f \in names /\ entry.parts[f] = s /\ \A h \in names : entry.parts[h] = s => f <= h
    BY <1>7, <1>9
  <2>2. i \in names
    BY <1>2
  <2> QED
    BY <1>2, <2>1, <2>2
<1>11. Params(entry, path)[s] = <<Parts(path)[f]>>
  <2>1. Params(entry, path)[s] = <<Parts(path)[first(s)]>>
    <3> HIDE DEF keys, first, rest
    <3> QED
      BY <1>1, <1>8
  <2> QED
    BY <1>9, <2>1
<1> QED
  BY <1>2, <1>10, <1>11 DEF FirstNamed

(* The parameters of a match are what the route promises. *)
LEMMA ParamsMatch ==
  ASSUME NEW entry, NEW q, Plain(q), entry.path = q, entry.parts = Parts(q), entry.wildcard = IsWildcard(q),
         NEW request \in Seq(Names), request # <<>>, Ordinary(request)
  PROVE  ParamsOf(q, request, Params(entry, request))
<1>1. PICK t : t = Parts(q) /\ t = entry.parts
  OBVIOUS
<1>2. PICK m \in Nat \ {0}, k \in Nat : PlainShaped(q, t, m, k)
  BY <1>1, PlainParts
<1>3. DOMAIN t = 1..k
  BY <1>2 DEF PlainShaped
<1>4. Parts(request) = request
  BY OrdinaryParts
<1>5. PICK params : params = Params(entry, request)
  OBVIOUS
<1>6. ASSUME NEW i \in 1..k, t[i] \in Parameters
      PROVE  \E j \in 1..i : t[j] = t[i] /\ params[t[i]] = <<request[j]>>
  <2>1. DOMAIN entry.parts = 1..k /\ entry.parts[i] \in Parameters
    BY <1>1, <1>3, <1>6
  <2>2. FirstNamed(entry, request, i)
    BY <1>2, <1>6, <2>1, ParamsAt
  <2> QED
    BY <1>1, <1>4, <1>5, <2>2 DEF FirstNamed
<1> QED
  BY <1>1, <1>3, <1>5, <1>6 DEF ParamsOf

-----------------------------------------------------------------------------
(* A set of numbers that has those before each of its own is an interval. *)
LEMMA DownwardClosed ==
  ASSUME NEW n \in Nat, NEW A \in SUBSET (1..n),
         \A i \in A : \A j \in 1..i : j \in A
  PROVE  Cardinality(A) \in 0..n /\ \A j \in 1..n : j \in A <=> j <= Cardinality(A)
<1>1. PICK T : T = {x \in 1..(n + 1) : x \notin A}
  OBVIOUS
<1>2. T \in SUBSET Nat /\ n + 1 \in T
  BY <1>1
<1>3. PICK c \in T : \A y \in T : c <= y
  BY <1>2, LeastNumber
<1>4. c \in 1..(n + 1) /\ c \notin A
  BY <1>1, <1>3
<1>5. \A j \in 1..n : j \in A <=> j < c
  <2>1. ASSUME NEW j \in 1..n, j < c PROVE j \in A
    <3>1. j \notin T
      BY <1>3, <1>4, <2>1
    <3> QED
      BY <1>1, <3>1
  <2>2. ASSUME NEW j \in A, j >= c PROVE FALSE
    <3>1. c \in 1..j
      BY <1>4, <2>2
    <3> QED
      BY <1>4, <3>1
  <2>3. \A j \in 1..n : j < c \/ j >= c
    BY <1>4
  <2> QED
    BY <1>4, <2>1, <2>2, <2>3
<1>6. A = 1..(c - 1)
  <2>1. ASSUME NEW j \in A PROVE j \in 1..(c - 1)
    <3>1. j \in 1..n /\ j < c
      BY <1>5
    <3> QED
      BY <1>4, <3>1
  <2>2. ASSUME NEW j \in 1..(c - 1) PROVE j \in A
    <3>1. j \in 1..n /\ j < c
      BY <1>4
    <3> QED
      BY <1>5, <3>1
  <2> QED
    BY <2>1, <2>2
<1>7. Cardinality(A) = c - 1
  <2>1. 1 \in Int /\ c - 1 \in Int
    BY <1>4
  <2>2. Cardinality(1..(c - 1)) = IF 1 > c - 1 THEN 0 ELSE c - 1 - 1 + 1
    BY <2>1, FS_Interval
  <2> QED
    BY <1>4, <1>6, <2>2
<1> QED
  BY <1>4, <1>5, <1>7

(* A set of numbers below a number has fewer of them. *)
LEMMA CountBelow ==
  ASSUME NEW j \in Nat \ {0}, NEW A \in SUBSET (1..(j - 1))
  PROVE  Cardinality(A) \in Nat /\ 1 + Cardinality(A) <= j
<1>1. 1 \in Int /\ j - 1 \in Int
  OBVIOUS
<1>2. /\ IsFiniteSet(1..(j - 1))
      /\ Cardinality(1..(j - 1)) = IF 1 > j - 1 THEN 0 ELSE j - 1 - 1 + 1
  BY <1>1, FS_Interval
<1>3. Cardinality(1..(j - 1)) = j - 1
  BY <1>2
<1>4. IsFiniteSet(A) /\ Cardinality(A) <= Cardinality(1..(j - 1))
  BY <1>2, FS_Subset
<1>5. Cardinality(A) \in Nat
  BY <1>4, FS_CardinalityType
<1> QED
  BY <1>3, <1>4, <1>5

(* What an insertion leaves where. *)
Insertion(t, s, n, k, e) ==
  /\ DOMAIN t = 1..(n + 1) /\ t[k] = e
  /\ \A j \in 1..(n + 1) : j < k => t[j] = s[j]
  /\ \A j \in 1..(n + 1) : j > k => t[j] = s[j - 1]

(* InsertAt() puts one element between those before and those after. *)
LEMMA InsertionLeaves ==
  ASSUME NEW S, NEW s \in Seq(S), NEW e, NEW n, n = Len(s), NEW k \in 1..(n + 1)
  PROVE  /\ \E T : InsertAt(s, k, e) \in Seq(T)
         /\ Insertion(InsertAt(s, k, e), s, n, k, e)
<1>1. PICK T : T = S \cup {e}
  OBVIOUS
<1>2. n \in Nat /\ \A j \in 1..n : s[j] \in T
  BY <1>1
<1>3. PICK l : l = SubSeq(s, 1, k - 1)
  OBVIOUS
<1>4. l \in Seq(T) /\ Len(l) = k - 1 /\ \A j \in 1..(k - 1) : l[j] = s[j]
  <2>1. 1 \in Int /\ k - 1 \in Int /\ \A j \in 1..(k - 1) : s[j] \in T
    BY <1>2
  <2>2. /\ SubSeq(s, 1, k - 1) \in Seq(T)
        /\ Len(SubSeq(s, 1, k - 1)) = IF 1 <= k - 1 THEN k - 1 - 1 + 1 ELSE 0
        /\ \A j \in 1..(k - 1 - 1 + 1) : SubSeq(s, 1, k - 1)[j] = s[1 + j - 1]
    BY <2>1, SubSeqProperties
  <2>3. k - 1 - 1 + 1 = k - 1 /\ (~(1 <= k - 1) => k - 1 = 0)
    BY <1>2
  <2>4. \A j \in 1..(k - 1) : 1 + j - 1 = j
    OBVIOUS
  <2> QED
    BY <1>3, <2>2, <2>3, <2>4
<1>5. PICK r : r = SubSeq(s, k, Len(s))
  OBVIOUS
<1>6. r \in Seq(T) /\ Len(r) = n - k + 1 /\ \A j \in 1..(n - k + 1) : r[j] = s[k + j - 1]
  <2>1. k \in Int /\ n \in Int /\ \A j \in k..n : s[j] \in T
    BY <1>2
  <2>2. /\ SubSeq(s, k, n) \in Seq(T)
        /\ Len(SubSeq(s, k, n)) = IF k <= n THEN n - k + 1 ELSE 0
        /\ \A j \in 1..(n - k + 1) : SubSeq(s, k, n)[j] = s[k + j - 1]
    BY <2>1, SubSeqProperties
  <2>3. ~(k <= n) => n - k + 1 = 0
    BY <1>2
  <2> QED
    BY <1>5, <2>2, <2>3
<1>7. PICK o : o = <<e>>
  OBVIOUS
<1>8. o \in Seq(T) /\ Len(o) = 1 /\ o[1] = e
  BY <1>1, <1>7
<1>9. PICK h : h = l \o o
  OBVIOUS
<1>10. /\ h \in Seq(T) /\ Len(h) = k
       /\ \A j \in 1..k : h[j] = IF j <= k - 1 THEN l[j] ELSE o[j - (k - 1)]
  <2>1. /\ l \o o \in Seq(T) /\ Len(l \o o) = Len(l) + Len(o)
        /\ \A j \in 1..(Len(l) + Len(o)) : (l \o o)[j] = IF j <= Len(l) THEN l[j] ELSE o[j - Len(l)]
    BY <1>4, <1>8, ConcatProperties
  <2>2. Len(l) = k - 1 /\ Len(o) = 1 /\ k - 1 + 1 = k
    BY <1>4, <1>8
  <2> QED
    BY <1>9, <2>1, <2>2
<1>11. PICK t : t = h \o r
  OBVIOUS
<1>12. /\ t \in Seq(T) /\ Len(t) = n + 1
       /\ \A j \in 1..(n + 1) : t[j] = IF j <= k THEN h[j] ELSE r[j - k]
  <2>1. /\ h \o r \in Seq(T) /\ Len(h \o r) = Len(h) + Len(r)
        /\ \A j \in 1..(Len(h) + Len(r)) : (h \o r)[j] = IF j <= Len(h) THEN h[j] ELSE r[j - Len(h)]
    BY <1>6, <1>10, ConcatProperties
  <2>2. Len(h) = k /\ Len(r) = n - k + 1 /\ k + (n - k + 1) = n + 1
    BY <1>2, <1>6, <1>10
  <2> QED
    BY <1>11, <2>1, <2>2
<1>13. InsertAt(s, k, e) = t
  BY <1>3, <1>5, <1>7, <1>9, <1>11 DEF InsertAt
<1>14. DOMAIN t = 1..(n + 1)
  BY <1>2, <1>12
<1>15. t[k] = e
  <2>1. k \in 1..(n + 1) /\ k <= k /\ k \in 1..k /\ ~(k <= k - 1) /\ k - (k - 1) = 1
    BY <1>2
  <2>2. t[k] = h[k] /\ h[k] = o[k - (k - 1)]
    BY <1>10, <1>12, <2>1
  <2> QED
    BY <1>8, <2>1, <2>2
<1>16. ASSUME NEW j \in 1..(n + 1), j < k PROVE t[j] = s[j]
  <2>1. j <= k /\ j \in 1..k /\ j <= k - 1 /\ j \in 1..(k - 1)
    BY <1>2, <1>16
  <2>2. t[j] = h[j] /\ h[j] = l[j]
    BY <1>10, <1>12, <2>1
  <2> QED
    BY <1>4, <2>1, <2>2
<1>17. ASSUME NEW j \in 1..(n + 1), j > k PROVE t[j] = s[j - 1]
  <2>1. ~(j <= k) /\ j - k \in 1..(n - k + 1) /\ k + (j - k) - 1 = j - 1
    BY <1>2, <1>17
  <2>2. t[j] = r[j - k]
    BY <1>12, <2>1
  <2> QED
    BY <1>6, <2>1, <2>2
<1> QED
  BY <1>12, <1>13, <1>14, <1>15, <1>16, <1>17, Zenon DEF Insertion

-----------------------------------------------------------------------------
(* What add() keeps: the paths are sorted, each entry says what its path says, its
   methods and its handlers are those of routes with its path, and every route has
   an entry.                                                                    *)
Columns == {"path", "parts", "wildcard", "methods", "handlers"}
Served(entry) ==
  /\ DOMAIN entry = Columns
  /\ Plain(entry.path) /\ ~Starred(entry.path)
  /\ entry.parts = Parts(entry.path) /\ entry.wildcard = IsWildcard(entry.path)
  /\ \E n \in Nat \ {0} :
       /\ DOMAIN entry.methods = 1..n /\ DOMAIN entry.handlers = 1..n
       /\ entry.methods \in Seq(Methods) /\ entry.handlers \in Seq(Nat)
Points(entry) ==
  \A j \in DOMAIN entry.methods :
    /\ entry.handlers[j] \in DOMAIN handlers
    /\ handlers[entry.handlers[j]].method = entry.methods[j]
    /\ Stored(handlers[entry.handlers[j]].path) = entry.path
Sorted(s, n) == \A i, j \in 1..n : i < j => ~Less(s[j].path, s[i].path)
Listed == \E S : handlers \in Seq(S)
Kept ==
  /\ Vector /\ Listed
  /\ \A i \in DOMAIN paths : Served(paths[i]) /\ Points(paths[i])
  /\ \A h \in DOMAIN handlers : \E i \in DOMAIN paths : paths[i].path = Stored(handlers[h].path)
  /\ Sorted(paths, Len(paths))

(* It holds of a router without routes. *)
LEMMA KeptInit == Init => Kept
<1> SUFFICES ASSUME Init PROVE Kept
  OBVIOUS
<1>1. paths = <<>> /\ handlers = <<>>
  BY DEF Init
<1>2. Vector /\ Listed
  <2>1. paths \in Seq({}) /\ handlers \in Seq({})
    BY <1>1
  <2> QED
    BY <2>1 DEF Vector, Listed
<1>3. DOMAIN paths = {} /\ DOMAIN handlers = {} /\ Len(paths) = 0
  BY <1>1
<1>4. Sorted(paths, Len(paths))
  BY <1>3 DEF Sorted
<1> QED
  BY <1>2, <1>3, <1>4 DEF Kept

(* A path that is configured is stored as a plain one. *)
LEMMA StoredPlain ==
  ASSUME PlainRoutes, NEW path \in RoutePaths
  PROVE  Plain(Stored(path)) /\ ~Starred(Stored(path))
<1>1. path \in Seq(Names) /\ path # <<>>
  BY PathsAssumption DEF Names
<1>2. PICK n \in Nat \ {0} : n = Len(path)
  BY <1>1, EmptySeq
<1>3. DOMAIN path = 1..n /\ \A i \in 1..n : path[i] \in Names
  BY <1>1, <1>2
<1>4. \A i \in 1..n : path[i] # "~"
  BY <1>3 DEF PlainRoutes, Range
<1>5. \A i \in 1..(n - 1) : path[i] # ""
  <2>1. "" \notin Range(Front(path))
    BY DEF PlainRoutes
  <2>2. Front(path) = [i \in 1..(n - 1) |-> path[i]]
    <3>1. Front(path) = SubSeq(path, 1, Len(path) - 1)
      BY DEF Front
    <3> QED
      BY <1>1, <1>2, <3>1
  <2>3. DOMAIN Front(path) = 1..(n - 1) /\ \A i \in 1..(n - 1) : Front(path)[i] = path[i]
    BY <2>2
  <2> QED
    BY <2>1, <2>3 DEF Range
<1>6. PICK q : q = Stored(path)
  OBVIOUS
<1>7. q = IF path[n] = "*" THEN [path EXCEPT ![n] = "~"] ELSE path
  BY <1>2, <1>6 DEF Stored, Starred
<1>8. DOMAIN q = 1..n /\ \A i \in 1..(n - 1) : q[i] = path[i]
  BY <1>3, <1>7
<1>9. \A i \in 1..n : q[i] \in Names
  BY <1>3, <1>7, SegmentRanks
<1>10. q \in Seq(Names) /\ Len(q) = n
  <2>1. q = [i \in 1..n |-> q[i]]
    <3>1. CASE path[n] = "*"
      BY <1>3, <1>7, <3>1
    <3>2. CASE path[n] # "*"
      BY <1>1, <1>2, <1>7, <3>2
    <3> QED
      BY <3>1, <3>2
  <2>2. q \in [1..n -> Names]
    BY <1>9, <2>1
  <2>3. n \in Nat
    OBVIOUS
  <2>4. q \in Seq(Names)
    BY <2>2, <2>3
  <2> QED
    BY <1>8, <2>4, <2>3
<1>11. \A i \in 1..(n - 1) : i \in 1..n
  OBVIOUS
<1>12. ~Starred(q)
  <2>1. n \in 1..n
    OBVIOUS
  <2>2. q[n] # "*"
    BY <1>3, <1>7, <2>1
  <2> QED
    BY <1>10, <2>2 DEF Starred
<1> QED
  BY <1>4, <1>5, <1>6, <1>8, <1>10, <1>11, <1>12 DEF Plain

(* An entry that has every handler it had is not disturbed by another route. *)
LEMMA PointsStay ==
  ASSUME NEW entry, Points(entry), NEW S, handlers \in Seq(S), NEW route,
         handlers' = Append(handlers, route)
  PROVE  \A j \in DOMAIN entry.methods :
           /\ entry.handlers[j] \in DOMAIN handlers'
           /\ handlers'[entry.handlers[j]].method = entry.methods[j]
           /\ Stored(handlers'[entry.handlers[j]].path) = entry.path
<1>1. PICK n \in Nat : n = Len(handlers) /\ DOMAIN handlers = 1..n
  OBVIOUS
<1>2. DOMAIN handlers' = 1..(n + 1) /\ \A h \in 1..n : handlers'[h] = handlers[h]
  BY <1>1
<1>3. \A h \in 1..n : h \in 1..(n + 1)
  BY <1>1
<1> SUFFICES ASSUME NEW j \in DOMAIN entry.methods
             PROVE  /\ entry.handlers[j] \in DOMAIN handlers'
                    /\ handlers'[entry.handlers[j]].method = entry.methods[j]
                    /\ Stored(handlers'[entry.handlers[j]].path) = entry.path
  OBVIOUS
<1>4. PICK h : h = entry.handlers[j]
  OBVIOUS
<1>5. h \in 1..n /\ handlers[h].method = entry.methods[j] /\ Stored(handlers[h].path) = entry.path
  BY <1>1, <1>4 DEF Points
<1> QED
  BY <1>2, <1>3, <1>4, <1>5

(* A route that joins the entry of its path leaves the order as it is. *)
LEMMA KeptAddMethod ==
  ASSUME Kept, PlainRoutes, NEW m \in Methods, NEW path \in RoutePaths, AddMethod(m, path)
  PROVE  Kept'
<1>1. PICK i : /\ i \in DOMAIN paths /\ paths[i].path = path
               /\ paths' = [paths EXCEPT ![i].methods = Append(@, m),
                                         ![i].handlers = Append(@, Len(handlers) + 1)]
               /\ handlers' = Append(handlers, [method |-> m, path |-> path])
  BY DEF AddMethod
<1>2. PICK S : paths \in Seq(S)
  BY DEF Kept, Vector
<1>3. PICK H : handlers \in Seq(H)
  BY DEF Kept, Listed
<1>4. PICK l \in Nat : l = Len(paths) /\ DOMAIN paths = 1..l
  BY <1>2
<1>5. PICK h \in Nat : h = Len(handlers) /\ DOMAIN handlers = 1..h
  BY <1>3
<1>6. PICK route : route = [method |-> m, path |-> path]
  OBVIOUS
<1>7. /\ handlers' = Append(handlers, route)
      /\ DOMAIN handlers' = 1..(h + 1) /\ handlers'[h + 1] = route
      /\ \A g \in 1..h : handlers'[g] = handlers[g]
  BY <1>1, <1>3, <1>5, <1>6
<1>8. PICK e : e = paths[i]
  OBVIOUS
<1>9. Served(e) /\ Points(e) /\ e.path = path
  BY <1>1, <1>8 DEF Kept
<1>10. PICK f : f = paths'
  OBVIOUS
<1>11. PICK g : g = [e EXCEPT !.methods = Append(@, m), !.handlers = Append(@, h + 1)]
  OBVIOUS
<1>12. DOMAIN f = 1..l /\ f[i] = g /\ \A j \in 1..l : j # i => f[j] = paths[j]
  BY <1>1, <1>4, <1>5, <1>8, <1>10, <1>11
<1>13. f = [j \in 1..l |-> f[j]]
  BY <1>1, <1>4, <1>10
<1>14. Vector' /\ Len(f) = l
  <2>1. PICK T : f \in Seq(T)
    BY <1>13, Tabulated
  <2>2. Len(f) = l
    BY <1>12, <2>1
  <2> QED
    BY <1>10, <2>1, <2>2 DEF Vector
<1>15. Listed'
  <2>1. PICK T : T = H \cup {route}
    OBVIOUS
  <2>2. handlers \in Seq(T) /\ route \in T
    BY <1>3, <2>1
  <2>3. handlers' \in Seq(T)
    BY <1>7, <2>2
  <2> QED
    BY <2>3 DEF Listed
<1>16. /\ DOMAIN e = Columns /\ Plain(e.path) /\ ~Starred(e.path)
       /\ e.parts = Parts(e.path) /\ e.wildcard = IsWildcard(e.path)
  BY <1>9 DEF Served
<1>17. PICK n \in Nat \ {0} : /\ DOMAIN e.methods = 1..n /\ DOMAIN e.handlers = 1..n
                             /\ e.methods \in Seq(Methods) /\ e.handlers \in Seq(Nat)
  BY <1>9 DEF Served
<1>18. PICK ms, hs : ms = Append(e.methods, m) /\ hs = Append(e.handlers, h + 1)
  OBVIOUS
<1>19. /\ DOMAIN g = Columns /\ g.path = e.path /\ g.parts = e.parts /\ g.wildcard = e.wildcard
       /\ g.methods = ms /\ g.handlers = hs
  BY <1>11, <1>16, <1>18 DEF Columns
<1>20. /\ ms \in Seq(Methods) /\ DOMAIN ms = 1..(n + 1)
       /\ ms[n + 1] = m /\ \A j \in 1..n : ms[j] = e.methods[j]
  BY <1>17, <1>18
<1>21. /\ hs \in Seq(Nat) /\ DOMAIN hs = 1..(n + 1)
       /\ hs[n + 1] = h + 1 /\ \A j \in 1..n : hs[j] = e.handlers[j]
  BY <1>17, <1>18
<1>22. Served(g)
  <2>1. n + 1 \in Nat \ {0}
    OBVIOUS
  <2> QED
    BY <1>16, <1>19, <1>20, <1>21, <2>1 DEF Served
<1>23. Stored(path) = path
  BY <1>9, <1>16 DEF Stored
<1>24. Points(g)'
  <2>0. \A j \in 1..n : /\ e.handlers[j] \in DOMAIN handlers'
                       /\ handlers'[e.handlers[j]].method = e.methods[j]
                       /\ Stored(handlers'[e.handlers[j]].path) = e.path
    BY <1>3, <1>7, <1>9, <1>17, PointsStay
  <2> SUFFICES ASSUME NEW j \in 1..(n + 1)
               PROVE  /\ g.handlers[j] \in DOMAIN handlers'
                      /\ handlers'[g.handlers[j]].method = g.methods[j]
                      /\ Stored(handlers'[g.handlers[j]].path) = g.path
    BY <1>19, <1>20 DEF Points
  <2>1. CASE j \in 1..n
    BY <1>19, <1>20, <1>21, <2>0, <2>1
  <2>2. CASE j = n + 1
    <3>1. hs[j] = h + 1 /\ ms[j] = m /\ h + 1 \in 1..(h + 1)
      BY <1>20, <1>21, <2>2
    <3>2. handlers'[h + 1].method = m /\ handlers'[h + 1].path = path
      BY <1>6, <1>7
    <3> QED
      BY <1>7, <1>9, <1>19, <1>23, <3>1, <3>2
  <2> QED
    BY <2>1, <2>2
<1>25. \A j \in 1..l : f[j].path = paths[j].path
  BY <1>8, <1>12, <1>19
<1>26. ASSUME NEW j \in 1..l PROVE Served(f[j]) /\ Points(f[j])'
  <2>1. CASE j = i
    BY <1>10, <1>12, <1>22, <1>24, <2>1
  <2>2. CASE j # i
    <3>1. PICK d : d = paths[j] /\ d = f[j]
      BY <1>12, <2>2
    <3>2. Served(d) /\ Points(d)
      BY <1>4, <3>1 DEF Kept
    <3>3. Points(d)'
      BY <1>3, <1>7, <3>2, PointsStay DEF Points
    <3> QED
      BY <1>10, <3>1, <3>2, <3>3
  <2> QED
    BY <2>1, <2>2
<1>27. ASSUME NEW q \in 1..(h + 1) PROVE \E j \in 1..l : f[j].path = Stored(handlers'[q].path)
  <2>1. CASE q \in 1..h
    <3>1. \E j \in 1..l : paths[j].path = Stored(handlers[q].path)
      BY <1>4, <1>5, <2>1 DEF Kept
    <3> QED
      BY <1>7, <1>25, <2>1, <3>1
  <2>2. CASE q = h + 1
    <3>1. handlers'[q].path = path
      BY <1>6, <1>7, <2>2
    <3> QED
      BY <1>1, <1>4, <1>9, <1>8, <1>23, <1>25, <3>1
  <2> QED
    BY <2>1, <2>2
<1>28. Sorted(f, l)
  <2>1. Sorted(paths, l)
    BY <1>4 DEF Kept
  <2> QED
    BY <1>25, <2>1 DEF Sorted
<1> QED
  BY <1>7, <1>10, <1>12, <1>14, <1>15, <1>26, <1>27, <1>28 DEF Kept

(* An entry that is inserted before the first it precedes leaves the paths sorted. *)
LEMMA SortedInsertion ==
  ASSUME NEW s, NEW n \in Nat, DOMAIN s = 1..n, \A i \in 1..n : Plain(s[i].path), Sorted(s, n),
         NEW e, Plain(e.path),
         NEW k, k = 1 + Cardinality({i \in 1..n : ~Less(e.path, s[i].path)}),
         NEW t, Insertion(t, s, n, k, e)
  PROVE  Sorted(t, n + 1)
<1>1. PICK A : A = {i \in 1..n : ~Less(e.path, s[i].path)}
  OBVIOUS
<1>2. e.path \in Seq(Names) /\ \A i \in 1..n : s[i].path \in Seq(Names)
  BY DEF Plain
<1>3. ASSUME NEW i \in A, NEW j \in 1..i PROVE j \in A
  <2>1. i \in 1..n /\ j \in 1..n /\ ~Less(e.path, s[i].path) /\ (j = i \/ j < i)
    BY <1>1
  <2>2. j < i => ~Less(s[i].path, s[j].path)
    BY <2>1 DEF Sorted
  <2>3. Less(e.path, s[j].path) => Less(e.path, s[i].path) \/ Less(s[i].path, s[j].path)
    BY <1>2, <2>1, LessBetween
  <2> QED
    BY <1>1, <2>1, <2>2, <2>3
<1>4. Cardinality(A) \in 0..n /\ \A j \in 1..n : j \in A <=> j <= Cardinality(A)
  <2>1. A \in SUBSET (1..n)
    BY <1>1
  <2> QED
    BY <1>3, <2>1, DownwardClosed
<1>5. k \in 1..(n + 1) /\ \A j \in 1..n : j < k <=> ~Less(e.path, s[j].path)
  <2>1. k = 1 + Cardinality(A)
    BY <1>1
  <2>2. \A j \in 1..n : j \in A <=> j < k
    BY <1>4, <2>1
  <2> QED
    BY <1>1, <1>4, <2>1, <2>2
<1>6. /\ t[k] = e
      /\ \A j \in 1..(n + 1) : j < k => t[j] = s[j]
      /\ \A j \in 1..(n + 1) : j > k => t[j] = s[j - 1]
  BY Zenon DEF Insertion
<1> SUFFICES ASSUME NEW i \in 1..(n + 1), NEW j \in 1..(n + 1), i < j
             PROVE  ~Less(t[j].path, t[i].path)
  BY DEF Sorted
<1>7. CASE j < k
  <2>1. i \in 1..n /\ j \in 1..n /\ i < k
    BY <1>5, <1>7
  <2>2. t[i] = s[i] /\ t[j] = s[j]
    BY <1>6, <1>7, <2>1
  <2> QED
    BY <2>1, <2>2 DEF Sorted
<1>8. CASE j = k
  <2>1. i \in 1..n /\ i < k
    BY <1>5, <1>8
  <2>2. t[i] = s[i] /\ t[j] = e
    BY <1>6, <1>8, <2>1
  <2> QED
    BY <1>5, <2>1, <2>2
<1>9. CASE j > k /\ i < k
  <2>1. i \in 1..n /\ j - 1 \in 1..n /\ i < j - 1
    BY <1>5, <1>9
  <2>2. t[i] = s[i] /\ t[j] = s[j - 1]
    BY <1>6, <1>9
  <2> QED
    BY <2>1, <2>2 DEF Sorted
<1>10. CASE j > k /\ i = k
  <2>1. j - 1 \in 1..n /\ ~(j - 1 < k)
    BY <1>5, <1>10
  <2>2. t[i] = e /\ t[j] = s[j - 1]
    BY <1>6, <1>10
  <2>3. Less(e.path, s[j - 1].path)
    BY <1>5, <2>1
  <2>4. s[j - 1].path \in Seq(Names)
    BY <1>2, <2>1
  <2> QED
    BY <1>2, <2>2, <2>3, <2>4, LessAsymmetric
<1>11. CASE j > k /\ i > k
  <2>1. i - 1 \in 1..n /\ j - 1 \in 1..n /\ i - 1 < j - 1
    BY <1>5, <1>11
  <2>2. t[i] = s[i - 1] /\ t[j] = s[j - 1]
    BY <1>6, <1>11
  <2> QED
    BY <2>1, <2>2 DEF Sorted
<1> QED
  BY <1>5, <1>7, <1>8, <1>9, <1>10, <1>11

(* A route with a path of its own gets an entry, where it keeps the paths sorted. *)
LEMMA KeptAddPath ==
  ASSUME Kept, PlainRoutes, NEW m \in Methods, NEW path \in RoutePaths, AddPath(m, path)
  PROVE  Kept'
<1>1. PICK q : q = Stored(path)
  OBVIOUS
<1>2. PICK S : paths \in Seq(S)
  BY DEF Kept, Vector
<1>3. PICK H : handlers \in Seq(H)
  BY DEF Kept, Listed
<1>4. PICK l \in Nat : l = Len(paths) /\ DOMAIN paths = 1..l
  BY <1>2
<1>5. PICK h \in Nat : h = Len(handlers) /\ DOMAIN handlers = 1..h
  BY <1>3
<1>6. PICK route : route = [method |-> m, path |-> path]
  OBVIOUS
<1>7. /\ handlers' = Append(handlers, route)
      /\ DOMAIN handlers' = 1..(h + 1) /\ handlers'[h + 1] = route
      /\ \A g \in 1..h : handlers'[g] = handlers[g]
  BY <1>3, <1>5, <1>6 DEF AddPath
<1>8. PICK e : e = [path |-> q, parts |-> Parts(q), wildcard |-> IsWildcard(q),
                    methods |-> <<m>>, handlers |-> <<h + 1>>]
  OBVIOUS
<1>9. paths' = Inserted(e)
  BY <1>1, <1>5, <1>8 DEF AddPath
<1>10. Plain(q) /\ ~Starred(q)
  BY <1>1, StoredPlain
<1>11. /\ DOMAIN e = Columns /\ e.path = q /\ e.parts = Parts(q) /\ e.wildcard = IsWildcard(q)
       /\ e.methods = <<m>> /\ e.handlers = <<h + 1>>
  BY <1>8 DEF Columns
<1>12. Served(e)
  <2>1. /\ 1 \in Nat \ {0} /\ DOMAIN e.methods = 1..1 /\ DOMAIN e.handlers = 1..1
        /\ e.methods \in Seq(Methods) /\ e.handlers \in Seq(Nat)
    BY <1>11
  <2> QED
    BY <1>10, <1>11, <2>1 DEF Served
<1>13. Points(e)'
  <2>1. handlers'[h + 1].method = m /\ handlers'[h + 1].path = path
    BY <1>6, <1>7
  <2>2. DOMAIN e.methods = {1} /\ e.methods[1] = m /\ e.handlers[1] = h + 1
    BY <1>11
  <2>3. h + 1 \in DOMAIN handlers'
    BY <1>7
  <2> QED
    BY <1>1, <1>11, <2>1, <2>2, <2>3 DEF Points
<1>14. PICK k : k = 1 + Cardinality({i \in 1..l : ~Less(e.path, paths[i].path)})
  OBVIOUS
<1>15. k \in 1..(l + 1)
  <2>1. {i \in 1..l : ~Less(e.path, paths[i].path)} \in SUBSET (DOMAIN paths)
    BY <1>4
  <2>2. Cardinality({i \in 1..l : ~Less(e.path, paths[i].path)}) \in 0..Len(paths)
    BY <1>2, <2>1, CountOfElements
  <2> QED
    BY <1>4, <1>14, <2>2
<1>16. paths' = InsertAt(paths, k, e)
  BY <1>4, <1>9, <1>14 DEF Inserted
<1>17. PICK t : t = paths'
  OBVIOUS
<1>18. Vector' /\ Insertion(t, paths, l, k, e)
  <2>1. /\ \E T : InsertAt(paths, k, e) \in Seq(T)
        /\ Insertion(InsertAt(paths, k, e), paths, l, k, e)
    BY <1>2, <1>4, <1>15, InsertionLeaves
  <2> QED
    BY <1>16, <1>17, <2>1 DEF Vector
<1>19. Len(t) = l + 1 /\ DOMAIN t = 1..(l + 1)
  <2>1. DOMAIN t = 1..(l + 1)
    BY <1>18, Zenon DEF Insertion
  <2>2. PICK T : t \in Seq(T)
    BY <1>17, <1>18 DEF Vector
  <2> QED
    BY <2>1, <2>2
<1>20. /\ t[k] = e
       /\ \A j \in 1..(l + 1) : j < k => t[j] = paths[j]
       /\ \A j \in 1..(l + 1) : j > k => t[j] = paths[j - 1]
  BY <1>18, Zenon DEF Insertion
<1>21. Listed'
  <2>1. PICK T : T = H \cup {route}
    OBVIOUS
  <2>2. handlers \in Seq(T) /\ route \in T
    BY <1>3, <2>1
  <2>3. handlers' \in Seq(T)
    BY <1>7, <2>2
  <2> QED
    BY <2>3 DEF Listed
<1>22. ASSUME NEW i \in 1..l, NEW d, d = paths[i] PROVE Served(d) /\ Points(d)'
  <2>1. Served(d) /\ Points(d)
    BY <1>4, <1>22 DEF Kept
  <2>2. Points(d)'
    BY <1>3, <1>7, <2>1, PointsStay DEF Points
  <2> QED
    BY <2>1, <2>2
<1>23. ASSUME NEW j \in 1..(l + 1) PROVE Served(t[j]) /\ Points(t[j])'
  <2>1. CASE j = k
    BY <1>12, <1>13, <1>17, <1>20, <2>1
  <2>2. CASE j < k
    <3>1. j \in 1..l /\ t[j] = paths[j]
      BY <1>15, <1>20, <2>2
    <3> QED
      BY <1>22, <3>1
  <2>3. CASE j > k
    <3>1. j - 1 \in 1..l /\ t[j] = paths[j - 1]
      BY <1>15, <1>20, <2>3
    <3> QED
      BY <1>22, <3>1
  <2> QED
    BY <1>15, <2>1, <2>2, <2>3
<1>24. \A i \in 1..l : \E j \in 1..(l + 1) : t[j] = paths[i]
  <2> SUFFICES ASSUME NEW i \in 1..l PROVE \E j \in 1..(l + 1) : t[j] = paths[i]
    OBVIOUS
  <2>1. CASE i < k
    <3>1. i \in 1..(l + 1) /\ t[i] = paths[i]
      BY <1>20, <2>1
    <3> QED
      BY <3>1
  <2>2. CASE i >= k
    <3>1. i + 1 \in 1..(l + 1) /\ i + 1 > k /\ i + 1 - 1 = i
      BY <1>15, <2>2
    <3>2. t[i + 1] = paths[i]
      BY <1>20, <3>1
    <3> QED
      BY <3>1, <3>2
  <2> QED
    BY <1>15, <2>1, <2>2
<1>25. ASSUME NEW g \in 1..(h + 1) PROVE \E j \in 1..(l + 1) : t[j].path = Stored(handlers'[g].path)
  <2>1. CASE g \in 1..h
    <3>1. PICK i \in 1..l : paths[i].path = Stored(handlers[g].path)
      BY <1>4, <1>5, <2>1 DEF Kept
    <3>2. handlers'[g] = handlers[g]
      BY <1>7, <2>1
    <3> QED
      BY <1>24, <3>1, <3>2
  <2>2. CASE g = h + 1
    <3>1. handlers'[g].path = path
      BY <1>6, <1>7, <2>2
    <3>2. t[k].path = q
      BY <1>11, <1>20
    <3> QED
      BY <1>1, <1>15, <3>1, <3>2
  <2> QED
    BY <2>1, <2>2
<1>26. Sorted(t, l + 1)
  <2>1. Sorted(paths, l) /\ \A i \in 1..l : Plain(paths[i].path)
    BY <1>4 DEF Kept, Served
  <2>2. Plain(e.path)
    BY <1>10, <1>11
  <2> QED
    BY <1>4, <1>14, <1>18, <2>1, <2>2, SortedInsertion
<1> QED
  BY <1>7, <1>17, <1>18, <1>19, <1>21, <1>23, <1>25, <1>26 DEF Kept

(* Every call of add() keeps it. *)
LEMMA KeptNext == PlainRoutes /\ Kept /\ [Next]_vars => Kept'
<1> SUFFICES ASSUME PlainRoutes, Kept, [Next]_vars PROVE Kept'
  OBVIOUS
<1>1. CASE UNCHANGED vars
  BY <1>1 DEF vars, Kept, Vector, Listed, Served, Points, Sorted
<1>2. ASSUME NEW m \in Methods, NEW path \in RoutePaths, Add(m, path)
      PROVE  Kept'
  BY <1>2, KeptAddMethod, KeptAddPath DEF Add
<1> QED
  BY <1>1, <1>2 DEF Next

-----------------------------------------------------------------------------
(* A path that is not before a request is not before its lower bound either. *)
LEMMA NotBelow ==
  ASSUME Kept, NEW j \in DOMAIN paths,
         NEW request \in Seq(Names), ~Less(paths[j].path, request)
  PROVE  /\ LowerBound(request) \in Nat \ {0} /\ Len(paths) \in Nat
         /\ LowerBound(request) <= j /\ j <= Len(paths) /\ j \in Nat
<1>1. PICK S : paths \in Seq(S)
  BY DEF Kept, Vector
<1>2. PICK l \in Nat : l = Len(paths) /\ DOMAIN paths = 1..l
  BY <1>1
<1>3. PICK A : A = {i \in DOMAIN paths : Less(paths[i].path, request)}
  OBVIOUS
<1>4. \A i \in 1..l : paths[i].path \in Seq(Names)
  BY <1>2 DEF Kept, Served, Plain
<1>5. ASSUME NEW i \in A PROVE i \in 1..(j - 1)
  <2>1. i \in 1..l /\ j \in 1..l /\ Less(paths[i].path, request)
    BY <1>2, <1>3
  <2>2. i # j
    BY <2>1
  <2>3. ~(j < i)
    <3> SUFFICES ASSUME j < i PROVE FALSE
      OBVIOUS
    <3>1. ~Less(paths[i].path, paths[j].path)
      BY <1>2, <2>1 DEF Kept, Sorted
    <3>2. paths[i].path \in Seq(Names) /\ paths[j].path \in Seq(Names)
      BY <1>4, <2>1
    <3> QED
      BY <2>1, <3>1, <3>2, LessBetween
  <2> QED
    BY <2>1, <2>2, <2>3
<1>6. j \in Nat \ {0} /\ j <= l
  BY <1>2
<1>7. A \in SUBSET (1..(j - 1))
  BY <1>5
<1>8. Cardinality(A) \in Nat /\ 1 + Cardinality(A) <= j
  BY <1>6, <1>7, CountBelow
<1>9. LowerBound(request) = 1 + Cardinality(A)
  BY <1>3 DEF LowerBound
<1> QED
  BY <1>2, <1>6, <1>8, <1>9

(* The paths that fit a request are those of entries that match it, none before the
   lower bound.                                                                 *)
Fitting(request) == {j \in DOMAIN paths : Fits(paths[j].path, request)}
FittingPaths(request) ==
  {path \in {Stored(handlers[h].path) : h \in DOMAIN handlers} : Fits(path, request)}

(* The paths that fit are those the request is compared with and matches. *)
LEMMA FittingTried ==
  ASSUME Kept, NEW request \in Seq(Names), request # <<>>, Ordinary(request)
  PROVE  /\ Fitting(request) = {j \in Tried(request) : Comparison(paths[j], Parts(request)) # "differs"}
         /\ \A j \in Fitting(request) : Comparison(paths[j], Parts(request)) = "matches"
         /\ FittingPaths(request) = {paths[j].path : j \in Fitting(request)}
<1>1. Parts(request) = request
  BY OrdinaryParts
<1>2. PICK S : paths \in Seq(S)
  BY DEF Kept, Vector
<1>3. PICK l \in Nat : l = Len(paths) /\ DOMAIN paths = 1..l
  BY <1>2
<1>4. ASSUME NEW j \in 1..l
      PROVE  Comparison(paths[j], Parts(request))
               = IF Fits(paths[j].path, request) THEN "matches" ELSE "differs"
  <2>1. PICK e, q : e = paths[j] /\ q = e.path
    OBVIOUS
  <2>2. Plain(q) /\ e.path = q /\ e.parts = Parts(q) /\ e.wildcard = IsWildcard(q)
    BY <1>3, <2>1 DEF Kept, Served
  <2>3. Comparison(e, request) = IF Fits(q, request) THEN "matches" ELSE "differs"
    BY <2>2, ComparisonDecides
  <2> QED
    BY <1>1, <2>1, <2>3
<1>5. ASSUME NEW j \in 1..l, Fits(paths[j].path, request) PROVE j \in Tried(request)
  <2>1. PICK q : q = paths[j].path
    OBVIOUS
  <2>2. Plain(q)
    BY <1>3, <2>1 DEF Kept, Served
  <2>3. ~Less(q, request)
    BY <1>5, <2>1, <2>2, FitsNotBefore
  <2>4. LowerBound(request) \in Nat \ {0} /\ LowerBound(request) <= j /\ j <= l
    BY <1>3, <2>1, <2>3, NotBelow
  <2> QED
    BY <1>3, <2>4 DEF Tried
<1>6. \A j \in Tried(request) : j \in 1..l
  <2>1. LowerBound(request) \in Nat \ {0}
    <3>1. {i \in DOMAIN paths : Less(paths[i].path, request)} \in SUBSET (DOMAIN paths)
      OBVIOUS
    <3>2. Cardinality({i \in DOMAIN paths : Less(paths[i].path, request)}) \in 0..Len(paths)
      BY <1>2, <3>1, CountOfElements
    <3> QED
      BY <1>3, <3>2 DEF LowerBound
  <2> QED
    BY <1>3, <2>1 DEF Tried
<1>7. Fitting(request) = {j \in 1..l : Fits(paths[j].path, request)}
  BY <1>3 DEF Fitting
<1>8. Fitting(request) = {j \in Tried(request) : Comparison(paths[j], Parts(request)) # "differs"}
  BY <1>4, <1>5, <1>6, <1>7
<1>9. \A j \in Fitting(request) : Comparison(paths[j], Parts(request)) = "matches"
  BY <1>4, <1>7
<1>10. \A j \in 1..l : \E h \in DOMAIN handlers : Stored(handlers[h].path) = paths[j].path
  <2> SUFFICES ASSUME NEW j \in 1..l
               PROVE  \E h \in DOMAIN handlers : Stored(handlers[h].path) = paths[j].path
    OBVIOUS
  <2>1. PICK e : e = paths[j]
    OBVIOUS
  <2>2. Served(e) /\ Points(e)
    BY <1>3, <2>1 DEF Kept
  <2>3. PICK n \in Nat \ {0} : DOMAIN e.methods = 1..n
    BY <2>2 DEF Served
  <2>4. 1 \in DOMAIN e.methods
    BY <2>3
  <2>5. e.handlers[1] \in DOMAIN handlers /\ Stored(handlers[e.handlers[1]].path) = e.path
    BY <2>2, <2>4 DEF Points
  <2> QED
    BY <2>1, <2>5
<1>11. \A h \in DOMAIN handlers : \E j \in 1..l : paths[j].path = Stored(handlers[h].path)
  BY <1>3 DEF Kept
<1>12. FittingPaths(request) = {paths[j].path : j \in Fitting(request)}
  <2>1. ASSUME NEW p \in FittingPaths(request) PROVE \E j \in Fitting(request) : p = paths[j].path
    <3>1. PICK h \in DOMAIN handlers : p = Stored(handlers[h].path)
      BY DEF FittingPaths
    <3>2. Fits(p, request)
      BY DEF FittingPaths
    <3>3. PICK j \in 1..l : paths[j].path = p
      BY <1>11, <3>1
    <3> QED
      BY <1>7, <3>2, <3>3
  <2>2. ASSUME NEW j \in Fitting(request) PROVE paths[j].path \in FittingPaths(request)
    <3>1. j \in 1..l /\ Fits(paths[j].path, request)
      BY <1>7
    <3>2. PICK h \in DOMAIN handlers : Stored(handlers[h].path) = paths[j].path
      BY <1>10, <3>1
    <3> QED
      BY <3>1, <3>2 DEF FittingPaths
  <2> QED
    BY <2>1, <2>2
<1> QED
  BY <1>8, <1>9, <1>12

(* The answer of an entry that fits, none of those that fit outranking it. *)
Right(told, m, request, fit) ==
  CASE told.kind = "handled" ->
         LET route == handlers[told.handler]
         IN /\ route.method = m /\ Stored(route.path) \in fit
            /\ \A p \in fit : ~Outranks(p, Stored(route.path))
            /\ Exact(request) \/ ParamsOf(Stored(route.path), request, told.params)
    [] told.kind = "notFound" -> fit = {}
    [] told.kind = "methodNotAllowed" -> fit # {}
    [] told.kind = "nullopt" -> fit = {} \/ "methodNotAllowed" \notin errors

(* An entry that fits, and that none outranks, gives the right answer. *)
LEMMA HandledRight ==
  ASSUME NEW m, NEW request, NEW fit, NEW e, Served(e), Points(e), e.path \in fit,
         \A p \in fit : ~Outranks(p, e.path),
         NEW params, Exact(request) \/ ParamsOf(e.path, request, params)
  PROVE  Right(Handled(e, m, params), m, request, fit)
<1>1. PICK I : I = {j \in DOMAIN e.methods : e.methods[j] = m}
  OBVIOUS
<1>2. CASE I = {}
  <2>1. PICK told : told = Handled(e, m, params)
    OBVIOUS
  <2>2. told = Error("methodNotAllowed")
    BY <1>1, <1>2, <2>1 DEF Handled
  <2>3. \/ told.kind = "methodNotAllowed"
        \/ told.kind = "nullopt" /\ "methodNotAllowed" \notin errors
    BY <2>2 DEF Error, None, Answer
  <2>4. fit # {}
    OBVIOUS
  <2> QED
    BY <2>1, <2>3, <2>4 DEF Right
<1>3. CASE I # {}
  <2>1. PICK j : j = CHOOSE i \in I : TRUE
    OBVIOUS
  <2>2. j \in I
    BY <1>3, <2>1
  <2>3. PICK told : told = Answer("handled", e.handlers[j], params)
    OBVIOUS
  <2>4. Handled(e, m, params) = told
    BY <1>1, <1>3, <2>1, <2>3 DEF Handled
  <2>5. told.kind = "handled" /\ told.handler = e.handlers[j] /\ told.params = params
    BY <2>3 DEF Answer
  <2>6. j \in DOMAIN e.methods /\ e.methods[j] = m
    BY <1>1, <2>2
  <2>7. handlers[told.handler].method = m /\ Stored(handlers[told.handler].path) = e.path
    BY <2>5, <2>6 DEF Points
  <2>8. PICK route : route = handlers[told.handler]
    OBVIOUS
  <2>9. /\ route.method = m /\ Stored(route.path) \in fit
        /\ \A p \in fit : ~Outranks(p, Stored(route.path))
        /\ Exact(request) \/ ParamsOf(Stored(route.path), request, told.params)
    BY <2>5, <2>7, <2>8
  <2>10. Right(told, m, request, fit)
    BY <2>5, <2>8, <2>9 DEF Right
  <2> QED
    BY <2>4, <2>10
<1> QED
  BY <1>2, <1>3

(* The answer to a request is that of the first path, in the order of the paths,
   that fits it, and no other that fits outranks the first.                     *)
LEMMA RoutedRight ==
  ASSUME Kept, NEW m, NEW request \in Seq(Names), request # <<>>, Ordinary(request)
  PROVE  Right(Routed(m, request), m, request, FittingPaths(request))
<1>1. PICK S : paths \in Seq(S)
  BY DEF Kept, Vector
<1>2. PICK l \in Nat : l = Len(paths) /\ DOMAIN paths = 1..l
  BY <1>1
<1>3. PICK F, fit : F = Fitting(request) /\ fit = FittingPaths(request)
  OBVIOUS
<1>4. /\ F = {j \in Tried(request) : Comparison(paths[j], Parts(request)) # "differs"}
      /\ \A j \in F : Comparison(paths[j], Parts(request)) = "matches"
      /\ fit = {paths[j].path : j \in F}
  BY <1>3, FittingTried
<1>5. F \in SUBSET (1..l)
  BY <1>2, <1>3 DEF Fitting
<1>6. PICK b \in Nat : b = LowerBound(request)
  BY LowerBoundTyped DEF Kept
<1>7. PICK i : i = Found(request)
  OBVIOUS
<1>8. PICK told : told = Routed(m, request)
  OBVIOUS
<1>9. ~Exact(request) => i = IF F = {} THEN 0 ELSE CHOOSE j \in F : \A k \in F : j <= k
  BY <1>4, <1>7 DEF Found
<1>10. Exact(request) => i = b /\ b \in 1..l /\ paths[i].path = request
  BY <1>2, <1>6, <1>7 DEF Found, Exact
<1>11. F # {} /\ ~Exact(request) => i \in F /\ \A k \in F : i <= k
  <2>1. F # {} => \E j \in F : \A k \in F : j <= k
    <3>1. F \in SUBSET Nat
      BY <1>5
    <3> QED
      BY <3>1, LeastNumber
  <2> QED
    BY <1>9, <2>1
<1>12. b > l => F = {}
  BY <1>2, <1>4, <1>6 DEF Tried
<1>13. CASE b > l
  <2>0. i = 0
    <3>1. ~Exact(request)
      BY <1>10, <1>13
    <3> QED
      BY <1>9, <1>12, <1>13, <3>1
  <2>1. told = None
    BY <1>2, <1>6, <1>7, <1>8, <1>13, <2>0 DEF Routed
  <2>2. fit = {}
    BY <1>4, <1>12, <1>13
  <2>3. told.kind = "nullopt"
    BY <2>1 DEF None, Answer
  <2> QED
    BY <1>3, <1>8, <2>2, <2>3 DEF Right
<1>14. CASE b <= l /\ i = 0
  <2>1. told = Error("notFound")
    BY <1>2, <1>6, <1>7, <1>8, <1>14 DEF Routed
  <2>2. ~Exact(request)
    BY <1>10, <1>14
  <2>3. F = {}
    BY <1>5, <1>11, <1>14, <2>2
  <2>4. fit = {}
    BY <1>4, <2>3
  <2>5. told.kind = "notFound" \/ told.kind = "nullopt"
    BY <2>1 DEF Error, None, Answer
  <2> QED
    BY <1>3, <1>8, <2>4, <2>5 DEF Right
<1>15. CASE b <= l /\ i # 0 /\ Exact(request)
  <2>1. PICK e : e = paths[i]
    OBVIOUS
  <2>2. told = Handled(e, m, <<>>)
    BY <1>2, <1>6, <1>7, <1>8, <1>15, <2>1 DEF Routed
  <2>3. i \in 1..l /\ e.path = request
    BY <1>10, <1>15, <2>1
  <2>4. Served(e) /\ Points(e)
    BY <1>2, <2>1, <2>3 DEF Kept
  <2>5. Fits(request, request)
    BY OrdinaryParts DEF Fits
  <2>6. e.path \in fit
    BY <1>2, <1>3, <1>4, <2>1, <2>3, <2>5 DEF Fitting
  <2>7. ASSUME NEW p \in fit PROVE ~Outranks(p, e.path)
    <3> SUFFICES ASSUME Outranks(p, request) PROVE FALSE
      BY <2>3
    <3>1. PICK n \in DOMAIN Parts(request) : Kind(Parts(p)[n]) < Kind(Parts(request)[n])
      BY DEF Outranks
    <3>2. Parts(request)[n] \in {"a", "b"}
      BY <3>1, OrdinaryParts
    <3>3. Kind(Parts(request)[n]) = 1
      BY <3>2 DEF Kind, Parameters
    <3>4. Kind(Parts(p)[n]) \in 1..3
      BY DEF Kind
    <3> QED
      BY <3>1, <3>3, <3>4
  <2>8. Right(told, m, request, fit)
    BY <1>15, <2>2, <2>4, <2>6, <2>7, HandledRight
  <2> QED
    BY <1>3, <1>8, <2>8
<1>16. CASE b <= l /\ i # 0 /\ ~Exact(request)
  <2>1. PICK e, q : e = paths[i] /\ q = e.path
    OBVIOUS
  <2>2. F # {} /\ i \in F /\ \A k \in F : i <= k
    BY <1>9, <1>11, <1>16
  <2>3. PICK params : params = Params(e, request)
    OBVIOUS
  <2>4. told = Handled(e, m, params)
    <3>1. Comparison(paths[i], Parts(request)) # "undefined"
      BY <1>4, <2>2
    <3> QED
      BY <1>2, <1>6, <1>7, <1>8, <1>16, <2>1, <2>3, <3>1 DEF Routed
  <2>5. i \in 1..l
    BY <1>5, <2>2
  <2>6. Served(e) /\ Points(e)
    BY <1>2, <2>1, <2>5 DEF Kept
  <2>7. q \in fit /\ Fits(q, request)
    BY <1>3, <1>4, <2>1, <2>2 DEF Fitting
  <2>8. Plain(q) /\ e.parts = Parts(q) /\ e.wildcard = IsWildcard(q)
    BY <2>1, <2>6 DEF Served
  <2>9. ASSUME NEW p \in fit PROVE ~Outranks(p, q)
    <3> SUFFICES ASSUME Outranks(p, q) PROVE FALSE
      OBVIOUS
    <3>1. PICK j \in F : p = paths[j].path
      BY <1>4
    <3>2. j \in 1..l /\ i <= j /\ Fits(p, request)
      BY <1>3, <1>5, <2>2, <3>1 DEF Fitting
    <3>3. Plain(p)
      BY <1>2, <3>1, <3>2 DEF Kept, Served
    <3>4. Less(p, q)
      BY <2>7, <2>8, <3>2, <3>3, OutranksBefore
    <3>5. p \in Seq(Names) /\ q \in Seq(Names)
      BY <2>8, <3>3 DEF Plain
    <3>6. ~Less(q, p)
      BY <3>4, <3>5, LessAsymmetric
    <3>7. CASE i = j
      BY <2>1, <3>1, <3>4, <3>6, <3>7
    <3>8. CASE i < j
      BY <1>2, <2>1, <2>5, <3>1, <3>2, <3>4, <3>8 DEF Kept, Sorted
    <3> QED
      BY <2>5, <3>2, <3>7, <3>8
  <2>10. ParamsOf(q, request, params)
    BY <2>1, <2>3, <2>8, ParamsMatch
  <2>11. Right(told, m, request, fit)
    BY <2>1, <2>4, <2>6, <2>7, <2>9, <2>10, HandledRight
  <2> QED
    BY <1>3, <1>8, <2>11
<1> QED
  BY <1>2, <1>6, <1>13, <1>14, <1>15, <1>16

(* Whatever was added and in which order, the most specific of the routes that fit
   a request answers it, for every set of plain routes.                         *)
THEOREM RoutesHold ==
  ASSUME PlainRoutes
  PROVE  Spec => []MostSpecific
<1>1. Init => Kept
  BY KeptInit
<1>2. Kept /\ [Next]_vars => Kept'
  BY KeptNext
<1>3. Kept => MostSpecific
  <2> SUFFICES ASSUME Kept, NEW m \in Methods, NEW request \in RequestPaths, Ordinary(request)
               PROVE  Right(Route(m, request, FALSE), m, request, FittingPaths(request))
    BY DEF MostSpecific, Right, FittingPaths
  <2>1. request \in Seq(Names) /\ request # <<>>
    BY PathsAssumption DEF Names
  <2>2. Route(m, request, FALSE) = Routed(m, request)
    BY DEF Route
  <2> QED
    BY <2>1, <2>2, RoutedRight
<1> QED
  BY <1>1, <1>2, <1>3, PTL DEF Spec

-----------------------------------------------------------------------------
(* canRoute() beside route().  split() goes from segment to segment. *)
Longer(parts, segment) == IF segment = "" THEN parts ELSE Append(parts, segment)

(* There is such a function for any path, by the least number of segments that had
   none.                                                                         *)
LEMMA SplitsExists ==
  ASSUME NEW n \in Nat, NEW path
  PROVE  \E upTo : Splits(upTo, path, n)
<1> DEFINE To(m, f) == /\ f = [i \in 0..n |-> f[i]]
                       /\ f[0] = <<>>
                       /\ \A i \in 1..n : i <= m => f[i] = Longer(f[i - 1], path[i])
<1>1. PICK T : T = {m \in Nat : m <= n /\ ~\E f : To(m, f)}
  OBVIOUS
<1>2. T = {}
  <2> SUFFICES ASSUME T # {} PROVE FALSE
    OBVIOUS
  <2>1. PICK m \in T : \A k \in T : m <= k
    <3>1. T \in SUBSET Nat
      BY <1>1
    <3> QED
      BY <3>1, LeastNumber
  <2>2. m \in Nat /\ m <= n /\ ~\E f : To(m, f)
    BY <1>1
  <2>3. m # 0
    <3>1. PICK f : f = [i \in 0..n |-> <<>>]
      OBVIOUS
    <3>2. f = [i \in 0..n |-> f[i]] /\ f[0] = <<>>
      BY <3>1
    <3>3. \A i \in 1..n : ~(i <= 0)
      OBVIOUS
    <3>4. To(0, f)
      BY <3>2, <3>3, Zenon
    <3> QED
      BY <2>2, <3>4
  <2>4. PICK p \in Nat : p = m - 1 /\ ~(m <= p) /\ p <= n
    BY <2>2, <2>3
  <2>5. PICK f : To(p, f)
    BY <2>1, <2>4, <1>1
  <2>6. PICK new : new = Longer(f[p], path[m])
    OBVIOUS
  <2>7. PICK g : g = [i \in 0..n |-> IF i = m THEN new ELSE f[i]]
    OBVIOUS
  <2>8. m \in 1..n /\ g[m] = new /\ \A i \in 0..n : i # m => g[i] = f[i]
    BY <2>2, <2>3, <2>7
  <2>9. g = [i \in 0..n |-> g[i]]
    BY <2>7
  <2>10. ASSUME NEW i \in 1..n, i <= m
         PROVE  g[i] = Longer(g[i - 1], path[i])
    <3>1. i \in 0..n /\ i - 1 \in 0..n /\ i - 1 # m
      BY <2>2, <2>10
    <3>2. g[i - 1] = f[i - 1]
      BY <2>8, <3>1
    <3>3. CASE i = m
      BY <2>4, <2>6, <2>8, <3>2, <3>3
    <3>4. CASE i # m
      <4>1. i <= p
        BY <2>2, <2>4, <2>10, <3>4
      <4>2. f[i] = Longer(f[i - 1], path[i])
        BY <2>5, <4>1
      <4> QED
        BY <2>8, <3>1, <3>2, <3>4, <4>2
    <3> QED
      BY <3>3, <3>4
  <2>11. g[0] = <<>>
    <3>1. 0 \in 0..n /\ 0 # m
      BY <2>3
    <3> QED
      BY <2>5, <2>8, <3>1
  <2>12. To(m, g)
    BY <2>9, <2>10, <2>11
  <2> QED
    BY <2>2, <2>12
<1>3. PICK f : To(n, f)
  <2>1. n \notin T
    BY <1>2
  <2> QED
    BY <1>1, <2>1
<1>4. PICK g : g = [i \in 0..n |-> IF i = 0 THEN <<>> ELSE Longer(f[i - 1], path[i])]
  OBVIOUS
<1>5. \A i \in 0..n : f[i] = g[i]
  <2> SUFFICES ASSUME NEW i \in 0..n PROVE f[i] = g[i]
    OBVIOUS
  <2>1. g[i] = IF i = 0 THEN <<>> ELSE Longer(f[i - 1], path[i])
    BY <1>4
  <2>2. CASE i = 0
    BY <1>3, <2>1, <2>2
  <2>3. CASE i # 0
    <3>1. i \in 1..n /\ i <= n
      BY <2>3
    <3> QED
      BY <1>3, <2>1, <2>3, <3>1
  <2> QED
    BY <2>2, <2>3
<1>6. f = [i \in 0..n |-> f[i]] /\ g = [i \in 0..n |-> g[i]]
  BY <1>3, <1>4
<1>7. f = g
  BY <1>5, <1>6
<1>8. Splits(f, path, n)
  BY <1>4, <1>7, Zenon DEF Splits, Longer
<1> QED
  BY <1>8

(* The parts of any path are a sequence of its segments. *)
LEMMA PartsTyped ==
  ASSUME NEW S, NEW path \in Seq(S)
  PROVE  Parts(path) \in Seq(S)
<1>1. PICK n \in Nat : n = Len(path) /\ \A i \in 1..n : path[i] \in S
  OBVIOUS
<1>2. PICK f : f = CHOOSE g : Splits(g, path, n)
  OBVIOUS
<1>3. Splits(f, path, n)
  BY <1>2, SplitsExists, Zenon
<1>4. Parts(path) = f[n]
  <2>1. Parts(path) = (CHOOSE g : g = [i \in 0..Len(path) |->
                         IF i = 0 THEN <<>>
                         ELSE IF path[i] = "" THEN g[i - 1] ELSE Append(g[i - 1], path[i])])[Len(path)]
    BY Zenon DEF Parts
  <2> QED
    BY <1>1, <1>2, <2>1, Zenon DEF Splits
<1>5. \A i \in 0..n : f[i] \in Seq(S)
  <2>1. PICK T : T = {i \in 0..n : f[i] \notin Seq(S)}
    OBVIOUS
  <2> SUFFICES ASSUME T # {} PROVE FALSE
    BY <2>1
  <2>2. PICK m \in T : \A i \in T : m <= i
    <3>1. T \in SUBSET Nat
      BY <2>1
    <3> QED
      BY <3>1, LeastNumber
  <2>3. m \in 0..n /\ f[m] \notin Seq(S)
    BY <2>1
  <2>4. f[m] = IF m = 0 THEN <<>> ELSE IF path[m] = "" THEN f[m - 1] ELSE Append(f[m - 1], path[m])
    BY <1>3, <2>3 DEF Splits
  <2>5. m # 0
    <3>1. <<>> \in Seq(S)
      OBVIOUS
    <3> QED
      BY <2>3, <2>4, <3>1
  <2>6. m \in 1..n /\ m - 1 \in 0..n /\ ~(m <= m - 1)
    BY <2>3, <2>5
  <2>7. f[m - 1] \in Seq(S)
    BY <2>1, <2>2, <2>6
  <2>8. path[m] \in S
    BY <1>1, <2>6
  <2>9. Append(f[m - 1], path[m]) \in Seq(S)
    BY <2>7, <2>8
  <2> QED
    BY <2>3, <2>4, <2>5, <2>7, <2>9
<1>6. n \in 0..n
  OBVIOUS
<1> QED
  BY <1>4, <1>5, <1>6

(* The first of the segments at which a loop is left, and whether there is one. *)
LEMMA LeastOf ==
  ASSUME NEW A \in SUBSET Nat
  PROVE  /\ Min(A) = CHOOSE i \in A : \A j \in A : i <= j
         /\ A # {} => Min(A) \in A /\ \A j \in A : Min(A) <= j
<1>1. Min(A) = CHOOSE i \in A : \A j \in A : i <= j
  BY Zenon DEF Min
<1>2. A # {} => \E i \in A : \A j \in A : i <= j
  BY LeastNumber
<1> QED
  BY <1>1, <1>2

(* The three outcomes of a turn, and what canRoute()'s loop calls them. *)
Decided(comparison, turn) ==
  \/ comparison = "matches" /\ turn = "reached"
  \/ comparison = "undefined" /\ turn = "undefined"
  \/ comparison = "differs" /\ turn = "next"

(* One turn of canRoute()'s loop decides of a path what one of route()'s does. *)
LEMMA TurnDecides ==
  ASSUME NEW S, NEW entry, NEW route \in Seq(S), entry.parts = route,
         entry.wildcard = ("~" \in Range(route)), NEW parts \in Seq(S)
  PROVE  Decided(Comparison(entry, parts), Turn(entry, parts))
<1>1. PICK k \in Nat : k = Len(route) /\ DOMAIN route = 1..k
  OBVIOUS
<1>2. PICK n \in Nat : n = Len(parts) /\ DOMAIN parts = 1..n
  OBVIOUS
<1>3. PICK stops : stops = {i \in 1..n : i > k \/ (parts[i] # route[i] /\ route[i] \notin Parameters)}
  OBVIOUS
<1>4. PICK left : left = {i \in 1..n : \/ i > k \/ i = n
                                       \/ parts[i] # route[i] /\ route[i] \notin Parameters}
  OBVIOUS
<1>5. stops \in SUBSET Nat /\ left \in SUBSET Nat
  BY <1>3, <1>4
<1>6. PICK d, i : d = Decider(route, parts) /\ i = Min(left)
  OBVIOUS
<1>7. d = IF stops = {} THEN 0 ELSE CHOOSE j \in stops : \A l \in stops : j <= l
  BY <1>1, <1>2, <1>3, <1>6 DEF Decider
<1>8. stops # {} => d \in stops /\ \A j \in stops : d <= j
  BY <1>5, <1>7, LeastNumber
<1>9. n # 0 => i \in left /\ \A j \in left : i <= j
  <2>1. n # 0 => n \in left
    BY <1>4
  <2> QED
    BY <1>5, <1>6, <2>1, LeastOf
<1>10. "~" \notin Parameters
  BY DEF Parameters
<1> DEFINE passed == n # k /\ (~entry.wildcard \/ n < k)
           over == n > k /\ WildcardNext(route, parts)
           ends == i <= k /\ (route[i] \in Parameters \cup {parts[i]} \/ (route[i] = "~" /\ entry.wildcard))
<1>11. Turn(entry, parts) =
         CASE n = 0 \/ n < k \/ (n > k /\ ~entry.wildcard) -> "next"
           [] ~(n = 0 \/ n < k \/ (n > k /\ ~entry.wildcard)) /\ (over \/ ends) -> "reached"
           [] ~(n = 0 \/ n < k \/ (n > k /\ ~entry.wildcard)) /\ ~(over \/ ends) ->
                IF i > k THEN "undefined" ELSE "next"
  <2>1. parts = <<>> <=> n = 0
    BY <1>2
  <2>2. Left(route, parts) = left
    BY <1>1, <1>2, <1>4 DEF Left
  <2> QED
    BY <1>1, <1>2, <1>6, <2>1, <2>2 DEF Turn
<1>12. Comparison(entry, parts) =
         CASE passed -> "differs"
           [] OTHER -> CASE d = 0 -> IF n = 0 THEN "differs" ELSE "matches"
                         [] d > k -> "undefined"
                         [] d <= k /\ d # 0 -> IF route[d] = "~" THEN "matches" ELSE "differs"
  <2>1. parts = <<>> <=> n = 0
    BY <1>2
  <2> QED
    BY <1>1, <1>2, <1>6, <2>1 DEF Comparison
<1>13. CASE n = 0
  <2>1. stops = {} /\ d = 0
    BY <1>3, <1>7, <1>13
  <2>2. Comparison(entry, parts) = "differs"
    BY <1>12, <1>13, <2>1
  <2>3. Turn(entry, parts) = "next"
    BY <1>11, <1>13
  <2> QED
    BY <2>2, <2>3 DEF Decided
<1>14. CASE n # 0 /\ passed
  <2>1. Comparison(entry, parts) = "differs"
    BY <1>12, <1>14
  <2>2. n < k \/ (n > k /\ ~entry.wildcard)
    BY <1>14
  <2>3. Turn(entry, parts) = "next"
    BY <1>11, <2>2
  <2> QED
    BY <2>1, <2>3 DEF Decided
<1>15. CASE n # 0 /\ ~passed
  <2>1. ~(n = 0 \/ n < k \/ (n > k /\ ~entry.wildcard)) /\ k <= n
    BY <1>15
  <2>2. i \in 1..n /\ \A j \in left : i <= j
    BY <1>4, <1>9, <1>15
  <2>3. CASE stops = {}
    <3>1. Comparison(entry, parts) = "matches"
      BY <1>7, <1>12, <1>15, <2>3
    <3>2. i \in left /\ i \notin stops
      BY <1>9, <1>15, <2>3
    <3>3. i <= k /\ route[i] \in Parameters \cup {parts[i]}
      BY <1>1, <1>3, <2>2, <3>2
    <3>4. Turn(entry, parts) = "reached"
      BY <1>11, <2>1, <3>3
    <3> QED
      BY <3>1, <3>4 DEF Decided
  <2>4. CASE stops # {}
    <3>1. d \in 1..n /\ d # 0 /\ (d > k \/ (parts[d] # route[d] /\ route[d] \notin Parameters))
      BY <1>3, <1>8, <2>4
    <3>2. i = d
      <4>1. d \in left
        BY <1>4, <3>1
      <4>2. i <= d
        BY <2>2, <4>1
      <4>3. i \in stops \/ i = n
        BY <1>3, <1>4, <1>9, <1>15
      <4>4. d <= i
        BY <1>8, <2>4, <3>1, <4>3
      <4> QED
        BY <2>2, <3>1, <4>2, <4>4
    <3>3. over => d <= k /\ route[d] = "~"
      <4> SUFFICES ASSUME over PROVE d <= k /\ route[d] = "~"
        OBVIOUS
      <4>1. PICK w \in 1..k : /\ route[w] = "~" /\ parts[w] # "~"
                              /\ \A j \in 1..(w - 1) : route[j] = parts[j]
        BY <1>1 DEF WildcardNext
      <4>2. w \in stops
        BY <1>3, <1>10, <2>1, <4>1
      <4>3. d <= w
        BY <1>8, <4>2
      <4>4. ~(d \in 1..(w - 1))
        BY <3>1, <4>1
      <4>5. d = w
        BY <3>1, <4>1, <4>3, <4>4
      <4> QED
        BY <4>1, <4>5
    <3>4. CASE d > k
      <4>1. Comparison(entry, parts) = "undefined"
        BY <1>12, <1>15, <3>1, <3>4
      <4>2. ~over /\ ~ends
        BY <3>1, <3>2, <3>3, <3>4
      <4>3. Turn(entry, parts) = "undefined"
        BY <1>11, <2>1, <3>2, <3>4, <4>2
      <4> QED
        BY <4>1, <4>3 DEF Decided
    <3>5. CASE d <= k /\ route[d] = "~"
      <4>1. Comparison(entry, parts) = "matches"
        BY <1>12, <1>15, <3>1, <3>5
      <4>2. d \in DOMAIN route
        BY <1>1, <3>1, <3>5
      <4>3. entry.wildcard
        BY <3>5, <4>2 DEF Range
      <4>4. Turn(entry, parts) = "reached"
        BY <1>11, <2>1, <3>2, <3>5, <4>3
      <4> QED
        BY <4>1, <4>4 DEF Decided
    <3>6. CASE d <= k /\ route[d] # "~"
      <4>1. Comparison(entry, parts) = "differs"
        BY <1>12, <1>15, <3>1, <3>6
      <4>2. ~(d > k) /\ route[d] \notin Parameters \cup {parts[d]}
        BY <3>1, <3>6
      <4>3. ~over /\ ~ends
        BY <3>2, <3>3, <3>6, <4>2
      <4>4. Turn(entry, parts) = "next"
        BY <1>11, <2>1, <3>2, <4>2, <4>3
      <4> QED
        BY <4>1, <4>4 DEF Decided
    <3> QED
      BY <3>1, <3>4, <3>5, <3>6
  <2> QED
    BY <2>3, <2>4
<1> HIDE DEF passed
<1> QED
  BY <1>13, <1>14, <1>15

(* What add() stores of a path: its parts, and whether one is the wildcard. *)
Parted(entry) ==
  /\ DOMAIN entry = Columns
  /\ \E q \in Seq(Names) : entry.parts = Parts(q) /\ entry.wildcard = IsWildcard(q)
AllParted == Vector /\ \A i \in DOMAIN paths : Parted(paths[i])

(* It holds of a router without routes. *)
LEMMA PartedInit == Init => AllParted
<1> SUFFICES ASSUME Init PROVE AllParted
  OBVIOUS
<1>1. DOMAIN paths = {}
  BY DEF Init
<1> QED
  BY <1>1, VectorInit DEF AllParted

(* A path that is stored is made of segments too. *)
LEMMA StoredTyped ==
  ASSUME NEW path \in RoutePaths
  PROVE  Stored(path) \in Seq(Names)
<1>1. path \in Seq(Names) /\ path # <<>>
  BY PathsAssumption DEF Names
<1>2. PICK n \in Nat \ {0} : n = Len(path) /\ DOMAIN path = 1..n /\ \A i \in 1..n : path[i] \in Names
  BY <1>1, EmptySeq
<1>3. CASE ~Starred(path)
  BY <1>1, <1>3 DEF Stored
<1>4. CASE Starred(path)
  <2>1. PICK q : q = [path EXCEPT ![n] = "~"]
    OBVIOUS
  <2>2. q = [i \in 1..n |-> q[i]] /\ \A i \in 1..n : q[i] = IF i = n THEN "~" ELSE path[i]
    BY <1>2, <2>1
  <2>3. "~" \in Names
    BY SegmentRanks
  <2>4. \A i \in 1..n : q[i] \in Names
    BY <1>2, <2>2, <2>3
  <2>5. q \in [1..n -> Names]
    BY <2>2, <2>4
  <2>6. q \in Seq(Names)
    BY <2>5
  <2> QED
    BY <1>2, <1>4, <2>1, <2>6 DEF Stored
<1> QED
  BY <1>3, <1>4

(* A method that joins an entry leaves its parts as they are. *)
LEMMA PartedAddMethod ==
  ASSUME AllParted, NEW m \in Methods, NEW path \in RoutePaths, AddMethod(m, path)
  PROVE  \A j \in DOMAIN paths' : Parted(paths'[j])
<1>1. PICK i : /\ i \in DOMAIN paths
               /\ paths' = [paths EXCEPT ![i].methods = Append(@, m),
                                         ![i].handlers = Append(@, Len(handlers) + 1)]
  BY DEF AddMethod
<1>2. PICK e, f, h : e = paths[i] /\ f = paths' /\ h = Len(handlers) + 1
  OBVIOUS
<1>3. PICK g : g = [e EXCEPT !.methods = Append(@, m), !.handlers = Append(@, h)]
  OBVIOUS
<1>4. DOMAIN f = DOMAIN paths /\ f[i] = g /\ \A j \in DOMAIN paths : j # i => f[j] = paths[j]
  BY <1>1, <1>2, <1>3
<1>5. Parted(e)
  BY <1>1, <1>2 DEF AllParted
<1>6. DOMAIN g = Columns /\ g.parts = e.parts /\ g.wildcard = e.wildcard
  <2>1. DOMAIN e = Columns
    BY <1>5 DEF Parted
  <2> QED
    BY <1>3, <2>1 DEF Columns
<1>7. Parted(g)
  BY <1>5, <1>6, Zenon DEF Parted
<1> QED
  BY <1>2, <1>4, <1>7 DEF AllParted

(* An entry that is inserted has the parts of its path. *)
LEMMA PartedAddPath ==
  ASSUME AllParted, NEW m \in Methods, NEW path \in RoutePaths, AddPath(m, path)
  PROVE  \A j \in DOMAIN paths' : Parted(paths'[j])
<1>1. PICK q : q = Stored(path)
  OBVIOUS
<1>2. PICK S : paths \in Seq(S)
  BY DEF AllParted, Vector
<1>3. PICK l \in Nat : l = Len(paths) /\ DOMAIN paths = 1..l
  BY <1>2
<1>4. PICK h : h = Len(handlers) + 1
  OBVIOUS
<1>5. PICK e : e = [path |-> q, parts |-> Parts(q), wildcard |-> IsWildcard(q),
                    methods |-> <<m>>, handlers |-> <<h>>]
  OBVIOUS
<1>6. paths' = Inserted(e)
  BY <1>1, <1>4, <1>5 DEF AddPath
<1>7. Parted(e)
  <2>1. DOMAIN e = Columns /\ e.parts = Parts(q) /\ e.wildcard = IsWildcard(q)
    BY <1>5 DEF Columns
  <2>2. q \in Seq(Names)
    BY <1>1, StoredTyped
  <2> QED
    BY <2>1, <2>2 DEF Parted
<1>8. PICK k : k = 1 + Cardinality({i \in 1..l : ~Less(e.path, paths[i].path)})
  OBVIOUS
<1>9. k \in 1..(l + 1)
  <2>1. {i \in 1..l : ~Less(e.path, paths[i].path)} \in SUBSET (DOMAIN paths)
    BY <1>3
  <2>2. Cardinality({i \in 1..l : ~Less(e.path, paths[i].path)}) \in 0..Len(paths)
    BY <1>2, <2>1, CountOfElements
  <2> QED
    BY <1>3, <1>8, <2>2
<1>10. PICK t : t = paths'
  OBVIOUS
<1>11. Insertion(t, paths, l, k, e)
  <2>1. t = InsertAt(paths, k, e)
    BY <1>3, <1>6, <1>8, <1>10 DEF Inserted
  <2> QED
    BY <1>2, <1>3, <1>9, <2>1, InsertionLeaves
<1>12. /\ DOMAIN t = 1..(l + 1) /\ t[k] = e
       /\ \A j \in 1..(l + 1) : j < k => t[j] = paths[j]
       /\ \A j \in 1..(l + 1) : j > k => t[j] = paths[j - 1]
  BY <1>11, Zenon DEF Insertion
<1>13. ASSUME NEW j \in 1..(l + 1) PROVE Parted(t[j])
  <2>1. \A i \in 1..l : Parted(paths[i])
    BY <1>3 DEF AllParted
  <2>2. CASE j = k
    BY <1>7, <1>12, <2>2
  <2>3. CASE j < k
    <3>1. j \in 1..l /\ t[j] = paths[j]
      BY <1>9, <1>12, <2>3
    <3> QED
      BY <2>1, <3>1
  <2>4. CASE j > k
    <3>1. j - 1 \in 1..l /\ t[j] = paths[j - 1]
      BY <1>9, <1>12, <2>4
    <3> QED
      BY <2>1, <3>1
  <2> QED
    BY <1>9, <2>2, <2>3, <2>4
<1> QED
  BY <1>10, <1>12, <1>13

(* Every call of add() keeps it. *)
LEMMA PartedNext == AllParted /\ [Next]_vars => AllParted'
<1> SUFFICES ASSUME AllParted, [Next]_vars PROVE AllParted'
  OBVIOUS
<1>1. Vector'
  BY VectorNext DEF AllParted
<1>2. CASE UNCHANGED vars
  BY <1>1, <1>2 DEF vars, AllParted, Parted
<1>3. ASSUME NEW m \in Methods, NEW path \in RoutePaths, Add(m, path)
      PROVE  AllParted'
  <2>1. \A j \in DOMAIN paths' : Parted(paths'[j])
    BY <1>3, PartedAddMethod, PartedAddPath DEF Add
  <2> QED
    BY <1>1, <2>1 DEF AllParted, Parted
<1> QED
  BY <1>2, <1>3 DEF Next

(* A path that was found has a handler for a method, or no such method. *)
LEMMA HandledKind ==
  ASSUME NEW entry, NEW m, NEW params, NEW told, told = Handled(entry, m, params)
  PROVE  \/ m \in Range(entry.methods) /\ told.kind = "handled"
         \/ m \notin Range(entry.methods) /\ told.kind = "methodNotAllowed"
         \/ /\ m \notin Range(entry.methods) /\ told.kind = "nullopt"
            /\ "methodNotAllowed" \notin errors
<1>1. CASE m \in Range(entry.methods)
  <2>1. {j \in DOMAIN entry.methods : entry.methods[j] = m} # {}
    BY <1>1 DEF Range
  <2> QED
    BY <1>1, <2>1 DEF Handled, Answer
<1>2. CASE m \notin Range(entry.methods)
  <2>1. {j \in DOMAIN entry.methods : entry.methods[j] = m} = {}
    BY <1>2 DEF Range
  <2> QED
    BY <1>2, <2>1 DEF Handled, Error, None, Answer
<1> QED
  BY <1>1, <1>2

(* What one answer of route() says, and what canRoute() may then. *)
Tells(told, can) ==
  CASE told.kind = "handled" -> can = {<<TRUE, TRUE>>}
    [] told.kind = "methodNotAllowed" -> can = {<<TRUE, FALSE>>}
    [] told.kind = "notFound" -> can = {<<FALSE, FALSE>>}
    [] told.kind = "nullopt" ->
         \/ can = {<<FALSE, FALSE>>}
         \/ can = {<<TRUE, FALSE>>} /\ "methodNotAllowed" \notin errors
    [] told.kind = "undefined" -> TRUE

(* Of a path that has a handler, it tells whether there is one for the method. *)
LEMMA HandlerTells ==
  ASSUME NEW entry, NEW m, NEW params, NEW told, told = Handled(entry, m, params),
         NEW can, can = {<<TRUE, m \in Range(entry.methods)>>}
  PROVE  Tells(told, can)
<1>1. CASE m \in Range(entry.methods)
  <2>1. (m \in Range(entry.methods)) = TRUE
    BY <1>1
  <2>2. can = {<<TRUE, TRUE>>}
    BY <2>1, Zenon
  <2>3. told.kind = "handled"
    BY <1>1, HandledKind
  <2> QED
    BY <2>2, <2>3 DEF Tells
<1>2. CASE m \notin Range(entry.methods)
  <2>1. (m \in Range(entry.methods)) = FALSE
    BY <1>2
  <2>2. can = {<<TRUE, FALSE>>}
    BY <2>1, Zenon
  <2>3. told.kind = "methodNotAllowed" \/ (told.kind = "nullopt" /\ "methodNotAllowed" \notin errors)
    BY <1>2, HandledKind
  <2> QED
    BY <2>2, <2>3 DEF Tells
<1> QED
  BY <1>1, <1>2

(* canRoute() stops at the path at which route() does, and says so. *)
LEMMA CanRouteAgrees ==
  ASSUME AllParted, NEW m \in Methods, NEW request \in RequestPaths
  PROVE  Tells(Routed(m, request), CanRoute(m, request))
<1>1. PICK b \in Nat, l \in Nat : b = LowerBound(request) /\ l = Len(paths) /\ DOMAIN paths = 1..l
  BY LowerBoundTyped DEF AllParted
<1>2. PICK parts : parts = Parts(request)
  OBVIOUS
<1>3. parts \in Seq(Names)
  BY <1>2, PathsAssumption, PartsTyped DEF Names
<1>4. ASSUME NEW j \in 1..l
      PROVE  Decided(Comparison(paths[j], parts), Turn(paths[j], parts))
  <2>1. PICK entry : entry = paths[j]
    OBVIOUS
  <2>2. Parted(entry)
    BY <1>1, <2>1 DEF AllParted
  <2>3. PICK q \in Seq(Names) : entry.parts = Parts(q) /\ entry.wildcard = IsWildcard(q)
    BY <2>2 DEF Parted
  <2>4. PICK route \in Seq(Names) : route = Parts(q)
    BY PartsTyped
  <2>5. entry.parts = route /\ entry.wildcard = ("~" \in Range(route))
    BY <2>3, <2>4 DEF IsWildcard
  <2> QED
    BY <1>3, <2>1, <2>5, TurnDecides
<1>5. PICK D : D = {j \in b..l : Comparison(paths[j], parts) # "differs"}
  OBVIOUS
<1>6. b # 0 /\ \A j \in b..l : j \in 1..l
  <2>1. b >= 1
    BY <1>1, LowerBoundTyped DEF AllParted
  <2> QED
    BY <2>1
<1>7. D = {j \in b..l : Turn(paths[j], parts) # "next"}
  <2>1. ASSUME NEW j \in b..l
        PROVE  Comparison(paths[j], parts) # "differs" <=> Turn(paths[j], parts) # "next"
    BY <1>4, <1>6 DEF Decided
  <2> QED
    BY <1>5, <2>1
<1>8. /\ Min(D) = CHOOSE i \in D : \A j \in D : i <= j
      /\ D # {} => Min(D) \in D
  <2>1. D \in SUBSET Nat
    BY <1>5
  <2> QED
    BY <2>1, LeastOf
<1>9. PICK very \in BOOLEAN : very <=> b \in DOMAIN paths /\ paths[b].path = request /\ ~paths[b].wildcard
  OBVIOUS
<1>10. Exact(request) <=> very
  BY <1>1, <1>9 DEF Exact
<1>11. PICK at : at = IF very THEN b ELSE Min(D)
  OBVIOUS
<1>12. PICK can, told : can = CanRoute(m, request) /\ told = Routed(m, request)
  OBVIOUS
<1>13. can = CASE ~very /\ D = {} -> {<<FALSE, FALSE>>}
               [] ~very /\ D # {} /\ Turn(paths[at], parts) = "undefined" ->
                    {<<FALSE, FALSE>>, <<TRUE, FALSE>>, <<TRUE, TRUE>>}
               [] OTHER -> {<<TRUE, m \in Range(paths[at].methods)>>}
  BY <1>1, <1>2, <1>7, <1>9, <1>11, <1>12, Zenon DEF CanRoute
<1>14. Found(request) = IF very THEN b ELSE IF D = {} THEN 0 ELSE Min(D)
  <2>1. D = {j \in Tried(request) : Comparison(paths[j], Parts(request)) # "differs"}
    BY <1>1, <1>2, <1>5 DEF Tried
  <2>2. Found(request) = IF Exact(request) THEN b
                         ELSE IF D = {} THEN 0 ELSE CHOOSE i \in D : \A j \in D : i <= j
    <3>1. PICK E : E = {j \in Tried(request) : Comparison(paths[j], Parts(request)) # "differs"}
      OBVIOUS
    <3>2. Found(request) = IF Exact(request) THEN b
                           ELSE IF E = {} THEN 0 ELSE CHOOSE i \in E : \A j \in E : i <= j
      BY <1>1, <3>1 DEF Found
    <3> QED
      BY <2>1, <3>1, <3>2
  <2> QED
    BY <1>8, <1>10, <2>2
<1>15. CASE very
  <2>1. can = {<<TRUE, m \in Range(paths[b].methods)>>}
    BY <1>11, <1>13, <1>15
  <2>2. b \in 1..l /\ Found(request) = b
    BY <1>1, <1>9, <1>14, <1>15
  <2>3. told = Handled(paths[b], m, <<>>)
    BY <1>1, <1>6, <1>10, <1>12, <1>15, <2>2 DEF Routed
  <2>4. PICK entry, params : entry = paths[b] /\ params = <<>>
    OBVIOUS
  <2> QED
    BY <1>12, <2>1, <2>3, <2>4, HandlerTells
<1>16. CASE ~very /\ D = {}
  <2>1. can = {<<FALSE, FALSE>>}
    BY <1>13, <1>16
  <2>2. Found(request) = 0
    BY <1>14, <1>16
  <2>3. told = None \/ told = Error("notFound")
    BY <1>1, <1>12, <2>2 DEF Routed
  <2>4. told.kind = "nullopt" \/ told.kind = "notFound"
    BY <2>3 DEF Error, None, Answer
  <2> QED
    BY <1>12, <2>1, <2>4 DEF Tells
<1>17. CASE ~very /\ D # {}
  <2>1. at \in D /\ Found(request) = at
    BY <1>8, <1>11, <1>14, <1>17
  <2>2. at \in b..l /\ at \in 1..l /\ at # 0 /\ ~(b > l)
    BY <1>5, <1>6, <2>1
  <2>3. ~Exact(request)
    BY <1>10, <1>17
  <2>4. told = IF Comparison(paths[at], parts) = "undefined" THEN Answer("undefined", 0, <<>>)
               ELSE Handled(paths[at], m, Params(paths[at], request))
    BY <1>1, <1>2, <1>12, <2>1, <2>2, <2>3 DEF Routed
  <2>5. CASE Comparison(paths[at], parts) = "undefined"
    BY <1>12, <2>4, <2>5 DEF Tells, Answer
  <2>6. CASE Comparison(paths[at], parts) # "undefined"
    <3>1. Turn(paths[at], parts) # "undefined"
      BY <1>4, <2>2, <2>6 DEF Decided
    <3>2. can = {<<TRUE, m \in Range(paths[at].methods)>>}
      BY <1>13, <1>17, <3>1
    <3>3. PICK entry, params : entry = paths[at] /\ params = Params(paths[at], request)
      OBVIOUS
    <3> QED
      BY <1>12, <2>4, <2>6, <3>2, <3>3, HandlerTells
  <2> QED
    BY <2>5, <2>6
<1> QED
  BY <1>15, <1>16, <1>17

(* Whatever was added and in which order, canRoute() tells of every request what
   route() would do with it, for every set of routes and of requests.          *)
THEOREM CanRouteHolds == Spec => []CanRouteTells
<1>1. Spec => []AllParted
  BY PartedInit, PartedNext, PTL DEF Spec
<1>2. AllParted => CanRouteTells
  <2> SUFFICES ASSUME AllParted, NEW m \in Methods, NEW request \in RequestPaths
               PROVE  Tells(Route(m, request, FALSE), CanRoute(m, request))
    BY ZenonT(40) DEF CanRouteTells, Tells
  <2>1. Route(m, request, FALSE) = Routed(m, request)
    BY DEF Route
  <2> QED
    BY <2>1, CanRouteAgrees
<1> QED
  BY <1>1, <1>2, PTL

-----------------------------------------------------------------------------
(* The years that are counted go one past the last. *)
FinalYear == Max(Years)
YearsCounted == 1970..(FinalYear + 1)

(* There is a last year, for the years are bounded. *)
LEMMA LastYear == FinalYear \in Years /\ FinalYear \in Nat /\ FinalYear >= 1970 /\ \A y \in Years : y <= FinalYear
<1>1. PICK last \in Years : \A y \in Years : y <= last
  BY YearsAssumption
<1>2. \A y \in Years : last >= y
  BY <1>1, YearsAssumption
<1>3. FinalYear \in Years /\ \A y \in Years : FinalYear >= y
  BY <1>2, Zenon DEF FinalYear, Max
<1>4. FinalYear \in Nat /\ FinalYear >= 1970
  BY <1>3, YearsAssumption
<1>5. ASSUME NEW y \in Years PROVE y <= FinalYear
  BY <1>3, <1>4, YearsAssumption
<1> QED
  BY <1>3, <1>4, <1>5

(* The years counted are those up to the one after the last. *)
LEMMA CountedYear == \A y : y \in YearsCounted <=> y \in Int /\ 1970 <= y /\ y <= FinalYear + 1
BY LastYear DEF YearsCounted

(* The days before a year, from the number of leap days. *)
Days(y) == 365 * (y - 1970) + ((y - 1969) \div 4) - ((y - 1901) \div 100) + ((y - 1601) \div 400)

(* A quotient grows by one at the multiples of the divisor. *)
LEMMA QuotientGrows ==
  ASSUME NEW a \in Int
  PROVE  /\ (a + 1) \div 4 = (a \div 4) + IF (a + 1) % 4 = 0 THEN 1 ELSE 0
         /\ (a + 1) \div 100 = (a \div 100) + IF (a + 1) % 100 = 0 THEN 1 ELSE 0
         /\ (a + 1) \div 400 = (a \div 400) + IF (a + 1) % 400 = 0 THEN 1 ELSE 0
OBVIOUS

(* The formula grows by the length of each year. *)
LEMMA DaysGrow ==
  ASSUME NEW y \in Int
  PROVE  /\ Days(y) \in Int
         /\ Days(y + 1) = Days(y) + YearLength(y)
<1>1. (y - 1968) \div 4 = ((y - 1969) \div 4) + IF y % 4 = 0 THEN 1 ELSE 0
  OBVIOUS
<1>2. (y - 1900) \div 100 = ((y - 1901) \div 100) + IF y % 100 = 0 THEN 1 ELSE 0
  OBVIOUS
<1>3. (y - 1600) \div 400 = ((y - 1601) \div 400) + IF y % 400 = 0 THEN 1 ELSE 0
  OBVIOUS
<1>4. (y % 400 = 0 => y % 100 = 0) /\ (y % 100 = 0 => y % 4 = 0)
  OBVIOUS
<1>5. /\ (y - 1969) \div 4 \in Int /\ (y - 1901) \div 100 \in Int /\ (y - 1601) \div 400 \in Int
      /\ (y + 1) - 1969 = y - 1968 /\ (y + 1) - 1901 = y - 1900 /\ (y + 1) - 1601 = y - 1600
  OBVIOUS
<1> QED
  BY <1>1, <1>2, <1>3, <1>4, <1>5 DEF Days, YearLength, isLeapYear

(* The loop over the years adds up what counting leap days gives. *)
AddsUp(before, years) ==
  before = [year \in years |-> IF year = 1970 THEN 0 ELSE before[year - 1] + YearLength(year - 1)]

(* So there is a function that the loop computes. *)
LEMMA DaysBeforeDef == AddsUp(DaysBefore, YearsCounted)
<1>1. PICK f : f = [year \in YearsCounted |-> Days(year)]
  OBVIOUS
<1>2. Days(1970) = 0
  BY DEF Days
<1>3. ASSUME NEW y \in YearsCounted, y # 1970
      PROVE  y - 1 \in YearsCounted /\ Days(y) = Days(y - 1) + YearLength(y - 1)
  <2>1. y - 1 \in Int /\ (y - 1) + 1 = y /\ y - 1 \in YearsCounted
    BY <1>3, LastYear, CountedYear
  <2> QED
    BY <2>1, DaysGrow
<1>4. f = [year \in YearsCounted |->
             IF year = 1970 THEN 0 ELSE f[year - 1] + YearLength(year - 1)]
  BY <1>1, <1>2, <1>3
<1>5. \E h : h = [year \in YearsCounted |->
                   IF year = 1970 THEN 0 ELSE h[year - 1] + YearLength(year - 1)]
  BY <1>4
<1> QED
  BY <1>5, Zenon DEF AddsUp, DaysBefore, FinalYear, YearsCounted

(* The loop computes the formula: a first year where it did not would follow one
   where it did. *)
LEMMA DaysCounted == \A y \in YearsCounted : DaysBefore[y] = Days(y)
<1> SUFFICES ASSUME NEW T, T = {y \in YearsCounted : DaysBefore[y] # Days(y)}, T # {}
             PROVE FALSE
  OBVIOUS
<1>1. T \subseteq Nat
  BY CountedYear
<1>2. PICK m \in T : \A y \in T : m <= y
  BY <1>1, LeastNumber
<1>3. m \in YearsCounted /\ DaysBefore[m] # Days(m)
  OBVIOUS
<1>4. m # 1970
  <2>1. Days(1970) = 0
    BY DEF Days
  <2>2. DaysBefore[1970] = 0
    <3>1. PICK d : d = DaysBefore /\ AddsUp(d, YearsCounted)
      BY DaysBeforeDef
    <3>2. d = [year \in YearsCounted |-> IF year = 1970 THEN 0 ELSE d[year - 1] + YearLength(year - 1)]
      BY <3>1 DEF AddsUp
    <3>3. 1970 \in YearsCounted
      BY LastYear, CountedYear
    <3> QED
      BY <3>1, <3>2, <3>3
  <2> QED
    BY <2>1, <2>2, <1>3
<1>5. m - 1 \in YearsCounted /\ m - 1 \notin T /\ m - 1 \in Int /\ (m - 1) + 1 = m
  BY <1>2, <1>3, <1>4, LastYear, CountedYear
<1>6. DaysBefore[m - 1] = Days(m - 1)
  BY <1>5
<1>7. DaysBefore[m] = DaysBefore[m - 1] + YearLength(m - 1)
  <2>1. PICK n \in Int : YearsCounted = 1970..n
    BY LastYear DEF YearsCounted
  <2>2. PICK d : d = DaysBefore /\ AddsUp(d, 1970..n)
    BY <2>1, DaysBeforeDef
  <2>3. d = [year \in 1970..n |-> IF year = 1970 THEN 0 ELSE d[year - 1] + YearLength(year - 1)]
    BY <2>2 DEF AddsUp
  <2>5. m \in 1970..n
    BY <2>1, <1>3
  <2>6. d[m] = d[m - 1] + YearLength(m - 1)
    BY <2>3, <2>5, <1>4
  <2> QED
    BY <2>2, <2>6
<1> QED
  BY <1>3, <1>5, <1>6, <1>7, DaysGrow

-----------------------------------------------------------------------------
(* The days before a month of a year. *)
MonthDays(year, m) ==
  ((367 * m - 362) \div 12) + (IF m <= 2 THEN 0 ELSE IF isLeapYear(year) THEN -1 ELSE -2)

(* The formula grows by the length of each month. *)
LEMMA MonthDaysGrow ==
  ASSUME NEW year, NEW m \in 1..12
  PROVE  MonthDays(year, m + 1) = MonthDays(year, m) + MonthLength(year, m)
<1>1. \/ m = 1 \/ m = 2 \/ m = 3 \/ m = 4 \/ m = 5 \/ m = 6 \/ m = 7 \/ m = 8 \/ m = 9
      \/ m = 10 \/ m = 11 \/ m = 12
  OBVIOUS
<1> QED
  BY <1>1 DEF MonthDays, MonthLength

(* So there is a function that the loop over the months computes. *)
LEMMA MonthsDef ==
  ASSUME NEW year
  PROVE  DaysBeforeMonth(year) = [m \in 1..13 |->
           IF m = 1 THEN 0 ELSE DaysBeforeMonth(year)[m - 1] + MonthLength(year, m - 1)]
<1>1. PICK f : f = [m \in 1..13 |-> MonthDays(year, m)]
  OBVIOUS
<1>2. MonthDays(year, 1) = 0
  BY DEF MonthDays
<1>3. ASSUME NEW m \in 1..13, m # 1
      PROVE  m - 1 \in 1..13 /\ MonthDays(year, m) = MonthDays(year, m - 1) + MonthLength(year, m - 1)
  <2>1. m - 1 \in 1..12 /\ m - 1 \in 1..13 /\ (m - 1) + 1 = m
    BY <1>3
  <2> QED
    BY <2>1, MonthDaysGrow
<1>4. f = [m \in 1..13 |-> IF m = 1 THEN 0 ELSE f[m - 1] + MonthLength(year, m - 1)]
  BY <1>1, <1>2, <1>3
<1>5. \E h : h = [m \in 1..13 |-> IF m = 1 THEN 0 ELSE h[m - 1] + MonthLength(year, m - 1)]
  BY <1>4
<1> QED
  BY <1>5, Zenon DEF DaysBeforeMonth

(* That loop computes the formula, as the loop over the years does. *)
LEMMA MonthsCounted ==
  ASSUME NEW year
  PROVE  \A m \in 1..13 : DaysBeforeMonth(year)[m] = MonthDays(year, m)
<1>1. PICK before : before = DaysBeforeMonth(year)
  OBVIOUS
<1>2. before = [m \in 1..13 |-> IF m = 1 THEN 0 ELSE before[m - 1] + MonthLength(year, m - 1)]
  BY <1>1, MonthsDef
<1> SUFFICES ASSUME NEW T, T = {m \in 1..13 : before[m] # MonthDays(year, m)}, T # {}
             PROVE FALSE
  BY <1>1
<1>3. PICK n \in T : \A m \in T : n <= m
  BY LeastNumber
<1>4. n \in 1..13 /\ before[n] # MonthDays(year, n)
  OBVIOUS
<1>5. n # 1
  BY <1>2, <1>4 DEF MonthDays
<1>6. n - 1 \in 1..12 /\ n - 1 \in 1..13 /\ n - 1 \notin T /\ (n - 1) + 1 = n
  BY <1>3, <1>4, <1>5
<1>7. before[n - 1] = MonthDays(year, n - 1)
  BY <1>6
<1>8. before[n] = before[n - 1] + MonthLength(year, n - 1)
  BY <1>2, <1>4, <1>5
<1> QED
  BY <1>4, <1>6, <1>7, <1>8, MonthDaysGrow

(* A day of a year is in one of its months. *)
LEMMA MonthFound ==
  ASSUME NEW year, NEW rest \in Nat, rest < YearLength(year)
  PROVE  \E m \in 1..12 : MonthDays(year, m) <= rest /\ rest < MonthDays(year, m + 1)
<1>1. MonthDays(year, 1) = 0 /\ MonthDays(year, 13) = YearLength(year)
  BY DEF MonthDays, YearLength
<1>2. PICK d : d = [m \in 1..13 |-> MonthDays(year, m)]
  OBVIOUS
<1>3. \A m \in 1..13 : d[m] \in Int
  BY <1>2 DEF MonthDays
<1> SUFFICES ASSUME \A m \in 1..12 : ~(d[m] <= rest /\ rest < d[m + 1]) PROVE FALSE
  BY <1>2
<1>4. d[1] <= rest
  BY <1>1, <1>2
<1>5. d[2] <= rest /\ d[3] <= rest /\ d[4] <= rest /\ d[5] <= rest
  BY <1>3, <1>4
<1>6. d[6] <= rest /\ d[7] <= rest /\ d[8] <= rest /\ d[9] <= rest
  BY <1>3, <1>5
<1>7. d[10] <= rest /\ d[11] <= rest /\ d[12] <= rest /\ d[13] <= rest
  BY <1>3, <1>6
<1> QED
  BY <1>1, <1>2, <1>7 DEF YearLength

-----------------------------------------------------------------------------
(* The clock is in one of the years. *)
InAYear == /\ epoch \in Int
           /\ \E year \in Years : EpochOf(year) <= epoch /\ epoch < EpochOf(year + 1)

(* The days before a year and before the next differ by its length. *)
LEMMA YearDays ==
  ASSUME NEW year \in Years
  PROVE  /\ year \in 1970..FinalYear /\ year \in YearsCounted /\ year + 1 \in YearsCounted
         /\ DaysBefore[year] \in Int
         /\ DaysBefore[year + 1] = DaysBefore[year] + YearLength(year)
<1>1. year \in 1970..FinalYear /\ year \in YearsCounted /\ year + 1 \in YearsCounted
  BY LastYear, YearsAssumption, CountedYear
<1> QED
  BY <1>1, DaysCounted, DaysGrow

(* The clock starts in a year. *)
LEMMA ClockInitial == ClockInit => InAYear
<1> SUFFICES ASSUME NEW year \in Years, epoch = EpochOf(year) PROVE InAYear
  BY DEF ClockInit
<1> QED
  BY YearDays DEF InAYear, EpochOf, YearLength

(* A tick stays in a year. *)
LEMMA ClockStep == InAYear /\ [Tick]_epoch => InAYear'
<1>1. CASE UNCHANGED epoch
  BY <1>1 DEF InAYear, EpochOf
<1>2. CASE Tick
  BY <1>2 DEF InAYear, Tick, EpochOf
<1> QED
  BY <1>1, <1>2

(* The hours and minutes make up the time of the day. *)
LEMMA TimeOfDay ==
  ASSUME NEW t \in Int
  PROVE  60 * ((t \div 60) % 24) + (t % 60) = t % 1440
OBVIOUS

(* In a year of the calendar, the date shown is that of the clock. *)
LEMMA DateFound == InAYear => DatesExact
<1> SUFFICES ASSUME InAYear PROVE DatesExact
  OBVIOUS
<1> DEFINE days == epoch \div 1440
           year == CHOOSE y \in 1970..Max(Years) : DaysBefore[y] <= days /\ days < DaysBefore[y + 1]
           rest == days - DaysBefore[year]
           before == DaysBeforeMonth(year)
           month == CHOOSE m \in 1..12 : before[m] <= rest /\ rest < before[m + 1]
<1>1. isoDate = [year |-> year, month |-> month, day |-> rest - before[month] + 1,
                 hour |-> (epoch \div 60) % 24, minute |-> epoch % 60]
  BY DEF isoDate
<1> HIDE DEF days, year, rest, before, month
<1>10. days \in Int /\ days = epoch \div 1440
  BY DEF InAYear, days
<1>2. \E y \in 1970..FinalYear : DaysBefore[y] <= days /\ days < DaysBefore[y + 1]
  <2>1. PICK y \in Years : EpochOf(y) <= epoch /\ epoch < EpochOf(y + 1)
    BY DEF InAYear
  <2>2. PICK a \in Int, b \in Int : a = DaysBefore[y] /\ b = DaysBefore[y + 1]
    BY YearDays DEF YearLength
  <2>3. 1440 * a <= epoch /\ epoch < 1440 * b /\ epoch \in Int
    BY <2>1, <2>2 DEF EpochOf, InAYear
  <2>4. a <= days /\ days < b
    BY <1>10, <2>3
  <2> QED
    BY <2>2, <2>4, YearDays
<1>3. year \in 1970..FinalYear /\ DaysBefore[year] <= days /\ days < DaysBefore[year + 1]
  <2>1. year = CHOOSE y \in 1970..FinalYear : DaysBefore[y] <= days /\ days < DaysBefore[y + 1]
    BY Zenon DEF year, FinalYear
  <2> QED
    BY <2>1, <1>2
<1>4. /\ year \in Int /\ DaysBefore[year] = Days(year) /\ Days(year) \in Int
      /\ DaysBefore[year + 1] = Days(year) + YearLength(year)
  <2>1. year \in Int /\ year \in YearsCounted /\ year + 1 \in YearsCounted
    BY <1>3, LastYear, CountedYear
  <2> QED
    BY <2>1, DaysCounted, DaysGrow
<1>5. rest \in Nat /\ rest = days - DaysBefore[year] /\ rest < YearLength(year)
  <2>1. PICK first \in Int, length \in Nat : first = DaysBefore[year] /\ length = YearLength(year)
    BY <1>4 DEF YearLength
  <2>2. first <= days /\ days < first + length
    BY <2>1, <1>3, <1>4
  <2>3. days - first \in Nat /\ days - first < length
    BY <2>2, <1>10
  <2> QED
    BY <2>1, <2>3 DEF rest
<1>7. \A m \in 1..12 : /\ before[m] = MonthDays(year, m) /\ MonthDays(year, m) \in Int
                       /\ before[m + 1] = MonthDays(year, m) + MonthLength(year, m)
  <2> SUFFICES ASSUME NEW m \in 1..12
               PROVE  /\ before[m] = MonthDays(year, m) /\ MonthDays(year, m) \in Int
                      /\ before[m + 1] = MonthDays(year, m) + MonthLength(year, m)
    OBVIOUS
  <2>1. m \in 1..13 /\ m + 1 \in 1..13
    OBVIOUS
  <2>2. MonthDays(year, m) \in Int
    BY DEF MonthDays
  <2> QED
    BY <2>1, <2>2, MonthsCounted, MonthDaysGrow DEF before
<1>8. \E m \in 1..12 : before[m] <= rest /\ rest < before[m + 1]
  BY <1>7, <1>5, MonthFound, MonthDaysGrow
<1>9. month \in 1..12 /\ before[month] <= rest /\ rest < before[month + 1]
  BY <1>8, Zenon DEF month
<1>11. PICK first \in Int, next \in Int, length \in Int :
         first = before[month] /\ next = before[month + 1] /\ length = MonthLength(year, month)
  <2>1. MonthLength(year, month) \in Int
    BY <1>9 DEF MonthLength
  <2>2. before[month] \in Int /\ before[month + 1] \in Int
    BY <2>1, <1>7, <1>9
  <2> QED
    BY <2>1, <2>2
<1>12. first \in Int /\ first = MonthDays(year, month) /\ next = first + length /\ first <= rest /\ rest < next
  BY <1>7, <1>9, <1>11
<1>13. PICK day \in 1..length : day = rest - first + 1
  BY <1>5, <1>11, <1>12
<1>14. DayNumber(year, month, day) = days
  <2>1. month \in Int /\ (month <= 2 \/ month > 2)
    <3>1. month \in Int
      BY <1>9
    <3> QED
      BY <3>1
  <2>2. (CASE month <= 2 -> 0
           [] month > 2 /\ (year % 400 = 0 \/ (year % 4 = 0 /\ year % 100 # 0)) -> -1
           [] OTHER -> -2)
        = IF month <= 2 THEN 0 ELSE IF isLeapYear(year) THEN -1 ELSE -2
    BY <2>1, <1>4 DEF isLeapYear
  <2>3. PICK leap \in Int : leap = IF month <= 2 THEN 0 ELSE IF isLeapYear(year) THEN -1 ELSE -2
    OBVIOUS
  <2>4. PICK months \in Int : months = (367 * month - 362) \div 12
    BY <2>1
  <2>5. first = months + leap
    BY <1>12, <2>3, <2>4 DEF MonthDays
  <2>6. DayNumber(year, month, day) = Days(year) + months + leap + day - 1
    BY <2>2, <2>3, <2>4 DEF DayNumber, Days
  <2>7. PICK d \in Int : d = Days(year)
    BY <1>4
  <2>8. rest = days - d
    BY <2>7, <1>4, <1>5
  <2> QED
    BY <2>5, <2>6, <2>7, <2>8, <1>5, <1>10, <1>12, <1>13
<1>15. 60 * ((epoch \div 60) % 24) + (epoch % 60) = epoch % 1440
  BY TimeOfDay DEF InAYear
<1> QED
  <2>1. isoDate = [year |-> year, month |-> month, day |-> day,
                   hour |-> (epoch \div 60) % 24, minute |-> epoch % 60]
    BY <1>1, <1>11, <1>13
  <2> QED
    BY <2>1, <1>10, <1>11, <1>13, <1>14, <1>15 DEF DatesExact

(* Every minute has the date that the calendar counts to. *)
THEOREM DatesHold == ClockSpec => []DatesExact
<1>1. ClockSpec => []InAYear
  BY ClockInitial, ClockStep, PTL DEF ClockSpec
<1> QED
  BY <1>1, DateFound, PTL

-----------------------------------------------------------------------------
(* The types and their ids. *)
Numbers == DOMAIN SizeOf

(* Every type of number has a size of one to eight bytes. *)
LEMMA NumberTypes ==
  /\ Numbers = {"char", "uint32", "uint64", "int32", "int64", "double", "literal"}
  /\ \A t \in Numbers : SizeOf[t] \in 1..8
BY DEF Numbers, SizeOf

(* A type and its id, the place in the list of types, name each other. *)
LEMMA TypeIds ==
  /\ \A t \in Numbers : /\ TypeId(t) \in 0..7 /\ SupportedTypes[TypeId(t) + 1] = t
                        /\ t # "string"
  /\ TypeId("string") = 7 /\ SupportedTypes[8] = "string" /\ Len(SupportedTypes) = 8
  /\ \A n \in 0..7 : SupportedTypes[n + 1] = "string" \/ SupportedTypes[n + 1] \in Numbers
<1>1. Len(SupportedTypes) = 8 /\ DOMAIN SupportedTypes = 1..8
  BY DEF SupportedTypes
<1>2. /\ SupportedTypes[1] = "char" /\ SupportedTypes[2] = "uint32" /\ SupportedTypes[3] = "uint64"
      /\ SupportedTypes[4] = "int32" /\ SupportedTypes[5] = "int64" /\ SupportedTypes[6] = "double"
      /\ SupportedTypes[7] = "literal" /\ SupportedTypes[8] = "string"
  BY DEF SupportedTypes
<1>3. \A n \in 0..7 : SupportedTypes[n + 1] = "string" \/ SupportedTypes[n + 1] \in Numbers
  BY <1>2, NumberTypes
<1>4. ASSUME NEW t \in Numbers \cup {"string"}
      PROVE  TypeId(t) \in 0..7 /\ SupportedTypes[TypeId(t) + 1] = t
  <2>1. \E i \in 1..8 : SupportedTypes[i] = t
    BY <1>2, NumberTypes
  <2>2. PICK i : i = CHOOSE j \in DOMAIN SupportedTypes : SupportedTypes[j] = t
    OBVIOUS
  <2>3. i \in 1..8 /\ SupportedTypes[i] = t
    BY <1>1, <2>1, <2>2
  <2>4. TypeId(t) = i - 1
    BY <2>2, Zenon DEF TypeId
  <2>5. i - 1 \in 0..7 /\ (i - 1) + 1 = i
    BY <2>3
  <2> QED
    BY <2>3, <2>4, <2>5
<1>5. TypeId("string") = 7
  BY <1>2, <1>4
<1>6. \A t \in Numbers : t # "string"
  BY NumberTypes
<1> QED
  BY <1>1, <1>2, <1>3, <1>4, <1>5, <1>6

-----------------------------------------------------------------------------
(* A line whose writes were all within its buffer. *)
Sound(l) ==
  /\ \E M : l \in [used : Nat, size : Nat, heap : BOOLEAN, wild : BOOLEAN, memory : M]
  /\ DOMAIN l.memory = 0..(l.size - 1)
  /\ l.used <= l.size
  /\ ~l.wild

(* What was written stays. *)
Keeps(old, new) == \A i \in 0..(old.used - 1) : new.memory[i] = old.memory[i]

(* A buffer that is made larger keeps what was written, and has the room asked for. *)
LEMMA Resized ==
  ASSUME NEW old, Sound(old), NEW n \in Nat,
         NEW new, new = resize_buffer_if_needed(old, n)
  PROVE  Sound(new) /\ Keeps(old, new) /\ new.used = old.used /\ old.used + n <= new.size
<1>1. PICK M : old \in [used : Nat, size : Nat, heap : BOOLEAN, wild : BOOLEAN, memory : M]
  BY DEF Sound
<1>2. old.used + n \in Nat /\ old.used \in Nat /\ old.size \in Nat
  BY <1>1
<1>3. CASE old.used + n <= old.size
  <2>1. new = old
    BY <1>3 DEF resize_buffer_if_needed
  <2> QED
    BY <2>1, <1>3 DEF Keeps
<1>4. CASE ~(old.used + n <= old.size)
  <2>1. PICK size : size = Larger(IF old.heap THEN 2 * old.size ELSE HeapSize, old.used + n)
    OBVIOUS
  <2>2. size \in Nat /\ old.used + n <= size
    <3>1. PICK a \in Nat : a = IF old.heap THEN 2 * old.size ELSE HeapSize
      BY <1>2, BuffersAssumption
    <3> QED
      BY <2>1, <3>1, <1>2 DEF Larger
  <2>3. PICK memory : memory = [i \in 0..(size - 1) |-> IF i < old.used THEN old.memory[i] ELSE Unset]
    OBVIOUS
  <2>4. new = [old EXCEPT !.size = size, !.heap = TRUE, !.memory = memory]
    BY <1>4, <2>1, <2>3 DEF resize_buffer_if_needed
  <2>5. /\ new \in [used : Nat, size : Nat, heap : BOOLEAN, wild : BOOLEAN, memory : {memory}]
        /\ new.used = old.used /\ new.size = size /\ new.memory = memory /\ new.wild = old.wild
    BY <1>1, <2>2, <2>4
  <2>6. DOMAIN memory = 0..(size - 1) /\ \A i \in 0..(old.used - 1) : memory[i] = old.memory[i]
    BY <2>2, <2>3, <1>2
  <2>7. old.used <= size
    BY <1>2, <2>2
  <2> QED
    BY <2>2, <2>5, <2>6, <2>7 DEF Sound, Keeps
<1> QED
  BY <1>3, <1>4

(* Bytes that fit are written after those that were, which stay. *)
LEMMA Written ==
  ASSUME NEW old, Sound(old), NEW n \in Nat, NEW bytes, Len(bytes) = n, old.used + n <= old.size,
         NEW new, new = Put(old, bytes)
  PROVE  /\ Sound(new) /\ Keeps(old, new) /\ new.used = old.used + n
         /\ \A i \in 1..n : new.memory[old.used + i - 1] = bytes[i]
<1>1. PICK M : old \in [used : Nat, size : Nat, heap : BOOLEAN, wild : BOOLEAN, memory : M]
  BY DEF Sound
<1>2. PICK used \in Nat, size \in Nat : used = old.used /\ size = old.size
  BY <1>1
<1>3. DOMAIN old.memory = 0..(size - 1) /\ used + n <= size /\ ~old.wild
  BY <1>2 DEF Sound
<1>4. PICK memory : memory = [i \in 0..(size - 1) |->
                                IF i \in used..(used + n - 1) THEN bytes[i - used + 1] ELSE old.memory[i]]
  OBVIOUS
<1>5. new = [old EXCEPT !.memory = memory, !.used = used + n, !.wild = FALSE]
  <2>1. (old.wild \/ used + n > size) = FALSE
    BY <1>1, <1>2, <1>3
  <2>2. new = [old EXCEPT !.memory = memory, !.used = used + n, !.wild = old.wild \/ used + n > size]
    BY <1>2, <1>3, <1>4 DEF Put
  <2> QED
    BY <2>1, <2>2, Zenon
<1>6. used + n \in Nat
  OBVIOUS
<1>7. /\ new \in [used : Nat, size : Nat, heap : BOOLEAN, wild : BOOLEAN, memory : {memory}]
      /\ new.used = used + n /\ new.size = size /\ new.memory = memory /\ new.wild = FALSE
  BY <1>1, <1>2, <1>5, <1>6
<1>8. DOMAIN memory = 0..(size - 1) /\ \A i \in 0..(used - 1) : memory[i] = old.memory[i]
  BY <1>3, <1>4
<1>9. \A i \in 1..n : memory[used + i - 1] = bytes[i]
  <2> SUFFICES ASSUME NEW i \in 1..n PROVE memory[used + i - 1] = bytes[i]
    OBVIOUS
  <2>1. PICK j \in 0..(size - 1) : j = used + i - 1
    BY <1>3
  <2>2. j \in used..(used + n - 1) /\ j - used + 1 = i
    BY <2>1
  <2> QED
    BY <1>4, <2>1, <2>2
<1> QED
  BY <1>2, <1>3, <1>7, <1>8, <1>9 DEF Sound, Keeps

-----------------------------------------------------------------------------
(* The cells from b to e hold an argument: the id of its type, and its bytes. *)
Skipped(arg) == arg.length = 0 /\ arg.type # "string_view"
EncodedNumber(memory, b, e, value, type) ==
  /\ e = b + 1 + SizeOf[type] /\ memory[b] = TypeId(type)
  /\ \A i \in 1..SizeOf[type] : memory[b + i] = <<value, i>>
EncodedText(memory, b, e, value, length) ==
  /\ e = b + length + 2 /\ memory[b] = 7
  /\ \A i \in 1..length : memory[b + i] = <<value, i>>
  /\ memory[b + length + 1] = NUL
Encoded(memory, b, e, value, arg) ==
  IF arg.type \in Numbers THEN EncodedNumber(memory, b, e, value, arg.type)
  ELSE IF Skipped(arg) THEN e = b ELSE EncodedText(memory, b, e, value, arg.length)

(* encode() writes a number so. *)
LEMMA NumberEncoded ==
  ASSUME NEW old, Sound(old), NEW value, NEW type \in Numbers,
         NEW new, new = encode(old, value, type)
  PROVE  Sound(new) /\ Keeps(old, new) /\ EncodedNumber(new.memory, old.used, new.used, value, type)
<1>1. PICK n \in Nat : n = SizeOf[type]
  BY NumberTypes
<1>2. PICK mid : mid = resize_buffer_if_needed(old, 1 + n)
  OBVIOUS
<1>3. Sound(mid) /\ Keeps(old, mid) /\ mid.used = old.used /\ old.used + (1 + n) <= mid.size
  BY <1>2, Resized
<1>4. PICK bytes : bytes = <<TypeId(type)>> \o BytesOf(value, n)
  OBVIOUS
<1>5. Len(bytes) = 1 + n /\ bytes[1] = TypeId(type) /\ \A i \in 1..n : bytes[i + 1] = <<value, i>>
  BY <1>4 DEF BytesOf
<1>6. new = Put(mid, bytes)
  BY <1>1, <1>2, <1>4 DEF encode
<1>7. /\ Sound(new) /\ Keeps(mid, new) /\ new.used = old.used + (1 + n)
      /\ \A i \in 1..(1 + n) : new.memory[old.used + i - 1] = bytes[i]
  BY <1>3, <1>5, <1>6, Written
<1>8. PICK used \in Nat : used = old.used
  BY DEF Sound
<1>9. new.memory[used] = TypeId(type) /\ \A i \in 1..n : new.memory[used + i] = <<value, i>>
  <2>1. used + 1 - 1 = used /\ 1 \in 1..(1 + n)
    OBVIOUS
  <2>2. \A i \in 1..n : i + 1 \in 1..(1 + n) /\ used + (i + 1) - 1 = used + i
    OBVIOUS
  <2> QED
    BY <1>5, <1>7, <1>8, <2>1, <2>2
<1>10. new.used = used + 1 + n
  BY <1>7, <1>8
<1>11. Keeps(old, new)
  BY <1>3, <1>7 DEF Keeps
<1> QED
  BY <1>1, <1>7, <1>8, <1>9, <1>10, <1>11 DEF EncodedNumber

(* encode_c_string() writes text so. *)
LEMMA TextEncoded ==
  ASSUME NEW old, Sound(old), NEW value, NEW n \in Nat,
         NEW new, new = encode_c_string(old, value, n)
  PROVE  Sound(new) /\ Keeps(old, new) /\ EncodedText(new.memory, old.used, new.used, value, n)
<1>1. PICK mid : mid = resize_buffer_if_needed(old, 1 + n + 1)
  OBVIOUS
<1>2. 1 + n + 1 = n + 2 /\ n + 2 \in Nat
  OBVIOUS
<1>3. Sound(mid) /\ Keeps(old, mid) /\ mid.used = old.used /\ old.used + (n + 2) <= mid.size
  BY <1>1, <1>2, Resized
<1>4. PICK bytes : bytes = <<TypeId("string")>> \o BytesOf(value, n) \o <<NUL>>
  OBVIOUS
<1>5. /\ Len(bytes) = n + 2 /\ bytes[1] = 7 /\ bytes[n + 2] = NUL
      /\ \A i \in 1..n : bytes[i + 1] = <<value, i>>
  BY <1>4, TypeIds DEF BytesOf
<1>6. new = Put(mid, bytes)
  BY <1>1, <1>4 DEF encode_c_string
<1>7. /\ Sound(new) /\ Keeps(mid, new) /\ new.used = old.used + (n + 2)
      /\ \A i \in 1..(n + 2) : new.memory[old.used + i - 1] = bytes[i]
  BY <1>2, <1>3, <1>5, <1>6, Written
<1>8. PICK used \in Nat : used = old.used
  BY DEF Sound
<1>9. /\ new.memory[used] = 7 /\ \A i \in 1..n : new.memory[used + i] = <<value, i>>
      /\ new.memory[used + n + 1] = NUL
  <2>1. used + 1 - 1 = used /\ 1 \in 1..(n + 2)
    OBVIOUS
  <2>2. \A i \in 1..n : i + 1 \in 1..(n + 2) /\ used + (i + 1) - 1 = used + i
    OBVIOUS
  <2>3. n + 2 \in 1..(n + 2) /\ used + (n + 2) - 1 = used + n + 1
    OBVIOUS
  <2> QED
    BY <1>5, <1>7, <1>8, <2>1, <2>2, <2>3
<1>10. new.used = used + n + 2
  BY <1>7, <1>8
<1>11. Keeps(old, new)
  BY <1>3, <1>7 DEF Keeps
<1> QED
  BY <1>7, <1>8, <1>9, <1>10, <1>11 DEF EncodedText

(* operator<< writes an argument so, or, of a null pointer, nothing. *)
LEMMA ArgumentEncoded ==
  ASSUME NEW old, Sound(old), NEW value, NEW arg \in Arguments,
         NEW new, new = Appended(old, value, arg)
  PROVE  Sound(new) /\ Keeps(old, new) /\ Encoded(new.memory, old.used, new.used, value, arg)
<1>1. CASE arg.type \in Numbers
  <2>1. new = encode(old, value, arg.type)
    BY <1>1 DEF Appended, Numbers
  <2>2. PICK type \in Numbers : type = arg.type
    BY <1>1
  <2> QED
    BY <1>1, <2>1, <2>2, NumberEncoded DEF Encoded
<1>2. CASE arg.type \notin Numbers /\ Skipped(arg)
  BY <1>2 DEF Appended, Numbers, Encoded, Skipped, Keeps
<1>3. CASE arg.type \notin Numbers /\ ~Skipped(arg)
  <2>1. new = encode_c_string(old, value, arg.length)
    BY <1>3 DEF Appended, Numbers, Skipped
  <2>2. PICK n \in Nat : n = arg.length
    BY <1>3, ArgumentsAssumption DEF Numbers
  <2> QED
    BY <1>3, <2>1, <2>2, TextEncoded DEF Encoded
<1> QED
  BY <1>1, <1>2, <1>3

-----------------------------------------------------------------------------
(* The arguments follow one another from the header to the end of what is used. *)
Laid(memory, used, start, n) ==
  /\ start \in [1..(n + 1) -> Nat]
  /\ start[1] = HeaderSize /\ start[n + 1] = used
  /\ \A k \in 1..n : /\ start[k] <= start[k + 1] /\ start[k + 1] <= used
                     /\ Encoded(memory, start[k], start[k + 1], k, args[k])

LineInv == /\ Sound(line) /\ args \in Seq(Arguments)
           /\ \E start : Laid(line.memory, line.used, start, Len(args))

(* An argument stays encoded while its cells stay. *)
LEMMA StaysEncoded ==
  ASSUME NEW old, NEW new, NEW used \in Nat, NEW b \in Nat, NEW e \in Nat, e <= used,
         \A i \in 0..(used - 1) : new[i] = old[i],
         NEW value, NEW arg \in Arguments, Encoded(old, b, e, value, arg)
  PROVE  Encoded(new, b, e, value, arg)
<1>1. CASE arg.type \in Numbers
  <2>1. PICK n \in Nat : n = SizeOf[arg.type]
    BY <1>1, NumberTypes
  <2>2. e = b + 1 + n /\ old[b] = TypeId(arg.type) /\ \A i \in 1..n : old[b + i] = <<value, i>>
    BY <1>1, <2>1 DEF Encoded, EncodedNumber
  <2>3. b \in 0..(used - 1) /\ \A i \in 1..n : b + i \in 0..(used - 1)
    BY <2>2
  <2> QED
    BY <1>1, <2>1, <2>2, <2>3 DEF Encoded, EncodedNumber
<1>2. CASE arg.type \notin Numbers /\ Skipped(arg)
  BY <1>2 DEF Encoded
<1>3. CASE arg.type \notin Numbers /\ ~Skipped(arg)
  <2>1. PICK n \in Nat : n = arg.length
    BY <1>3, ArgumentsAssumption DEF Numbers
  <2>2. /\ e = b + n + 2 /\ old[b] = 7 /\ \A i \in 1..n : old[b + i] = <<value, i>>
        /\ old[b + n + 1] = NUL
    BY <1>3, <2>1 DEF Encoded, EncodedText
  <2>3. /\ b \in 0..(used - 1) /\ \A i \in 1..n : b + i \in 0..(used - 1)
        /\ b + n + 1 \in 0..(used - 1)
    BY <2>2
  <2>4. EncodedText(new, b, e, value, n)
    BY <2>2, <2>3 DEF EncodedText
  <2> QED
    BY <1>3, <2>1, <2>4 DEF Encoded
<1> QED
  BY <1>1, <1>2, <1>3

(* An argument takes up the cells it takes up. *)
LEMMA EncodedForward ==
  ASSUME NEW memory, NEW b \in Nat, NEW e, NEW value, NEW arg \in Arguments,
         Encoded(memory, b, e, value, arg)
  PROVE  e \in Nat /\ b <= e
<1>1. CASE arg.type \in Numbers
  <2>1. PICK n \in Nat : n = SizeOf[arg.type]
    BY <1>1, NumberTypes
  <2> QED
    BY <1>1, <2>1 DEF Encoded, EncodedNumber
<1>2. CASE arg.type \notin Numbers /\ Skipped(arg)
  BY <1>2 DEF Encoded
<1>3. CASE arg.type \notin Numbers /\ ~Skipped(arg)
  <2>1. PICK n \in Nat : n = arg.length
    BY <1>3, ArgumentsAssumption DEF Numbers
  <2> QED
    BY <1>3, <2>1 DEF Encoded, EncodedText
<1> QED
  BY <1>1, <1>2, <1>3

(* It holds of a line without arguments. *)
LEMMA LineInitial == LineInit => LineInv
<1> SUFFICES ASSUME LineInit PROVE LineInv
  OBVIOUS
<1>1. Sound(line)
  <2>1. PICK memory : memory = [i \in 0..(StackSize - 1) |-> IF i < HeaderSize THEN "header" ELSE Unset]
    OBVIOUS
  <2>2. line = [used |-> HeaderSize, size |-> StackSize, heap |-> FALSE, wild |-> FALSE,
                memory |-> memory]
    BY <2>1 DEF LineInit, NewLine
  <2>3. line \in [used : Nat, size : Nat, heap : BOOLEAN, wild : BOOLEAN, memory : {memory}]
    BY <2>2, BuffersAssumption
  <2>4. DOMAIN memory = 0..(StackSize - 1)
    BY <2>1
  <2> QED
    BY <2>2, <2>3, <2>4, BuffersAssumption DEF Sound
<1>2. args \in Seq(Arguments) /\ Len(args) = 0
  BY DEF LineInit
<1>3. line.used = HeaderSize /\ HeaderSize \in Nat
  BY BuffersAssumption DEF LineInit, NewLine
<1>4. PICK start : start = [k \in 1..1 |-> HeaderSize]
  OBVIOUS
<1>5. start \in [1..1 -> Nat] /\ start[1] = HeaderSize
  BY <1>3, <1>4
<1>6. Laid(line.memory, line.used, start, 0)
  BY <1>3, <1>5 DEF Laid
<1> QED
  BY <1>1, <1>2, <1>6 DEF LineInv

(* An argument more keeps it. *)
LEMMA LineStep == LineInv /\ [LineNext]_<<args, line>> => LineInv'
<1> SUFFICES ASSUME LineInv, [LineNext]_<<args, line>> PROVE LineInv'
  OBVIOUS
<1>1. CASE UNCHANGED <<args, line>>
  BY <1>1 DEF LineInv, Laid
<1>2. ASSUME NEW arg \in Arguments, Insert(arg) PROVE LineInv'
  <2>1. PICK n \in Nat : n = Len(args)
    BY DEF LineInv
  <2>2. /\ args' \in Seq(Arguments) /\ Len(args') = n + 1 /\ args'[n + 1] = arg
        /\ \A k \in 1..n : args'[k] = args[k] /\ args[k] \in Arguments
    BY <1>2, <2>1 DEF LineInv, Insert
  <2>3. /\ Sound(line') /\ Keeps(line, line')
        /\ Encoded(line'.memory, line.used, line'.used, n + 1, arg)
    BY <1>2, <2>1, ArgumentEncoded DEF LineInv, Insert
  <2>4. PICK used \in Nat, next \in Nat : used = line.used /\ next = line'.used
    BY <2>3 DEF LineInv, Sound
  <2>5. PICK start : Laid(line.memory, used, start, n)
    BY <2>1, <2>4 DEF LineInv
  <2>6. /\ start \in [1..(n + 1) -> Nat] /\ start[1] = HeaderSize /\ start[n + 1] = used
        /\ \A k \in 1..n : /\ start[k] <= start[k + 1] /\ start[k + 1] <= used
                           /\ Encoded(line.memory, start[k], start[k + 1], k, args[k])
    BY <2>5 DEF Laid
  <2>7. used <= next
    BY <2>3, <2>4, EncodedForward
  <2>8. PICK f : f = [k \in 1..(n + 2) |-> IF k = n + 2 THEN next ELSE start[k]]
    OBVIOUS
  <2>9. f \in [1..(n + 2) -> Nat] /\ f[n + 2] = next /\ \A k \in 1..(n + 1) : f[k] = start[k]
    <3>1. \A k \in 1..(n + 2) : k # n + 2 => k \in 1..(n + 1)
      OBVIOUS
    <3>2. \A k \in 1..(n + 1) : k \in 1..(n + 2) /\ k # n + 2
      OBVIOUS
    <3>3. \A k \in 1..(n + 2) : f[k] \in Nat
      BY <2>6, <2>8, <3>1
    <3>4. n + 2 \in 1..(n + 2)
      OBVIOUS
    <3> QED
      BY <2>8, <3>2, <3>3, <3>4
  <2>10. PICK memory : memory = line'.memory
    OBVIOUS
  <2>11. ASSUME NEW k \in 1..(n + 1)
         PROVE  f[k] <= f[k + 1] /\ f[k + 1] <= next /\ Encoded(memory, f[k], f[k + 1], k, args'[k])
    <3>1. CASE k = n + 1
      <4>1. f[k] = used /\ f[k + 1] = next
        <5>1. k + 1 = n + 2 /\ n + 1 \in 1..(n + 1)
          BY <3>1
        <5> QED
          BY <3>1, <5>1, <2>6, <2>9
      <4> QED
        BY <3>1, <4>1, <2>2, <2>3, <2>4, <2>7, <2>10
    <3>2. CASE k \in 1..n
      <4>1. k \in 1..(n + 1) /\ k + 1 \in 1..(n + 1)
        BY <3>2
      <4>2. PICK b \in Nat, e \in Nat : b = start[k] /\ e = start[k + 1]
        BY <2>6, <4>1
      <4>3. b <= e /\ e <= used /\ Encoded(line.memory, b, e, k, args[k])
        BY <2>6, <3>2, <4>2
      <4>4. \A i \in 0..(used - 1) : memory[i] = line.memory[i]
        BY <2>3, <2>4, <2>10 DEF Keeps
      <4>5. Encoded(memory, b, e, k, args[k])
        BY <2>2, <3>2, <4>3, <4>4, StaysEncoded
      <4>6. f[k] = b /\ f[k + 1] = e /\ args'[k] = args[k]
        BY <2>2, <2>9, <3>2, <4>1, <4>2
      <4> QED
        BY <4>3, <4>5, <4>6, <2>7
    <3> QED
      BY <3>1, <3>2
  <2>12. f[1] = HeaderSize
    BY <2>6, <2>9
  <2>13. Laid(memory, next, f, n + 1)'
    <3>1. (n + 1) + 1 = n + 2
      OBVIOUS
    <3> QED
      BY <2>9, <2>11, <2>12, <3>1 DEF Laid
  <2>14. Laid(line.memory, line.used, f, Len(args))'
    BY <2>2, <2>4, <2>10, <2>13 DEF Laid
  <2> QED
    BY <2>2, <2>3, <2>14 DEF LineInv, Sound
<1> QED
  BY <1>1, <1>2 DEF LineNext

-----------------------------------------------------------------------------
(* The text at b, by the text at later cells: the body of Decoded. *)
DecodeAt(text, b) ==
  IF b >= line.used \/ line.memory[b] \notin 0..(Len(SupportedTypes) - 1) THEN <<>>
  ELSE LET type == SupportedTypes[line.memory[b] + 1]
       IN IF type = "string" THEN Cells(b + 1, TextEnd(b + 1)) \o text[TextEnd(b + 1) + 1]
          ELSE <<<<type, Cells(b + 1, b + 1 + SizeOf[type])>>>> \o text[b + 1 + SizeOf[type]]
Decodes(text) == text = [b \in Nat |-> DecodeAt(text, b)]

(* Text ends somewhere before the end of what is used. *)
LEMMA TextEnds ==
  ASSUME line.used \in Nat, NEW b \in Nat, b <= line.used
  PROVE  /\ TextEnd(b) \in b..line.used
         /\ TextEnd(b) = line.used \/ line.memory[TextEnd(b)] = NUL
         /\ \A i \in b..(TextEnd(b) - 1) : line.memory[i] # NUL
<1>1. PICK T : T = {e \in b..line.used : e = line.used \/ line.memory[e] = NUL}
  OBVIOUS
<1>2. T \in SUBSET Nat /\ T # {}
  <2>1. line.used \in T
    BY <1>1
  <2>2. \A e \in T : e \in Nat
    BY <1>1
  <2> QED
    BY <2>1, <2>2
<1>3. PICK e \in T : \A i \in T : e <= i
  BY <1>2, LeastNumber
<1>4. e \in b..line.used /\ (e = line.used \/ line.memory[e] = NUL)
  BY <1>1
<1>5. \A i \in b..(e - 1) : line.memory[i] # NUL
  <2> SUFFICES ASSUME NEW i \in b..(e - 1), line.memory[i] = NUL PROVE FALSE
    OBVIOUS
  <2>1. i \in b..line.used /\ ~(e <= i)
    BY <1>4
  <2> QED
    BY <2>1, <1>1, <1>3
<1> QED
  BY <1>4, <1>5, Zenon DEF TextEnd

(* Text is decoded by the text at later cells only. *)
LEMMA DecodedForward ==
  ASSUME line.used \in Nat, NEW b \in Nat, NEW f, NEW g, \A i \in Nat : i > b => f[i] = g[i]
  PROVE  DecodeAt(f, b) = DecodeAt(g, b)
<1>1. CASE b >= line.used \/ line.memory[b] \notin 0..(Len(SupportedTypes) - 1)
  BY <1>1 DEF DecodeAt
<1>2. CASE ~(b >= line.used \/ line.memory[b] \notin 0..(Len(SupportedTypes) - 1))
  <2>1. b + 1 \in Nat /\ b + 1 <= line.used
    BY <1>2
  <2>2. line.memory[b] \in 0..7
    BY <1>2, TypeIds
  <2>3. PICK type : type = SupportedTypes[line.memory[b] + 1]
    OBVIOUS
  <2>4. CASE type = "string"
    <3>1. PICK e \in Nat : e = TextEnd(b + 1) + 1 /\ e > b
      <4>1. TextEnd(b + 1) \in (b + 1)..line.used
        BY <2>1, TextEnds
      <4> QED
        BY <4>1
    <3>2. f[e] = g[e]
      BY <3>1
    <3>3. DecodeAt(f, b) = Cells(b + 1, TextEnd(b + 1)) \o f[e]
      BY <1>2, <2>3, <2>4, <3>1, Zenon DEF DecodeAt
    <3>4. DecodeAt(g, b) = Cells(b + 1, TextEnd(b + 1)) \o g[e]
      BY <1>2, <2>3, <2>4, <3>1, Zenon DEF DecodeAt
    <3> QED
      BY <3>2, <3>3, <3>4
  <2>5. CASE type # "string"
    <3>1. type \in Numbers
      BY <2>2, <2>3, <2>5, TypeIds
    <3>2. PICK e \in Nat : e = b + 1 + SizeOf[type] /\ e > b
      <4>1. SizeOf[type] \in 1..8
        BY <3>1, NumberTypes
      <4> QED
        BY <4>1
    <3>3. f[e] = g[e]
      BY <3>2
    <3>4. DecodeAt(f, b) = <<<<type, Cells(b + 1, b + 1 + SizeOf[type])>>>> \o f[e]
      BY <1>2, <2>3, <2>5, <3>2, Zenon DEF DecodeAt
    <3>5. DecodeAt(g, b) = <<<<type, Cells(b + 1, b + 1 + SizeOf[type])>>>> \o g[e]
      BY <1>2, <2>3, <2>5, <3>2, Zenon DEF DecodeAt
    <3> QED
      BY <3>3, <3>4, <3>5
  <2> QED
    BY <2>4, <2>5
<1> QED
  BY <1>1, <1>2

(* The decoder is defined: from the end of the line backwards. *)
LEMMA DecoderDefined ==
  ASSUME line.used \in Nat
  PROVE  Decodes(Decoded)
<1>1. PICK used \in Nat : used = line.used
  OBVIOUS
<1> DEFINE From(n, f) == /\ f = [b \in Nat |-> f[b]]
                         /\ \A b \in Nat : b >= n => f[b] = DecodeAt(f, b)
<1>2. PICK T : T = {n \in Nat : \E f : From(n, f)}
  OBVIOUS
<1>3. used \in T
  <2>1. PICK f : f = [b \in Nat |-> <<>>]
    OBVIOUS
  <2>2. \A b \in Nat : b >= used => DecodeAt(f, b) = <<>>
    BY <1>1 DEF DecodeAt
  <2>3. f = [b \in Nat |-> f[b]] /\ \A b \in Nat : f[b] = <<>>
    BY <2>1
  <2>4. From(used, f)
    BY <2>2, <2>3
  <2> QED
    BY <1>2, <2>4
<1>4. PICK n \in T : \A m \in T : n <= m
  <2>1. T \in SUBSET Nat
    BY <1>2
  <2> QED
    BY <1>3, <2>1, LeastNumber
<1>5. n \in Nat
  BY <1>2
<1>6. PICK f : From(n, f)
  BY <1>2
<1>7. n = 0
  <2> SUFFICES ASSUME n # 0 PROVE FALSE
    OBVIOUS
  <2>1. PICK p \in Nat : p = n - 1 /\ ~(n <= p) /\ p < n
    BY <1>5
  <2>2. PICK new : new = DecodeAt(f, p)
    OBVIOUS
  <2>3. PICK g : g = [b \in Nat |-> IF b = p THEN new ELSE f[b]]
    OBVIOUS
  <2>4. g[p] = new /\ \A b \in Nat : b # p => g[b] = f[b]
    BY <2>3
  <2>5. g = [b \in Nat |-> g[b]]
    BY <2>3
  <2>6. ASSUME NEW b \in Nat, b >= p PROVE g[b] = DecodeAt(g, b)
    <3>1. \A i \in Nat : i > b => f[i] = g[i]
      BY <2>4, <2>6
    <3>2. DecodeAt(f, b) = DecodeAt(g, b)
      BY <1>1, <3>1, DecodedForward
    <3>3. CASE b = p
      BY <3>2, <3>3, <2>2, <2>4
    <3>4. CASE b # p
      <4>1. b >= n
        BY <2>1, <2>6, <3>4, <1>5
      <4>2. f[b] = DecodeAt(f, b)
        BY <1>6, <4>1
      <4> QED
        BY <2>4, <3>2, <3>4, <4>2
    <3> QED
      BY <3>3, <3>4
  <2>7. From(p, g)
    BY <2>5, <2>6
  <2>8. p \in T
    BY <1>2, <2>7
  <2> QED
    BY <1>4, <2>1, <2>8
<1>8. f = [b \in Nat |-> DecodeAt(f, b)]
  <2>1. f = [b \in Nat |-> f[b]] /\ \A b \in Nat : f[b] = DecodeAt(f, b)
    BY <1>6, <1>7
  <2>2. PICK g : g = [b \in Nat |-> DecodeAt(f, b)]
    OBVIOUS
  <2>3. DOMAIN f = Nat /\ DOMAIN g = Nat /\ \A b \in Nat : f[b] = g[b]
    BY <2>1, <2>2
  <2>4. g = [b \in Nat |-> g[b]]
    BY <2>2
  <2>5. f = g
    BY <2>1, <2>3, <2>4
  <2> QED
    BY <2>2, <2>5
<1>9. \E h : Decodes(h)
  BY <1>8 DEF Decodes
<1>10. Decoded = CHOOSE h : Decodes(h)
  BY Zenon DEF Decoded, Decodes, DecodeAt
<1> QED
  BY <1>9, <1>10, Zenon

(* Decoding from a place is one step and the decoding from where that ends. *)
LEMMA DecodedAt ==
  ASSUME line.used \in Nat, NEW b \in Nat
  PROVE  Decoded[b] = DecodeAt(Decoded, b)
<1>1. PICK f : f = Decoded
  OBVIOUS
<1>2. f = [i \in Nat |-> DecodeAt(f, i)]
  BY <1>1, DecoderDefined DEF Decodes
<1>3. PICK g : g = [i \in Nat |-> DecodeAt(f, i)]
  OBVIOUS
<1>4. g[b] = DecodeAt(f, b)
  BY <1>3
<1> QED
  BY <1>1, <1>2, <1>3, <1>4

-----------------------------------------------------------------------------
(* An encoded argument is decoded as the text of its value. *)
DecodedAs(b, text, e) == Decoded[b] = text \o Decoded[e]

(* A number that was encoded is decoded as its bytes. *)
LEMMA NumberDecoded ==
  ASSUME line.used \in Nat, NEW b \in Nat, NEW e \in Nat, e <= line.used,
         NEW value, NEW type \in Numbers, EncodedNumber(line.memory, b, e, value, type)
  PROVE  DecodedAs(b, <<<<type, BytesOf(value, SizeOf[type])>>>>, e)
<1>1. PICK n \in 1..8 : n = SizeOf[type]
  BY NumberTypes
<1>2. e = b + 1 + n /\ line.memory[b] = TypeId(type) /\ \A i \in 1..n : line.memory[b + i] = <<value, i>>
  BY <1>1 DEF EncodedNumber
<1>3. /\ ~(b >= line.used \/ line.memory[b] \notin 0..(Len(SupportedTypes) - 1))
      /\ SupportedTypes[line.memory[b] + 1] = type /\ type # "string"
  BY <1>2, TypeIds
<1>4. Cells(b + 1, e) = BytesOf(value, n)
  <2>1. e - (b + 1) = n
    BY <1>2
  <2>2. \A i \in 1..n : b + 1 + i - 1 = b + i
    OBVIOUS
  <2> QED
    BY <1>2, <2>1, <2>2 DEF Cells, BytesOf
<1>5. DecodeAt(Decoded, b) = <<<<type, Cells(b + 1, e)>>>> \o Decoded[e]
  BY <1>1, <1>2, <1>3, Zenon DEF DecodeAt
<1> QED
  BY <1>1, <1>4, <1>5, DecodedAt DEF DecodedAs

(* Text that was encoded is decoded up to its terminator, which none of it is. *)
LEMMA TextDecoded ==
  ASSUME line.used \in Nat, NEW b \in Nat, NEW e \in Nat, e <= line.used,
         NEW n \in Nat,
         NEW value \in Nat \ {0}, EncodedText(line.memory, b, e, value, n)
  PROVE  DecodedAs(b, BytesOf(value, n), e)
<1>1. /\ e = b + n + 2 /\ line.memory[b] = 7 /\ \A i \in 1..n : line.memory[b + i] = <<value, i>>
      /\ line.memory[b + n + 1] = NUL
  BY DEF EncodedText
<1>2. /\ ~(b >= line.used \/ line.memory[b] \notin 0..(Len(SupportedTypes) - 1))
      /\ SupportedTypes[line.memory[b] + 1] = "string"
  BY <1>1, TypeIds
<1>3. PICK end : end = TextEnd(b + 1)
  OBVIOUS
<1>4. /\ end \in (b + 1)..line.used /\ (end = line.used \/ line.memory[end] = NUL)
      /\ \A i \in (b + 1)..(end - 1) : line.memory[i] # NUL
  <2>1. b + 1 \in Nat /\ b + 1 <= line.used
    BY <1>1
  <2> QED
    BY <1>3, <2>1, TextEnds
<1>5. \A i \in 1..n : line.memory[b + i] # NUL
  BY <1>1 DEF NUL
<1>6. end = b + n + 1
  <2>1. ~(end > b + n + 1)
    <3> SUFFICES ASSUME end > b + n + 1 PROVE FALSE
      OBVIOUS
    <3>1. b + n + 1 \in (b + 1)..(end - 1)
      BY <1>4
    <3> QED
      BY <3>1, <1>1, <1>4
  <2>2. ~(end < b + n + 1)
    <3> SUFFICES ASSUME end < b + n + 1 PROVE FALSE
      OBVIOUS
    <3>1. PICK i \in 1..n : end = b + i
      <4>1. end - b \in 1..n /\ end = b + (end - b)
        BY <1>4
      <4> QED
        BY <4>1
    <3>2. end # line.used
      BY <1>1
    <3> QED
      BY <3>1, <3>2, <1>4, <1>5
  <2> QED
    BY <2>1, <2>2, <1>4
<1>7. Cells(b + 1, end) = BytesOf(value, n)
  <2>1. end - (b + 1) = n
    BY <1>6
  <2>2. \A i \in 1..n : b + 1 + i - 1 = b + i
    OBVIOUS
  <2> QED
    BY <1>1, <2>1, <2>2 DEF Cells, BytesOf
<1>8. end + 1 = e
  BY <1>1, <1>6
<1>9. DecodeAt(Decoded, b) = Cells(b + 1, end) \o Decoded[end + 1]
  BY <1>2, <1>3, Zenon DEF DecodeAt
<1> QED
  BY <1>7, <1>8, <1>9, DecodedAt DEF DecodedAs

(* An argument that was encoded is decoded, and one that was skipped adds nothing. *)
LEMMA ArgumentDecoded ==
  ASSUME line.used \in Nat, NEW b \in Nat, NEW e \in Nat, e <= line.used,
         NEW value \in Nat \ {0}, NEW arg \in Arguments,
         Encoded(line.memory, b, e, value, arg)
  PROVE  (b = e /\ Text(value, arg) = <<>>) \/ DecodedAs(b, Text(value, arg), e)
<1>1. CASE arg.type \in Numbers
  BY <1>1, NumberDecoded DEF Encoded, Text, Numbers
<1>2. CASE arg.type \notin Numbers /\ Skipped(arg)
  BY <1>2 DEF Encoded, Text, Numbers, Skipped, BytesOf
<1>3. CASE arg.type \notin Numbers /\ ~Skipped(arg)
  <2>1. PICK n \in Nat : n = arg.length
    BY <1>3, ArgumentsAssumption DEF Numbers
  <2>2. EncodedText(line.memory, b, e, value, n) /\ Text(value, arg) = BytesOf(value, n)
    BY <1>3, <2>1 DEF Encoded, Text, Numbers
  <2> QED
    BY <2>2, TextDecoded
<1> QED
  BY <1>1, <1>2, <1>3

-----------------------------------------------------------------------------
(* FlattenSeq() joins sequences one after another. *)
Joins(flat, texts, n) ==
  flat = [i \in 1..n |-> IF i = 1 THEN texts[i] ELSE flat[i - 1] \o texts[i]]

(* Any texts can be joined: by the least number of texts that could not. *)
LEMMA JoinsExists ==
  ASSUME NEW n \in Nat, NEW texts
  PROVE  \E flat : Joins(flat, texts, n)
<1> DEFINE To(m, f) == /\ f = [i \in 1..n |-> f[i]]
                       /\ \A i \in 1..n : i <= m => f[i] = IF i = 1 THEN texts[i] ELSE f[i - 1] \o texts[i]
<1>1. PICK T : T = {m \in Nat : m <= n /\ ~\E f : To(m, f)}
  OBVIOUS
<1>2. T = {}
  <2> SUFFICES ASSUME T # {} PROVE FALSE
    OBVIOUS
  <2>1. PICK m \in T : \A k \in T : m <= k
    <3>1. T \in SUBSET Nat
      BY <1>1
    <3> QED
      BY <3>1, LeastNumber
  <2>2. m \in Nat /\ m <= n /\ ~\E f : To(m, f)
    BY <1>1
  <2>3. m # 0
    <3>1. PICK f : f = [i \in 1..n |-> {}]
      OBVIOUS
    <3>2. f = [i \in 1..n |-> f[i]]
      BY <3>1
    <3>3. \A i \in 1..n : ~(i <= 0)
      OBVIOUS
    <3>4. To(0, f)
      BY <3>2, <3>3, Zenon
    <3> QED
      BY <2>2, <3>4
  <2>4. PICK p \in Nat : p = m - 1 /\ ~(m <= p) /\ p <= n
    BY <2>2, <2>3
  <2>5. PICK f : To(p, f)
    BY <2>1, <2>4, <1>1
  <2>6. PICK new : new = IF m = 1 THEN texts[m] ELSE f[p] \o texts[m]
    OBVIOUS
  <2>7. PICK g : g = [i \in 1..n |-> IF i = m THEN new ELSE f[i]]
    OBVIOUS
  <2>8. m \in 1..n /\ g[m] = new /\ \A i \in 1..n : i # m => g[i] = f[i]
    BY <2>2, <2>3, <2>7
  <2>9. g = [i \in 1..n |-> g[i]]
    BY <2>7
  <2>10. ASSUME NEW i \in 1..n, i <= m
         PROVE  g[i] = IF i = 1 THEN texts[i] ELSE g[i - 1] \o texts[i]
    <3>1. i # 1 => i - 1 \in 1..n /\ i - 1 # m
      BY <2>2, <2>10
    <3>2. CASE i = m
      <4>1. i # 1 => g[i - 1] = f[p]
        BY <2>4, <2>8, <3>1, <3>2
      <4> QED
        BY <2>6, <2>8, <3>2, <4>1
    <3>3. CASE i # m
      <4>1. i <= p
        BY <2>2, <2>4, <2>10, <3>3
      <4>2. f[i] = IF i = 1 THEN texts[i] ELSE f[i - 1] \o texts[i]
        BY <2>5, <4>1
      <4> QED
        BY <2>8, <3>1, <3>3, <4>2
    <3> QED
      BY <3>2, <3>3
  <2>11. To(m, g)
    BY <2>9, <2>10
  <2> QED
    BY <2>2, <2>11
<1>3. PICK f : To(n, f)
  <2>1. n \notin T
    BY <1>2
  <2> QED
    BY <1>1, <2>1
<1>4. PICK g : g = [i \in 1..n |-> IF i = 1 THEN texts[i] ELSE f[i - 1] \o texts[i]]
  OBVIOUS
<1>5. \A i \in 1..n : f[i] = g[i]
  <2> SUFFICES ASSUME NEW i \in 1..n PROVE f[i] = g[i]
    OBVIOUS
  <2>1. i <= n
    OBVIOUS
  <2>2. f[i] = IF i = 1 THEN texts[i] ELSE f[i - 1] \o texts[i]
    BY <1>3, <2>1
  <2> QED
    BY <1>4, <2>2
<1>6. f = [i \in 1..n |-> f[i]] /\ g = [i \in 1..n |-> g[i]]
  BY <1>3, <1>4
<1>7. f = g
  BY <1>5, <1>6
<1>8. Joins(f, texts, n)
  BY <1>4, <1>7 DEF Joins
<1> QED
  BY <1>8

(* FlattenSeq() is the last of these joins. *)
LEMMA Flattened ==
  ASSUME NEW n \in Nat, n # 0, NEW texts, Len(texts) = n
  PROVE  \E flat : Joins(flat, texts, n) /\ FlattenSeq(texts) = flat[n]
<1>1. PICK flat : flat = CHOOSE f : Joins(f, texts, n)
  OBVIOUS
<1>2. Joins(flat, texts, n)
  BY <1>1, JoinsExists, Zenon
<1>3. FlattenSeq(texts) = flat[n]
  <2>1. ~(Len(texts) = 0)
    OBVIOUS
  <2>2. FlattenSeq(texts)
          = (CHOOSE f : f = [i \in 1..Len(texts) |-> IF i = 1 THEN texts[i] ELSE f[i - 1] \o texts[i]])[Len(texts)]
    BY <2>1, Zenon DEF FlattenSeq
  <2> QED
    BY <1>1, <2>2, Zenon DEF Joins
<1> QED
  BY <1>2, <1>3

JoinedOneByOne(flat, texts, n, S) ==
  /\ n # 0 => flat[1] = texts[1]
  /\ \A i \in 1..n : i # 1 => flat[i] = flat[i - 1] \o texts[i]
  /\ \A i \in 1..n : flat[i] \in Seq(S)

(* Each join adds one text to the join before. *)
LEMMA JoinsValues ==
  ASSUME NEW n \in Nat, NEW S, NEW texts \in [1..n -> Seq(S)], NEW flat, Joins(flat, texts, n)
  PROVE  JoinedOneByOne(flat, texts, n, S)
<1>1. PICK g : g = flat /\ flat = [i \in 1..n |-> IF i = 1 THEN texts[i] ELSE g[i - 1] \o texts[i]]
  BY DEF Joins
<1>2. \A i \in 1..n : flat[i] = IF i = 1 THEN texts[i] ELSE g[i - 1] \o texts[i]
  BY <1>1
<1>3. n # 0 => flat[1] = texts[1]
  BY <1>2
<1>4. \A i \in 1..n : i # 1 => flat[i] = flat[i - 1] \o texts[i]
  BY <1>1, <1>2
<1>5. \A i \in 1..n : flat[i] \in Seq(S)
  <2>1. PICK T : T = {i \in 1..n : flat[i] \notin Seq(S)}
    OBVIOUS
  <2> SUFFICES ASSUME T # {} PROVE FALSE
    BY <2>1
  <2>2. PICK m \in T : \A k \in T : m <= k
    <3>1. T \in SUBSET Nat
      BY <2>1
    <3> QED
      BY <3>1, LeastNumber
  <2>3. m \in 1..n /\ flat[m] \notin Seq(S)
    BY <2>1
  <2>4. m # 1
    BY <1>3, <2>3
  <2>5. m - 1 \in 1..n /\ ~(m <= m - 1)
    BY <2>3, <2>4
  <2>6. flat[m - 1] \in Seq(S)
    BY <2>1, <2>2, <2>5
  <2>7. flat[m - 1] \o texts[m] \in Seq(S)
    BY <2>3, <2>6, ConcatProperties
  <2> QED
    BY <1>4, <2>3, <2>4, <2>7
<1> QED
  BY <1>3, <1>4, <1>5 DEF JoinedOneByOne

-----------------------------------------------------------------------------
(* The text of an argument is a sequence. *)
LEMMA TextTyped ==
  ASSUME NEW value, NEW arg \in Arguments
  PROVE  \E S : Text(value, arg) \in Seq(S)
<1>1. CASE arg.type \in Numbers
  <2>1. PICK x : Text(value, arg) = <<x>>
    BY <1>1 DEF Text, Numbers
  <2>2. <<x>> \in Seq({x})
    OBVIOUS
  <2> QED
    BY <2>1, <2>2
<1>2. CASE arg.type \notin Numbers
  <2>1. PICK n \in Nat : n = arg.length
    BY <1>2, ArgumentsAssumption DEF Numbers
  <2>2. PICK text : text = [i \in 1..n |-> <<value, i>>]
    OBVIOUS
  <2>3. text \in [1..n -> {text[i] : i \in 1..n}]
    BY <2>2
  <2>4. text \in Seq({text[i] : i \in 1..n})
    BY <2>3
  <2>5. Text(value, arg) = text
    BY <1>2, <2>1, <2>2 DEF Text, Numbers, BytesOf
  <2> QED
    BY <2>4, <2>5
<1> QED
  BY <1>1, <1>2

(* The texts of the arguments are sequences over one set. *)
LEMMA TextsTyped ==
  ASSUME args \in Seq(Arguments)
  PROVE  \E S : \A k \in 1..Len(args) : Text(k, args[k]) \in Seq(S)
<1>1. PICK f : f = [k \in 1..Len(args) |-> CHOOSE S : Text(k, args[k]) \in Seq(S)]
  OBVIOUS
<1>2. PICK S : S = UNION {f[k] : k \in 1..Len(args)}
  OBVIOUS
<1>3. ASSUME NEW k \in 1..Len(args) PROVE Text(k, args[k]) \in Seq(S)
  <2>1. args[k] \in Arguments
    OBVIOUS
  <2>2. \E s : Text(k, args[k]) \in Seq(s)
    BY <2>1, TextTyped
  <2>3. Text(k, args[k]) \in Seq(f[k])
    BY <1>1, <2>2
  <2>4. f[k] \subseteq S
    BY <1>2
  <2> QED
    BY <2>3, <2>4
<1> QED
  BY <1>3

(* From every argument on, a line is decoded as a sequence. *)
LEMMA DecodedTyped ==
  ASSUME LineInv, NEW n \in Nat, n = Len(args), NEW start, Laid(line.memory, line.used, start, n),
         NEW S, \A k \in 1..n : Text(k, args[k]) \in Seq(S)
  PROVE  /\ Decoded[line.used] = <<>>
         /\ \A k \in 1..(n + 1) : start[k] \in Nat /\ Decoded[start[k]] \in Seq(S)
         /\ \A k \in 1..n : \/ start[k] = start[k + 1] /\ Text(k, args[k]) = <<>>
                            \/ DecodedAs(start[k], Text(k, args[k]), start[k + 1])
<1>1. line.used \in Nat
  BY DEF LineInv, Sound
<1>2. /\ start \in [1..(n + 1) -> Nat] /\ start[n + 1] = line.used
      /\ \A k \in 1..n : start[k + 1] <= line.used /\ Encoded(line.memory, start[k], start[k + 1], k, args[k])
  BY DEF Laid
<1>3. Decoded[line.used] = <<>>
  <2>1. DecodeAt(Decoded, line.used) = <<>>
    BY <1>1 DEF DecodeAt
  <2> QED
    BY <1>1, <2>1, DecodedAt
<1>4. ASSUME NEW k \in 1..n
      PROVE  \/ start[k] = start[k + 1] /\ Text(k, args[k]) = <<>>
             \/ DecodedAs(start[k], Text(k, args[k]), start[k + 1])
  <2>1. k \in 1..(n + 1) /\ k + 1 \in 1..(n + 1) /\ k \in Nat \ {0}
    OBVIOUS
  <2>2. PICK b \in Nat, e \in Nat : b = start[k] /\ e = start[k + 1]
    BY <1>2, <2>1
  <2>3. PICK arg \in Arguments : arg = args[k]
    BY DEF LineInv
  <2> QED
    BY <1>1, <1>2, <2>1, <2>2, <2>3, ArgumentDecoded
<1>5. \A k \in 1..(n + 1) : Decoded[start[k]] \in Seq(S)
  <2>1. PICK T : T = {j \in 0..n : Decoded[start[n + 1 - j]] \notin Seq(S)}
    OBVIOUS
  <2>2. T = {}
    <3> SUFFICES ASSUME T # {} PROVE FALSE
      OBVIOUS
    <3>1. PICK j \in T : \A i \in T : j <= i
      <4>1. T \in SUBSET Nat
        BY <2>1
      <4> QED
        BY <4>1, LeastNumber
    <3>2. j \in 0..n /\ Decoded[start[n + 1 - j]] \notin Seq(S)
      BY <2>1
    <3>3. j # 0
      <4>1. <<>> \in Seq(S)
        OBVIOUS
      <4>2. n + 1 - 0 = n + 1
        OBVIOUS
      <4> QED
        BY <1>2, <1>3, <3>2, <4>1, <4>2
    <3>4. PICK k \in 1..n : k = n + 1 - j /\ k + 1 = n + 1 - (j - 1) /\ j - 1 \in 0..n /\ ~(j <= j - 1)
      BY <3>2, <3>3
    <3>5. Decoded[start[k + 1]] \in Seq(S)
      BY <2>1, <3>1, <3>4
    <3>6. Decoded[start[k]] \in Seq(S)
      <4>1. CASE start[k] = start[k + 1]
        BY <3>5, <4>1
      <4>2. CASE DecodedAs(start[k], Text(k, args[k]), start[k + 1])
        <5>1. PICK text \in Seq(S) : text = Text(k, args[k])
          OBVIOUS
        <5>2. PICK rest \in Seq(S) : rest = Decoded[start[k + 1]]
          BY <3>5
        <5>3. text \o rest \in Seq(S)
          BY ConcatProperties
        <5> QED
          BY <4>2, <5>1, <5>2, <5>3 DEF DecodedAs
      <4> QED
        BY <1>4, <4>1, <4>2
    <3> QED
      BY <3>2, <3>4, <3>6
  <2> SUFFICES ASSUME NEW k \in 1..(n + 1) PROVE Decoded[start[k]] \in Seq(S)
    OBVIOUS
  <2>3. n + 1 - k \in 0..n /\ n + 1 - (n + 1 - k) = k
    OBVIOUS
  <2> QED
    BY <2>1, <2>2, <2>3
<1>6. \A k \in 1..(n + 1) : start[k] \in Nat
  BY <1>2
<1> QED
  BY <1>3, <1>4, <1>5, <1>6

(* The text so far, followed by what is decoded from there on, is the line's. *)
LEMMA DecodedSoFar ==
  ASSUME LineInv, NEW n \in Nat, n = Len(args), n # 0
  PROVE  stringify = FlattenSeq([k \in DOMAIN args |-> Text(k, args[k])])
<1>1. PICK S : \A k \in 1..n : Text(k, args[k]) \in Seq(S)
  BY TextsTyped DEF LineInv
<1>2. PICK start : Laid(line.memory, line.used, start, n)
  BY DEF LineInv
<1>3. PICK texts : texts = [k \in 1..n |-> Text(k, args[k])]
  OBVIOUS
<1>4. texts \in [1..n -> Seq(S)] /\ Len(texts) = n
  BY <1>1, <1>3
<1>5. PICK flat : Joins(flat, texts, n) /\ FlattenSeq(texts) = flat[n]
  BY <1>4, Flattened
<1>6. /\ flat[1] = texts[1]
      /\ \A i \in 1..n : i # 1 => flat[i] = flat[i - 1] \o texts[i]
      /\ \A i \in 1..n : flat[i] \in Seq(S)
  <2>1. JoinedOneByOne(flat, texts, n, S)
    BY <1>4, <1>5, JoinsValues
  <2> QED
    BY <2>1 DEF JoinedOneByOne
<1>7. PICK rest : rest = [k \in 1..(n + 1) |-> Decoded[start[k]]]
  OBVIOUS
<1>8. /\ \A k \in 1..(n + 1) : rest[k] \in Seq(S)
      /\ \A k \in 1..n : rest[k] = texts[k] \o rest[k + 1]
      /\ rest[1] = stringify /\ rest[n + 1] = <<>>
  <2>1. /\ Decoded[line.used] = <<>>
        /\ \A k \in 1..(n + 1) : Decoded[start[k]] \in Seq(S)
        /\ \A k \in 1..n : \/ start[k] = start[k + 1] /\ Text(k, args[k]) = <<>>
                           \/ DecodedAs(start[k], Text(k, args[k]), start[k + 1])
    BY <1>1, <1>2, DecodedTyped
  <2>2. start[1] = HeaderSize /\ start[n + 1] = line.used
    BY <1>2 DEF Laid
  <2>3. 1 \in 1..(n + 1) /\ n + 1 \in 1..(n + 1)
    OBVIOUS
  <2>4. \A k \in 1..(n + 1) : rest[k] = Decoded[start[k]]
    BY <1>7
  <2>5. ASSUME NEW k \in 1..n PROVE rest[k] = texts[k] \o rest[k + 1]
    <3>1. k \in 1..(n + 1) /\ k + 1 \in 1..(n + 1)
      OBVIOUS
    <3>2. PICK after \in Seq(S) : after = Decoded[start[k + 1]]
      BY <2>1, <3>1
    <3>3. rest[k] = Decoded[start[k]] /\ rest[k + 1] = after /\ texts[k] = Text(k, args[k])
      BY <1>3, <2>4, <3>1, <3>2
    <3>4. CASE start[k] = start[k + 1] /\ Text(k, args[k]) = <<>>
      <4>1. <<>> \o after = after
        BY ConcatEmptySeq
      <4> QED
        BY <3>2, <3>3, <3>4, <4>1
    <3>5. CASE DecodedAs(start[k], Text(k, args[k]), start[k + 1])
      BY <3>2, <3>3, <3>5 DEF DecodedAs
    <3> QED
      BY <2>1, <3>4, <3>5
  <2> QED
    BY <2>1, <2>2, <2>3, <2>4, <2>5 DEF stringify
<1> DEFINE SoFar(k) == rest[1] = flat[k] \o rest[k + 1]
<1> HIDE DEF SoFar
<1>9. \A k \in 1..n : SoFar(k)
  <2>1. PICK T : T = {k \in 1..n : ~SoFar(k)}
    OBVIOUS
  <2> SUFFICES ASSUME T # {} PROVE FALSE
    BY <2>1
  <2>2. PICK m \in T : \A k \in T : m <= k
    <3>1. T \in SUBSET Nat
      BY <2>1
    <3> QED
      BY <3>1, LeastNumber
  <2>3. m \in 1..n /\ ~SoFar(m)
    BY <2>1
  <2>4. m # 1
    <3> SUFFICES ASSUME m = 1 PROVE FALSE
      OBVIOUS
    <3>1. rest[1] = texts[1] \o rest[1 + 1]
      BY <1>8, <2>3
    <3> QED
      BY <1>6, <2>3, <3>1 DEF SoFar
  <2>5. PICK p \in 1..n : p = m - 1 /\ p + 1 = m /\ ~(m <= p)
    BY <2>3, <2>4
  <2>6. rest[1] = flat[p] \o rest[m]
    <3>1. SoFar(p)
      BY <2>1, <2>2, <2>5
    <3> QED
      BY <3>1, <2>5 DEF SoFar
  <2>7. rest[m] = texts[m] \o rest[m + 1] /\ flat[m] = flat[p] \o texts[m]
    BY <1>6, <1>8, <2>3, <2>4, <2>5
  <2>8. PICK a \in Seq(S), b \in Seq(S), c \in Seq(S) : a = flat[p] /\ b = texts[m] /\ c = rest[m + 1]
    <3>1. m + 1 \in 1..(n + 1) /\ m \in 1..n
      BY <2>3
    <3>2. flat[p] \in Seq(S)
      BY <1>6
    <3>3. rest[m + 1] \in Seq(S)
      BY <1>8, <3>1
    <3>4. texts[m] \in Seq(S)
      BY <1>4, <3>1
    <3> QED
      BY <3>2, <3>3, <3>4
  <2>9. (a \o b) \o c = a \o (b \o c)
    BY ConcatAssociative
  <2>10. rest[1] = flat[m] \o rest[m + 1]
    BY <2>6, <2>7, <2>8, <2>9
  <2> QED
    BY <2>3, <2>10 DEF SoFar
<1>10. rest[1] = flat[n]
  <2>1. rest[1] = flat[n] \o rest[n + 1]
    <3>1. n \in 1..n
      OBVIOUS
    <3> QED
      BY <1>9, <3>1 DEF SoFar
  <2>2. PICK a \in Seq(S) : a = flat[n]
    BY <1>6
  <2>3. a \o <<>> = a
    BY ConcatEmptySeq
  <2> QED
    BY <1>8, <2>1, <2>2, <2>3
<1>11. texts = [k \in DOMAIN args |-> Text(k, args[k])]
  BY <1>3 DEF LineInv
<1> QED
  BY <1>5, <1>8, <1>10, <1>11

(* The log shows the texts of the arguments, in their order. *)
LEMMA LineRestored == LineInv => LinesRestored
<1> SUFFICES ASSUME LineInv PROVE LinesRestored
  OBVIOUS
<1>1. PICK n \in Nat : n = Len(args)
  BY DEF LineInv
<1>2. ~line.wild
  BY DEF LineInv, Sound
<1>3. PICK texts : texts = [k \in DOMAIN args |-> Text(k, args[k])]
  OBVIOUS
<1>4. CASE n = 0
  <2>1. texts = <<>>
    <3>1. DOMAIN args = 1..0
      <4>1. PICK s \in Seq(Arguments) : s = args
        BY DEF LineInv
      <4>2. Len(s) = 0
        BY <1>1, <1>4, <4>1
      <4> QED
        BY <4>1, <4>2
    <3>2. texts \in [1..0 -> Nat]
      BY <1>3, <3>1
    <3>3. texts \in Seq(Nat) /\ Len(texts) = 0
      BY <3>2
    <3> QED
      BY <3>3, EmptySeq
  <2>2. FlattenSeq(texts) = <<>>
    BY <2>1 DEF FlattenSeq
  <2>3. PICK start : Laid(line.memory, line.used, start, 0)
    BY <1>1, <1>4 DEF LineInv
  <2>4. HeaderSize = line.used /\ line.used \in Nat
    BY <2>3 DEF Laid, LineInv, Sound
  <2>5. DecodeAt(Decoded, line.used) = <<>>
    BY <2>4 DEF DecodeAt
  <2>6. stringify = <<>>
    BY <2>4, <2>5, DecodedAt DEF stringify
  <2> QED
    BY <1>2, <1>3, <2>2, <2>6 DEF LinesRestored
<1>5. CASE n # 0
  <2>1. stringify = FlattenSeq(texts)
    BY <1>1, <1>3, <1>5, DecodedSoFar
  <2> QED
    BY <1>2, <1>3, <2>1 DEF LinesRestored
<1> QED
  BY <1>4, <1>5

(* Whatever the sizes of the buffers, of the arguments and of the line, the logger's
   thread prints what was passed, and no thread writes past its buffer.           *)
THEOREM LinesHold == LineSpec => []LinesRestored
<1>1. LineSpec => []LineInv
  BY LineInitial, LineStep, PTL DEF LineSpec
<1> QED
  BY <1>1, LineRestored, PTL
-----------------------------------------------------------------------------
(* A text is a sequence of characters.  The provers do not know that a literal is a
   string: those that records are made of are named.                           *)
Char == STRING \cup {"\\", "\"", ",", "=", " ", "\n", "\r", "?", "_", "1", "GET", "name", "time",
                    "method", "resource", "ipaddress", "mimeType", "size", "status", "latitude",
                    "longitude", "city", "continent", "country", "country_iso_code", "subdivision"}

(* A reader's state after each character of a text. *)
Reads(upTo, text, separator, n) ==
  upTo = [i \in 0..n |-> IF i = 0 THEN Start ELSE Step(upTo[i - 1], text[i], separator)]

(* There is such a function, by the least number of characters that had none. *)
LEMMA ReadsExists ==
  ASSUME NEW n \in Nat, NEW text, NEW separator
  PROVE  \E upTo : Reads(upTo, text, separator, n)
<1> DEFINE To(m, f) == /\ f = [i \in 0..n |-> f[i]]
                       /\ f[0] = Start
                       /\ \A i \in 1..n : i <= m => f[i] = Step(f[i - 1], text[i], separator)
<1>1. PICK T : T = {m \in Nat : m <= n /\ ~\E f : To(m, f)}
  OBVIOUS
<1>2. T = {}
  <2> SUFFICES ASSUME T # {} PROVE FALSE
    OBVIOUS
  <2>1. PICK m \in T : \A k \in T : m <= k
    <3>1. T \in SUBSET Nat
      BY <1>1
    <3> QED
      BY <3>1, LeastNumber
  <2>2. m \in Nat /\ m <= n /\ ~\E f : To(m, f)
    BY <1>1
  <2>3. m # 0
    <3>1. PICK f : f = [i \in 0..n |-> Start]
      OBVIOUS
    <3>2. f = [i \in 0..n |-> f[i]] /\ f[0] = Start
      BY <3>1
    <3>3. \A i \in 1..n : ~(i <= 0)
      OBVIOUS
    <3>4. To(0, f)
      BY <3>2, <3>3, Zenon
    <3> QED
      BY <2>2, <3>4
  <2>4. PICK p \in Nat : p = m - 1 /\ ~(m <= p) /\ p <= n
    BY <2>2, <2>3
  <2>5. PICK f : To(p, f)
    BY <2>1, <2>4, <1>1
  <2>6. PICK new : new = Step(f[p], text[m], separator)
    OBVIOUS
  <2>7. PICK g : g = [i \in 0..n |-> IF i = m THEN new ELSE f[i]]
    OBVIOUS
  <2>8. m \in 1..n /\ g[m] = new /\ \A i \in 0..n : i # m => g[i] = f[i]
    BY <2>2, <2>3, <2>7
  <2>9. g = [i \in 0..n |-> g[i]]
    BY <2>7
  <2>10. ASSUME NEW i \in 1..n, i <= m
         PROVE  g[i] = Step(g[i - 1], text[i], separator)
    <3>1. i \in 0..n /\ i - 1 \in 0..n /\ i - 1 # m
      BY <2>2, <2>10
    <3>2. CASE i = m
      <4>1. g[i - 1] = f[p]
        BY <2>4, <2>8, <3>1, <3>2
      <4> QED
        BY <2>6, <2>8, <3>2, <4>1
    <3>3. CASE i # m
      <4>1. i <= p
        BY <2>2, <2>4, <2>10, <3>3
      <4>2. f[i] = Step(f[i - 1], text[i], separator)
        BY <2>5, <4>1
      <4> QED
        BY <2>8, <3>1, <3>3, <4>2
    <3> QED
      BY <3>2, <3>3
  <2>11. g[0] = Start
    <3>1. 0 \in 0..n /\ 0 # m
      BY <2>3
    <3> QED
      BY <2>5, <2>8, <3>1
  <2>12. To(m, g)
    BY <2>9, <2>10, <2>11
  <2> QED
    BY <2>2, <2>12
<1>3. PICK f : To(n, f)
  <2>1. n \notin T
    BY <1>2
  <2> QED
    BY <1>1, <2>1
<1>4. PICK g : g = [i \in 0..n |-> IF i = 0 THEN Start ELSE Step(f[i - 1], text[i], separator)]
  OBVIOUS
<1>5. \A i \in 0..n : f[i] = g[i]
  <2> SUFFICES ASSUME NEW i \in 0..n PROVE f[i] = g[i]
    OBVIOUS
  <2>1. g[i] = IF i = 0 THEN Start ELSE Step(f[i - 1], text[i], separator)
    BY <1>4
  <2>2. CASE i = 0
    BY <1>3, <2>1, <2>2
  <2>3. CASE i # 0
    <3>1. i \in 1..n /\ i <= n
      BY <2>3
    <3> QED
      BY <1>3, <2>1, <2>3, <3>1
  <2> QED
    BY <2>2, <2>3
<1>6. f = [i \in 0..n |-> f[i]] /\ g = [i \in 0..n |-> g[i]]
  BY <1>3, <1>4
<1>7. f = g
  BY <1>5, <1>6
<1>8. Reads(f, text, separator, n)
  BY <1>4, <1>7 DEF Reads
<1> QED
  BY <1>8

(* Its values, without the recursion. *)
ReadOneByOne(upTo, text, separator, n) ==
  /\ upTo[0] = Start
  /\ \A i \in 1..n : upTo[i] = Step(upTo[i - 1], text[i], separator)

(* Each state of a reader comes from the one before by a character. *)
LEMMA ReadsValues ==
  ASSUME NEW n \in Nat, NEW text, NEW separator, NEW upTo, Reads(upTo, text, separator, n)
  PROVE  ReadOneByOne(upTo, text, separator, n)
<1>1. PICK g : /\ g = upTo
               /\ upTo = [i \in 0..n |-> IF i = 0 THEN Start ELSE Step(g[i - 1], text[i], separator)]
  BY DEF Reads
<1>2. \A i \in 0..n : upTo[i] = IF i = 0 THEN Start ELSE Step(g[i - 1], text[i], separator)
  BY <1>1
<1>3. upTo[0] = Start
  <2>1. 0 \in 0..n
    OBVIOUS
  <2> QED
    BY <1>2, <2>1
<1>4. ASSUME NEW i \in 1..n PROVE upTo[i] = Step(upTo[i - 1], text[i], separator)
  <2>1. i \in 0..n /\ i # 0
    OBVIOUS
  <2> QED
    BY <1>1, <1>2, <2>1
<1> QED
  BY <1>3, <1>4 DEF ReadOneByOne

(* What is read of a text is the last of them. *)
LEMMA ReadIs ==
  ASSUME NEW text, NEW n \in Nat, n = Len(text), NEW separator
  PROVE  \E upTo : ReadOneByOne(upTo, text, separator, n) /\ Read(text, separator) = upTo[n]
<1>1. PICK upTo : upTo = CHOOSE f : Reads(f, text, separator, n)
  OBVIOUS
<1>2. Reads(upTo, text, separator, n)
  BY <1>1, ReadsExists, Zenon
<1>3. Read(text, separator) = upTo[n]
  <2>1. Read(text, separator)
          = (CHOOSE f : f = [i \in 0..Len(text) |->
               IF i = 0 THEN Start ELSE Step(f[i - 1], text[i], separator)])[Len(text)]
    BY Zenon DEF Read
  <2> QED
    BY <1>1, <2>1, Zenon DEF Reads
<1>4. ReadOneByOne(upTo, text, separator, n)
  BY <1>2, ReadsValues
<1> QED
  BY <1>3, <1>4

(* An empty text leaves the reader as it was. *)
LEMMA ReadNothing ==
  ASSUME NEW separator
  PROVE  Read(<<>>, separator) = Start
<1>1. 0 \in Nat /\ 0 = Len(<<>>)
  OBVIOUS
<1>2. PICK upTo : ReadOneByOne(upTo, <<>>, separator, 0) /\ Read(<<>>, separator) = upTo[0]
  BY <1>1, ReadIs
<1> QED
  BY <1>2 DEF ReadOneByOne

(* One character more is one step. *)
LEMMA ReadMore ==
  ASSUME NEW text \in Seq(Char), NEW c \in Char, NEW separator
  PROVE  Read(Append(text, c), separator) = Step(Read(text, separator), c, separator)
<1>1. PICK n \in Nat : n = Len(text)
  OBVIOUS
<1>2. PICK longer : longer = Append(text, c)
  OBVIOUS
<1>3. n + 1 = Len(longer) /\ longer[n + 1] = c /\ \A i \in 1..n : longer[i] = text[i]
  <2>1. /\ Len(Append(text, c)) = Len(text) + 1
        /\ \A i \in 1..Len(text) : Append(text, c)[i] = text[i]
        /\ Append(text, c)[Len(text) + 1] = c
    BY AppendProperties
  <2> QED
    BY <1>1, <1>2, <2>1
<1>4. PICK f : ReadOneByOne(f, text, separator, n) /\ Read(text, separator) = f[n]
  BY <1>1, ReadIs
<1>5. PICK g : ReadOneByOne(g, longer, separator, n + 1) /\ Read(longer, separator) = g[n + 1]
  <2>1. n + 1 \in Nat
    BY <1>1
  <2> QED
    BY <1>3, <2>1, ReadIs
<1>6. f[n] = g[n]
  <2>1. PICK T : T = {i \in 0..n : f[i] # g[i]}
    OBVIOUS
  <2> SUFFICES ASSUME T # {} PROVE FALSE
    BY <1>1, <2>1
  <2>2. PICK m \in T : \A k \in T : m <= k
    <3>1. T \in SUBSET Nat
      BY <2>1
    <3> QED
      BY <3>1, LeastNumber
  <2>3. m \in 0..n /\ f[m] # g[m]
    BY <2>1
  <2>4. m # 0
    BY <1>4, <1>5, <2>3 DEF ReadOneByOne
  <2>5. m \in 1..n /\ m \in 1..(n + 1) /\ m - 1 \in 0..n /\ ~(m <= m - 1)
    BY <2>3, <2>4
  <2>6. f[m - 1] = g[m - 1]
    BY <2>1, <2>2, <2>5
  <2>7. f[m] = Step(f[m - 1], text[m], separator)
    BY <1>4, <2>5, Zenon DEF ReadOneByOne
  <2>8. g[m] = Step(g[m - 1], longer[m], separator)
    BY <1>5, <2>5, Zenon DEF ReadOneByOne
  <2> QED
    BY <1>3, <2>3, <2>5, <2>6, <2>7, <2>8
<1>7. PICK e \in 1..(n + 1) : e = n + 1 /\ e - 1 = n
  BY <1>1
<1>8. g[e] = Step(g[e - 1], longer[e], separator)
  BY <1>5, <1>7, Zenon DEF ReadOneByOne
<1> QED
  BY <1>2, <1>3, <1>4, <1>5, <1>6, <1>7, <1>8

-----------------------------------------------------------------------------
(* The states of a reader. *)
Typed(state) ==
  /\ state = [next |-> state.next, within |-> state.within,
              pieces |-> state.pieces, meant |-> state.meant]
  /\ state.next \in {"any", "literal"} /\ state.within \in {"text", "quotes"}
  /\ state.pieces \in Seq(Seq(Char)) /\ Len(state.pieces) # 0
  /\ state.meant \in Seq(Char)

(* The last piece, and the pieces before it. *)
LEMMA PiecesExtended ==
  ASSUME NEW pieces \in Seq(Seq(Char)), Len(pieces) # 0, NEW c \in Char
  PROVE  Extended(pieces, c) \in Seq(Seq(Char)) /\ Len(Extended(pieces, c)) # 0
<1>1. PICK n \in Nat \ {0} : n = Len(pieces) /\ DOMAIN pieces = 1..n /\ n \in 1..n
  OBVIOUS
<1>2. PICK S : S = Seq(Char)
  OBVIOUS
<1>3. \A i \in 1..n : pieces[i] \in S
  BY <1>1, <1>2
<1>4. PICK new : new = Append(pieces[n], c)
  OBVIOUS
<1>5. new \in S
  <2>1. pieces[n] \in Seq(Char)
    BY <1>1, <1>2, <1>3
  <2>2. Append(pieces[n], c) \in Seq(Char)
    BY <2>1, AppendProperties
  <2> QED
    BY <1>2, <1>4, <2>2
<1>6. Extended(pieces, c) = [i \in 1..n |-> IF i = n THEN new ELSE pieces[i]]
  BY <1>1, <1>4 DEF Extended
<1>7. PICK f : f = Extended(pieces, c)
  OBVIOUS
<1>8. f \in [1..n -> S]
  BY <1>3, <1>5, <1>6, <1>7
<1>9. f \in Seq(S) /\ Len(f) = n
  BY <1>6, <1>7, <1>8
<1> QED
  BY <1>2, <1>7, <1>9

(* A step of a reader leads to a state of one. *)
LEMMA StepTyped ==
  ASSUME NEW state, Typed(state), NEW c \in Char, NEW separator
  PROVE  Typed(Step(state, c, separator))
<1>1. PICK next, within, pieces, meant :
        /\ next = state.next /\ within = state.within
        /\ pieces = state.pieces /\ meant = state.meant
  OBVIOUS
<1>2. /\ next \in {"any", "literal"} /\ within \in {"text", "quotes"}
      /\ pieces \in Seq(Seq(Char)) /\ Len(pieces) # 0 /\ meant \in Seq(Char)
  BY <1>1, Zenon DEF Typed
<1>3. PICK new : new = Step(state, c, separator)
  OBVIOUS
<1>4. PICK P : P = Seq(Char)
  OBVIOUS
<1>5. <<>> \in P
  BY <1>4
<1>6. Append(pieces, <<>>) \in Seq(P) /\ Len(Append(pieces, <<>>)) # 0
  <2>1. pieces \in Seq(P)
    BY <1>2, <1>4
  <2>2. Append(pieces, <<>>) \in Seq(P) /\ Len(Append(pieces, <<>>)) = Len(pieces) + 1
    BY <1>5, <2>1, AppendProperties
  <2>3. Len(pieces) \in Nat
    BY <2>1
  <2> QED
    BY <2>2, <2>3
<1>7. Extended(pieces, c) \in Seq(P) /\ Len(Extended(pieces, c)) # 0
  BY <1>2, <1>4, PiecesExtended
<1>8. Append(meant, c) \in Seq(Char)
  BY <1>2, AppendProperties
<1>9. new = [next |-> new.next, within |-> new.within, pieces |-> new.pieces, meant |-> new.meant]
  BY <1>3 DEF Step
<1>10. new.next \in {"any", "literal"} /\ new.within \in {"text", "quotes"}
  BY <1>1, <1>2, <1>3 DEF Step
<1>11. new.pieces = Append(pieces, <<>>) \/ new.pieces = Extended(pieces, c)
  BY <1>1, <1>3 DEF Step
<1>12. new.meant = meant \/ new.meant = Append(meant, c)
  BY <1>1, <1>3 DEF Step
<1>13. new.pieces \in Seq(Seq(Char)) /\ Len(new.pieces) # 0
  BY <1>4, <1>6, <1>7, <1>11
<1>14. new.meant \in Seq(Char)
  BY <1>2, <1>8, <1>12
<1> QED
  BY <1>3, <1>9, <1>10, <1>13, <1>14, Zenon DEF Typed

(* A reader is in a state of one. *)
LEMMA ReadTyped ==
  ASSUME NEW text \in Seq(Char), NEW separator
  PROVE  Typed(Read(text, separator))
<1>1. PICK n \in Nat : n = Len(text) /\ \A i \in 1..n : text[i] \in Char
  OBVIOUS
<1>2. PICK f : ReadOneByOne(f, text, separator, n) /\ Read(text, separator) = f[n]
  BY <1>1, ReadIs
<1>3. Typed(Start)
  <2>1. <<<<>>>> \in Seq(Seq(Char)) /\ Len(<<<<>>>>) = 1 /\ <<>> \in Seq(Char)
    OBVIOUS
  <2> QED
    BY <2>1 DEF Start, Typed
<1>4. PICK T : T = {i \in 0..n : ~Typed(f[i])}
  OBVIOUS
<1> SUFFICES ASSUME T # {} PROVE FALSE
  BY <1>1, <1>2, <1>4
<1>5. PICK m \in T : \A k \in T : m <= k
  <2>1. T \in SUBSET Nat
    BY <1>4
  <2> QED
    BY <2>1, LeastNumber
<1>6. m \in 0..n /\ ~Typed(f[m])
  BY <1>4
<1>7. m # 0
  BY <1>2, <1>3, <1>6 DEF ReadOneByOne
<1>8. m \in 1..n /\ m - 1 \in 0..n /\ ~(m <= m - 1)
  BY <1>6, <1>7
<1>9. Typed(f[m - 1])
  BY <1>4, <1>5, <1>8
<1>10. f[m] = Step(f[m - 1], text[m], separator)
  BY <1>2, <1>8, Zenon DEF ReadOneByOne
<1>11. text[m] \in Char
  BY <1>1, <1>8
<1> QED
  BY <1>6, <1>9, <1>10, <1>11, StepTyped

-----------------------------------------------------------------------------
(* A text that cuts nothing, and says what is meant by it: outside quotes or between
   them, it only makes the last piece longer.                                   *)
ExtendedBy(pieces, text) == [pieces EXCEPT ![Len(pieces)] = @ \o text]
Grown(state, text, meant) ==
  [next |-> "any", within |-> state.within,
   pieces |-> ExtendedBy(state.pieces, text), meant |-> state.meant \o meant]
GrowsAt(before, where, text, meant, separator) ==
  Read(before, separator).next = "any" /\ Read(before, separator).within = where =>
    Read(before \o text, separator) = Grown(Read(before, separator), text, meant)
Quiet(where, text, meant, separator) ==
  /\ text \in Seq(Char) /\ meant \in Seq(Char)
  /\ \A before \in Seq(Char) : GrowsAt(before, where, text, meant, separator)

Associates(a, b, c) == (a \o b) \o c = a \o (b \o c)

(* Texts are joined in any order of joining. *)
LEMMA Associated ==
  ASSUME NEW a \in Seq(Char), NEW b \in Seq(Char), NEW c \in Seq(Char)
  PROVE  Associates(a, b, c)
<1>1. (a \o b) \o c = a \o (b \o c)
  BY ConcatAssociative
<1> QED
  BY <1>1, Zenon DEF Associates

(* A piece made longer twice is one made longer once. *)
LEMMA ExtendedTwice ==
  ASSUME NEW pieces \in Seq(Seq(Char)), Len(pieces) # 0, NEW y \in Seq(Char), NEW z \in Seq(Char)
  PROVE  /\ ExtendedBy(ExtendedBy(pieces, y), z) = ExtendedBy(pieces, y \o z)
         /\ Len(ExtendedBy(pieces, y)) = Len(pieces)
         /\ ExtendedBy(pieces, <<>>) = pieces
         /\ ExtendedBy(pieces, y) \in Seq(Seq(Char))
<1>1. PICK n \in Nat \ {0} : n = Len(pieces) /\ DOMAIN pieces = 1..n /\ n \in 1..n
  OBVIOUS
<1>2. PICK S : S = Seq(Char)
  OBVIOUS
<1>3. \A i \in 1..n : pieces[i] \in S
  BY <1>1, <1>2
<1>4. PICK p : p = pieces[n]
  OBVIOUS
<1>5. p \in Seq(Char)
  BY <1>1, <1>2, <1>3, <1>4
<1>6. PICK py : py = p \o y
  OBVIOUS
<1>7. PICK f : f = ExtendedBy(pieces, y)
  OBVIOUS
<1>8. f = [i \in 1..n |-> IF i = n THEN py ELSE pieces[i]]
  BY <1>1, <1>4, <1>6, <1>7 DEF ExtendedBy
<1>9. py \in S
  <2>1. p \o y \in Seq(Char)
    BY <1>5, ConcatProperties
  <2> QED
    BY <1>2, <1>6, <2>1
<1>10. f \in Seq(S) /\ Len(f) = n /\ DOMAIN f = 1..n /\ f[n] = py
  <2>1. f \in [1..n -> S]
    BY <1>3, <1>8, <1>9
  <2>2. DOMAIN f = 1..n /\ f[n] = py
    BY <1>1, <1>8
  <2> QED
    BY <2>1, <2>2
<1>11. py \o z = p \o (y \o z)
  <2>1. Associates(p, y, z)
    BY <1>5, Associated
  <2> QED
    BY <1>6, <2>1, Zenon DEF Associates
<1>12. PICK last : last = p \o (y \o z)
  OBVIOUS
<1>13. ExtendedBy(f, z) = [i \in 1..n |-> IF i = n THEN last ELSE f[i]]
  BY <1>10, <1>11, <1>12 DEF ExtendedBy
<1>14. PICK w : w = y \o z
  OBVIOUS
<1>15. ExtendedBy(pieces, w) = [i \in 1..n |-> IF i = n THEN last ELSE pieces[i]]
  BY <1>1, <1>4, <1>12, <1>14 DEF ExtendedBy
<1>16. ExtendedBy(f, z) = ExtendedBy(pieces, w)
  <2>1. \A i \in 1..n : i # n => f[i] = pieces[i]
    BY <1>8
  <2> QED
    BY <1>13, <1>15, <2>1
<1>17. ExtendedBy(pieces, <<>>) = pieces
  <2>1. p \o <<>> = p
    BY <1>5, ConcatEmptySeq
  <2>2. pieces = [i \in 1..n |-> pieces[i]]
    BY <1>1
  <2>3. ExtendedBy(pieces, <<>>) = [i \in 1..n |-> IF i = n THEN p ELSE pieces[i]]
    BY <1>1, <1>4, <2>1 DEF ExtendedBy
  <2> QED
    BY <1>4, <2>2, <2>3
<1> QED
  BY <1>1, <1>2, <1>7, <1>10, <1>14, <1>16, <1>17

(* The empty text is a text. *)
LEMMA EmptyText == <<>> \in Seq(Char)
OBVIOUS

(* Nothing is quiet. *)
LEMMA QuietNothing ==
  ASSUME NEW where, NEW separator
  PROVE  Quiet(where, <<>>, <<>>, separator)
<1> SUFFICES ASSUME NEW before \in Seq(Char) PROVE GrowsAt(before, where, <<>>, <<>>, separator)
  BY Zenon, EmptyText DEF Quiet
<1>1. PICK state : state = Read(before, separator)
  OBVIOUS
<1>2. Typed(state)
  BY <1>1, ReadTyped
<1>3. before \o <<>> = before
  BY ConcatEmptySeq
<1>4. ExtendedBy(state.pieces, <<>>) = state.pieces /\ state.meant \o <<>> = state.meant
  BY <1>2, ExtendedTwice, ConcatEmptySeq, EmptyText DEF Typed
<1>5. state.next = "any" => state = Grown(state, <<>>, <<>>)
  BY <1>2, <1>4, Zenon DEF Typed, Grown
<1> QED
  BY <1>1, <1>3, <1>5 DEF GrowsAt

(* Two quiet texts are one. *)
LEMMA QuietTwice ==
  ASSUME NEW where, NEW separator,
         NEW y, NEW m, Quiet(where, y, m, separator), NEW z, NEW n, Quiet(where, z, n, separator)
  PROVE  Quiet(where, y \o z, m \o n, separator)
<1>1. y \in Seq(Char) /\ z \in Seq(Char) /\ m \in Seq(Char) /\ n \in Seq(Char)
  BY DEF Quiet
<1>2. PICK yz, mn : yz = y \o z /\ mn = m \o n
  OBVIOUS
<1>3. yz \in Seq(Char) /\ mn \in Seq(Char)
  BY <1>1, <1>2, ConcatProperties
<1>4. ASSUME NEW before \in Seq(Char) PROVE GrowsAt(before, where, yz, mn, separator)
  <2>1. PICK a, b, c : /\ a = Read(before, separator)
                       /\ b = Read(before \o y, separator)
                       /\ c = Read((before \o y) \o z, separator)
    OBVIOUS
  <2> SUFFICES ASSUME a.next = "any", a.within = where
               PROVE  Read(before \o yz, separator) = Grown(a, yz, mn)
    BY <2>1 DEF GrowsAt
  <2>2. b = Grown(a, y, m)
    BY <2>1 DEF Quiet, GrowsAt
  <2>3. b.next = "any" /\ b.within = where /\ b.pieces = ExtendedBy(a.pieces, y) /\ b.meant = a.meant \o m
    BY <2>2 DEF Grown
  <2>4. before \o y \in Seq(Char)
    BY <1>1, ConcatProperties
  <2>5. c = Grown(b, z, n)
    BY <2>1, <2>3, <2>4 DEF Quiet, GrowsAt
  <2>6. (before \o y) \o z = before \o yz
    <3>1. Associates(before, y, z)
      BY <1>1, Associated
    <3> QED
      BY <1>2, <3>1, Zenon DEF Associates
  <2>7. Typed(a)
    BY <2>1, ReadTyped
  <2>8. a.pieces \in Seq(Seq(Char)) /\ Len(a.pieces) # 0 /\ a.meant \in Seq(Char)
    BY <2>7 DEF Typed
  <2>9. ExtendedBy(ExtendedBy(a.pieces, y), z) = ExtendedBy(a.pieces, yz)
    BY <1>1, <1>2, <2>8, ExtendedTwice
  <2>10. (a.meant \o m) \o n = a.meant \o mn
    <3>1. Associates(a.meant, m, n)
      BY <1>1, <2>8, Associated
    <3> QED
      BY <1>2, <3>1, Zenon DEF Associates
  <2>11. c = [next |-> "any", within |-> where,
              pieces |-> ExtendedBy(a.pieces, yz), meant |-> a.meant \o mn]
    BY <2>3, <2>5, <2>9, <2>10, Zenon DEF Grown
  <2> QED
    BY <2>1, <2>6, <2>11, Zenon DEF Grown
<1> QED
  BY <1>2, <1>3, <1>4, Zenon DEF Quiet

-----------------------------------------------------------------------------
OneMore(text, c) == text \o <<c>> = Append(text, c)

(* A character more is a text of one character more. *)
LEMMA OneMoreIs ==
  ASSUME NEW text \in Seq(Char), NEW c \in Char
  PROVE  OneMore(text, c)
<1>1. text \o <<c>> = Append(text, c)
  BY AppendIsConcat
<1> QED
  BY <1>1, Zenon DEF OneMore

(* To make the last piece longer by a character is to make it so by a text of one. *)
LEMMA ExtendedOnce ==
  ASSUME NEW pieces \in Seq(Seq(Char)), Len(pieces) # 0, NEW c \in Char
  PROVE  Extended(pieces, c) = ExtendedBy(pieces, <<c>>)
<1>1. PICK n \in Nat \ {0} : n = Len(pieces) /\ n \in 1..n
  OBVIOUS
<1>2. PICK p : p = pieces[n]
  OBVIOUS
<1>3. p \in Seq(Char)
  <2>1. PICK S : S = Seq(Char)
    OBVIOUS
  <2>2. pieces[n] \in S
    BY <1>1, <2>1
  <2> QED
    BY <1>2, <2>1, <2>2
<1>4. p \o <<c>> = Append(p, c)
  BY <1>3, OneMoreIs, Zenon DEF OneMore
<1>5. pieces[Len(pieces)] \o <<c>> = Append(pieces[Len(pieces)], c)
  BY <1>1, <1>2, <1>4
<1> QED
  BY <1>5, Zenon DEF Extended, ExtendedBy

(* What a reader that waits for any character does with one that means itself. *)
LEMMA StepsPlain ==
  ASSUME NEW state, Typed(state), state.next = "any",
         NEW c \in Char, c # "\\", c # "\"", NEW separator, c # separator \/ state.within # "text"
  PROVE  Step(state, c, separator)
           = [next |-> "any", within |-> state.within,
              pieces |-> ExtendedBy(state.pieces, <<c>>), meant |-> Append(state.meant, c)]
<1>1. Extended(state.pieces, c) = ExtendedBy(state.pieces, <<c>>)
  BY ExtendedOnce DEF Typed
<1>2. c \notin {"\\", "\""} /\ ~(state.within = "text" /\ c = separator)
  OBVIOUS
<1> QED
  BY <1>1, <1>2, Zenon DEF Step

(* What it does with a character whose meaning is taken. *)
LEMMA StepsLiteral ==
  ASSUME NEW state, Typed(state), state.next = "literal", NEW c \in Char, NEW separator
  PROVE  Step(state, c, separator)
           = [next |-> "any", within |-> state.within,
              pieces |-> ExtendedBy(state.pieces, <<c>>), meant |-> Append(state.meant, c)]
<1>1. Extended(state.pieces, c) = ExtendedBy(state.pieces, <<c>>)
  BY ExtendedOnce DEF Typed
<1>2. state.next # "any"
  OBVIOUS
<1> QED
  BY <1>1, <1>2, Zenon DEF Step

(* The characters that mark a text. *)
LEMMA MarksAreChars == "\\" \in Char /\ "\"" \in Char
  BY Zenon DEF Char

(* A character is a text. *)
LEMMA OneText ==
  ASSUME NEW c \in Char
  PROVE  <<c>> \in Seq(Char)
<1>1. PICK S : S = Char
  OBVIOUS
<1>2. c \in S
  BY <1>1
<1>3. <<c>> \in Seq(S)
  BY <1>2
<1> QED
  BY <1>1, <1>3

(* A text of two characters is one of each, joined. *)
LEMMA TwoTexts ==
  ASSUME NEW b \in Char, NEW c \in Char
  PROVE  <<b, c>> \in Seq(Char) /\ <<b>> \o <<c>> = <<b, c>>
<1>1. Len(<<b>> \o <<c>>) = 2
  OBVIOUS
<1>2. (<<b>> \o <<c>>)[1] = b
  OBVIOUS
<1>3. (<<b>> \o <<c>>)[2] = c
  OBVIOUS
<1>4. Len(<<b, c>>) = 2 /\ <<b, c>>[1] = b /\ <<b, c>>[2] = c
  OBVIOUS
<1>5. <<b>> \o <<c>> \in Seq(Char)
  <2>1. <<b>> \in Seq(Char) /\ <<c>> \in Seq(Char)
    BY OneText
  <2> QED
    BY <2>1, ConcatProperties
<1>6. <<b, c>> \in Seq(Char)
  <2>1. PICK S : S = Char
    OBVIOUS
  <2>2. b \in S /\ c \in S
    BY <2>1
  <2>3. <<b, c>> \in Seq(S)
    BY <2>2
  <2> QED
    BY <2>1, <2>3
<1>7. PICK z : z = <<b>> \o <<c>>
  OBVIOUS
<1>8. PICK w : w = <<b, c>>
  OBVIOUS
<1>9. z \in Seq(Char) /\ w \in Seq(Char) /\ Len(z) = 2 /\ Len(w) = 2 /\ z[1] = w[1] /\ z[2] = w[2]
  BY <1>1, <1>2, <1>3, <1>4, <1>5, <1>6, <1>7, <1>8, Zenon
<1>10. z = w
  BY <1>9
<1> QED
  BY <1>6, <1>7, <1>8, <1>10

Lengthens(pieces, y, z) == ExtendedBy(ExtendedBy(pieces, y), z) = ExtendedBy(pieces, y \o z)

(* A piece made longer by one text and another, and by what they are together. *)
LEMMA Lengthened ==
  ASSUME NEW pieces \in Seq(Seq(Char)), Len(pieces) # 0, NEW y \in Seq(Char), NEW z \in Seq(Char)
  PROVE  Lengthens(pieces, y, z)
<1>1. ExtendedBy(ExtendedBy(pieces, y), z) = ExtendedBy(pieces, y \o z)
  BY ExtendedTwice
<1> QED
  BY <1>1, Zenon DEF Lengthens

(* What it does with a backslash. *)
LEMMA StepsBackslash ==
  ASSUME NEW state, Typed(state), state.next = "any", NEW separator, separator # "\\"
  PROVE  Step(state, "\\", separator)
           = [next |-> "literal", within |-> state.within,
              pieces |-> ExtendedBy(state.pieces, <<"\\">>), meant |-> state.meant]
<1>1. Extended(state.pieces, "\\") = ExtendedBy(state.pieces, <<"\\">>)
  BY ExtendedOnce, MarksAreChars DEF Typed
<1>2. "\\" \in {"\\", "\""} /\ "\\" # separator /\ "\\" # "\""
  OBVIOUS
<1> QED
  BY <1>1, <1>2, Zenon DEF Step

(* What it does with a quote. *)
LEMMA StepsQuote ==
  ASSUME NEW state, Typed(state), state.next = "any", NEW separator, separator # "\""
  PROVE  Step(state, "\"", separator)
           = [next |-> "any", within |-> IF state.within = "text" THEN "quotes" ELSE "text",
              pieces |-> ExtendedBy(state.pieces, <<"\"">>), meant |-> state.meant]
<1>1. Extended(state.pieces, "\"") = ExtendedBy(state.pieces, <<"\"">>)
  BY ExtendedOnce, MarksAreChars DEF Typed
<1>2. "\"" \in {"\\", "\""} /\ "\"" # separator /\ "\"" # "\\"
  OBVIOUS
<1> QED
  BY <1>1, <1>2, Zenon DEF Step

-----------------------------------------------------------------------------
(* A character that means itself is quiet. *)
LEMMA QuietChar ==
  ASSUME NEW where, NEW c \in Char, c # "\\", c # "\"", NEW separator, c # separator \/ where # "text"
  PROVE  Quiet(where, <<c>>, <<c>>, separator)
<1>1. PICK one : one = <<c>> /\ one \in Seq(Char)
  BY OneText
<1>2. ASSUME NEW before \in Seq(Char) PROVE GrowsAt(before, where, one, one, separator)
  <2>1. PICK state : state = Read(before, separator) /\ Typed(state)
    BY ReadTyped
  <2> SUFFICES ASSUME state.next = "any", state.within = where
               PROVE  Read(before \o one, separator) = Grown(state, one, one)
    BY <2>1 DEF GrowsAt
  <2>2. before \o one = Append(before, c)
    BY <1>1, OneMoreIs, Zenon DEF OneMore
  <2>3. state.meant \o one = Append(state.meant, c)
    <3>1. state.meant \in Seq(Char)
      BY <2>1 DEF Typed
    <3> QED
      BY <1>1, <3>1, OneMoreIs, Zenon DEF OneMore
  <2>4. Read(Append(before, c), separator) = Step(state, c, separator)
    BY <2>1, ReadMore
  <2>5. Step(state, c, separator)
          = [next |-> "any", within |-> state.within,
             pieces |-> ExtendedBy(state.pieces, one), meant |-> Append(state.meant, c)]
    BY <1>1, <2>1, StepsPlain
  <2> QED
    BY <2>2, <2>3, <2>4, <2>5, Zenon DEF Grown
<1> QED
  BY <1>1, <1>2, Zenon DEF Quiet

ReadsTwo(before, both, b, c, separator) ==
  Read(before \o both, separator) = Step(Step(Read(before, separator), b, separator), c, separator)

(* Two characters more are two steps. *)
LEMMA ReadTwoMore ==
  ASSUME NEW before \in Seq(Char), NEW b \in Char, NEW c \in Char, NEW separator,
         NEW both, both = <<b, c>>
  PROVE  ReadsTwo(before, both, b, c, separator)
<1>1. PICK more : more = Append(before, b) /\ more \in Seq(Char)
  BY AppendProperties
<1>2. before \o both = Append(more, c)
  <2>1. Associates(before, <<b>>, <<c>>)
    BY OneText, Associated
  <2>2. <<b>> \o <<c>> = both
    BY TwoTexts
  <2>3. more = before \o <<b>>
    BY <1>1, OneMoreIs, Zenon DEF OneMore
  <2>4. Append(more, c) = more \o <<c>>
    BY <1>1, OneMoreIs, Zenon DEF OneMore
  <2> QED
    BY <2>1, <2>2, <2>3, <2>4, Zenon DEF Associates
<1>3. Read(more, separator) = Step(Read(before, separator), b, separator)
  BY <1>1, ReadMore
<1>4. Read(Append(more, c), separator) = Step(Read(more, separator), c, separator)
  BY <1>1, ReadMore
<1> QED
  BY <1>2, <1>3, <1>4, Zenon DEF ReadsTwo

(* So is any character after a backslash. *)
LEMMA QuietEscaped ==
  ASSUME NEW where, NEW c \in Char, NEW separator, separator # "\\"
  PROVE  Quiet(where, <<"\\", c>>, <<c>>, separator)
<1>1. PICK both, one, mark : /\ both = <<"\\", c>> /\ both \in Seq(Char) /\ both = mark \o one
                             /\ one = <<c>> /\ one \in Seq(Char)
                             /\ mark = <<"\\">> /\ mark \in Seq(Char)
  <2>1. <<"\\", c>> \in Seq(Char) /\ <<"\\", c>> = <<"\\">> \o <<c>> /\ <<"\\">> \in Seq(Char)
    BY MarksAreChars, OneText, TwoTexts
  <2>2. <<c>> \in Seq(Char)
    BY OneText
  <2> QED
    BY <2>1, <2>2, Zenon
<1>2. ASSUME NEW before \in Seq(Char) PROVE GrowsAt(before, where, both, one, separator)
  <2>1. PICK state : state = Read(before, separator) /\ Typed(state)
    BY ReadTyped
  <2> SUFFICES ASSUME state.next = "any", state.within = where
               PROVE  Read(before \o both, separator) = Grown(state, both, one)
    BY <2>1 DEF GrowsAt
  <2>2. PICK marked : marked = Step(state, "\\", separator) /\ Typed(marked)
    BY <2>1, MarksAreChars, StepTyped
  <2>3. state.pieces \in Seq(Seq(Char)) /\ Len(state.pieces) # 0 /\ state.meant \in Seq(Char)
    BY <2>1 DEF Typed
  <2>4. marked = [next |-> "literal", within |-> state.within,
                  pieces |-> ExtendedBy(state.pieces, mark), meant |-> state.meant]
    BY <1>1, <2>1, <2>2, StepsBackslash
  <2>5. marked.next = "literal" /\ marked.within = state.within
        /\ marked.pieces = ExtendedBy(state.pieces, mark) /\ marked.meant = state.meant
    BY <2>4
  <2>6. Read(before \o both, separator) = Step(marked, c, separator)
    <3>1. ReadsTwo(before, both, "\\", c, separator)
      BY <1>1, MarksAreChars, ReadTwoMore
    <3> QED
      BY <2>1, <2>2, <3>1, Zenon DEF ReadsTwo
  <2>7. Step(marked, c, separator)
          = [next |-> "any", within |-> marked.within,
             pieces |-> ExtendedBy(marked.pieces, one), meant |-> Append(marked.meant, c)]
    BY <1>1, <2>2, <2>5, StepsLiteral
  <2>8. ExtendedBy(marked.pieces, one) = ExtendedBy(state.pieces, both)
    <3>1. Lengthens(state.pieces, mark, one)
      BY <1>1, <2>3, Lengthened
    <3> QED
      BY <1>1, <2>5, <3>1, Zenon DEF Lengthens
  <2>9. state.meant \o one = Append(state.meant, c)
    BY <1>1, <2>3, OneMoreIs, Zenon DEF OneMore
  <2> QED
    BY <2>5, <2>6, <2>7, <2>8, <2>9, Zenon DEF Grown
<1> QED
  BY <1>1, <1>2, Zenon DEF Quiet

(* A text between quotes is quiet if the text itself is, between quotes. *)
LEMMA QuietQuotes ==
  ASSUME NEW separator, separator # "\"", NEW y, NEW m, Quiet("quotes", y, m, separator)
  PROVE  Quiet("text", <<"\"">> \o y \o <<"\"">>, m, separator)
<1>1. y \in Seq(Char) /\ m \in Seq(Char)
  BY DEF Quiet
<1>2. PICK mark : mark = <<"\"">> /\ mark \in Seq(Char)
  BY MarksAreChars, OneText
<1>3. PICK opened, all : opened = mark \o y /\ all = opened \o mark
                         /\ opened \in Seq(Char) /\ all \in Seq(Char)
  BY <1>1, <1>2, ConcatProperties
<1>4. ASSUME NEW before \in Seq(Char) PROVE GrowsAt(before, "text", all, m, separator)
  <2>1. PICK state : state = Read(before, separator) /\ Typed(state)
    BY ReadTyped
  <2> SUFFICES ASSUME state.next = "any", state.within = "text"
               PROVE  Read(before \o all, separator) = Grown(state, all, m)
    BY <2>1 DEF GrowsAt
  <2>2. state.pieces \in Seq(Seq(Char)) /\ Len(state.pieces) # 0 /\ state.meant \in Seq(Char)
    BY <2>1 DEF Typed
  <2>3. PICK longer : longer = Append(before, "\"") /\ longer \in Seq(Char)
    BY MarksAreChars, AppendProperties
  <2>4. PICK a : a = Read(longer, separator) /\ Typed(a)
    BY <2>3, ReadTyped
  <2>5. a = Step(state, "\"", separator)
    BY <2>1, <2>3, <2>4, MarksAreChars, ReadMore
  <2>6. a.next = "any" /\ a.within = "quotes" /\ a.pieces = ExtendedBy(state.pieces, mark)
        /\ a.meant = state.meant
    <3>1. a = [next |-> "any", within |-> IF state.within = "text" THEN "quotes" ELSE "text",
               pieces |-> ExtendedBy(state.pieces, mark), meant |-> state.meant]
      BY <1>2, <2>1, <2>5, StepsQuote
    <3> QED
      BY <3>1
  <2>7. PICK longest : longest = longer \o y /\ longest \in Seq(Char)
    BY <1>1, <2>3, ConcatProperties
  <2>8. PICK b : b = Read(longest, separator) /\ Typed(b)
    BY <2>7, ReadTyped
  <2>9. b = Grown(a, y, m)
    BY <2>3, <2>4, <2>6, <2>7, <2>8 DEF Quiet, GrowsAt
  <2>10. b.next = "any" /\ b.within = "quotes" /\ b.pieces = ExtendedBy(a.pieces, y)
         /\ b.meant = a.meant \o m
    BY <2>6, <2>9 DEF Grown
  <2>11. Read(Append(longest, "\""), separator) = Step(b, "\"", separator)
    BY <2>7, <2>8, MarksAreChars, ReadMore
  <2>12. Step(b, "\"", separator)
           = [next |-> "any", within |-> IF b.within = "text" THEN "quotes" ELSE "text",
              pieces |-> ExtendedBy(b.pieces, mark), meant |-> b.meant]
    BY <1>2, <2>8, <2>10, StepsQuote
  <2>13. ExtendedBy(b.pieces, mark) = ExtendedBy(state.pieces, all)
    <3>1. ExtendedBy(a.pieces, y) = ExtendedBy(state.pieces, opened)
      <4>1. Lengthens(state.pieces, mark, y)
        BY <1>1, <1>2, <2>2, Lengthened
      <4> QED
        BY <1>3, <2>6, <4>1, Zenon DEF Lengthens
    <3>2. ExtendedBy(ExtendedBy(state.pieces, opened), mark) = ExtendedBy(state.pieces, all)
      <4>1. Lengthens(state.pieces, opened, mark)
        BY <1>2, <1>3, <2>2, Lengthened
      <4> QED
        BY <1>3, <4>1, Zenon DEF Lengthens
    <3> QED
      BY <2>10, <3>1, <3>2
  <2>14. before \o all = Append(longest, "\"")
    <3>1. before \o all = (before \o opened) \o mark
      <4>1. Associates(before, opened, mark)
        BY <1>2, <1>3, Associated
      <4> QED
        BY <1>3, <4>1, Zenon DEF Associates
    <3>2. before \o opened = longest
      <4>1. Associates(before, mark, y)
        BY <1>1, <1>2, Associated
      <4>2. before \o mark = longer
        BY <1>2, <2>3, OneMoreIs, MarksAreChars, Zenon DEF OneMore
      <4> QED
        BY <1>3, <2>7, <4>1, <4>2, Zenon DEF Associates
    <3>3. longest \o mark = Append(longest, "\"")
      BY <1>2, <2>7, OneMoreIs, MarksAreChars, Zenon DEF OneMore
    <3> QED
      BY <3>1, <3>2, <3>3
  <2>15. (IF b.within = "text" THEN "quotes" ELSE "text") = state.within
    BY <2>10
  <2> QED
    BY <2>6, <2>10, <2>11, <2>12, <2>13, <2>14, <2>15, Zenon DEF Grown
<1>5. <<"\"">> \o y \o <<"\"">> = all
  BY <1>2, <1>3
<1> QED
  BY <1>1, <1>3, <1>4, <1>5, Zenon DEF Quiet

-----------------------------------------------------------------------------
(* Quiet texts joined are quiet, and mean what they mean, joined. *)
LEMMA QuietJoined ==
  ASSUME NEW n \in Nat, n # 0, NEW where, NEW separator,
         NEW texts, NEW flat, JoinedOneByOne(flat, texts, n, Char),
         NEW meants, NEW meant, JoinedOneByOne(meant, meants, n, Char),
         \A i \in 1..n : Quiet(where, texts[i], meants[i], separator)
  PROVE  Quiet(where, flat[n], meant[n], separator)
<1>1. PICK T : T = {i \in 1..n : ~Quiet(where, flat[i], meant[i], separator)}
  OBVIOUS
<1> SUFFICES ASSUME T # {} PROVE FALSE
  BY <1>1
<1>2. PICK m \in T : \A k \in T : m <= k
  <2>1. T \in SUBSET Nat
    BY <1>1
  <2> QED
    BY <2>1, LeastNumber
<1>3. m \in 1..n /\ ~Quiet(where, flat[m], meant[m], separator)
  BY <1>1
<1>4. m # 1
  <2>1. flat[1] = texts[1] /\ meant[1] = meants[1]
    BY DEF JoinedOneByOne
  <2>2. Quiet(where, texts[1], meants[1], separator)
    OBVIOUS
  <2> QED
    BY <1>3, <2>1, <2>2
<1>5. PICK p \in 1..n : p = m - 1 /\ ~(m <= p)
  BY <1>3, <1>4
<1>6. Quiet(where, flat[p], meant[p], separator)
  BY <1>1, <1>2, <1>5
<1>7. flat[m] = flat[p] \o texts[m] /\ meant[m] = meant[p] \o meants[m]
  <2>1. flat[m] = flat[m - 1] \o texts[m]
    BY <1>3, <1>4, Zenon DEF JoinedOneByOne
  <2>2. meant[m] = meant[m - 1] \o meants[m]
    BY <1>3, <1>4, Zenon DEF JoinedOneByOne
  <2> QED
    BY <1>5, <2>1, <2>2
<1>8. Quiet(where, flat[p] \o texts[m], meant[p] \o meants[m], separator)
  BY <1>3, <1>6, QuietTwice
<1> QED
  BY <1>3, <1>7, <1>8

ElementsBy(ones, upTo, view, n, S) ==
  /\ ones = [i \in 1..n |-> <<view[i]>>]
  /\ JoinedOneByOne(upTo, ones, n, S) /\ upTo[n] = view

(* A sequence is what its elements are, joined. *)
LEMMA ElementsJoined ==
  ASSUME NEW S, NEW view \in Seq(S), NEW n \in Nat, n = Len(view), n # 0
  PROVE  \E ones, upTo : ElementsBy(ones, upTo, view, n, S)
<1>1. PICK ones : ones = [i \in 1..n |-> <<view[i]>>]
  OBVIOUS
<1>2. PICK upTo : upTo = [i \in 1..n |-> SubSeq(view, 1, i)]
  OBVIOUS
<1>3. \A i \in 1..n : view[i] \in S /\ ones[i] = <<view[i]>> /\ upTo[i] = SubSeq(view, 1, i)
  BY <1>1, <1>2
<1>4. \A i \in 1..n : upTo[i] \in Seq(S) /\ Len(upTo[i]) = i /\ \A j \in 1..i : upTo[i][j] = view[j]
  <2> TAKE i \in 1..n
  <2>1. SubSeq(view, 1, i) \in Seq(S) /\ Len(SubSeq(view, 1, i)) = i
        /\ \A j \in 1..i : SubSeq(view, 1, i)[j] = view[j]
    OBVIOUS
  <2> QED
    BY <1>3, <2>1
<1>5. upTo[1] = ones[1]
  <2>1. PICK a, b : a = upTo[1] /\ b = <<view[1]>>
    OBVIOUS
  <2>2. b \in Seq(S) /\ Len(b) = 1 /\ b[1] = view[1]
    BY <1>3, <2>1
  <2>3. a \in Seq(S) /\ Len(a) = 1 /\ a[1] = view[1]
    BY <1>4, <2>1
  <2>4. a = b
    BY <2>2, <2>3
  <2> QED
    BY <1>3, <2>1, <2>4
<1>6. ASSUME NEW i \in 1..n, i # 1 PROVE upTo[i] = upTo[i - 1] \o ones[i]
  <2>1. PICK a, b : a = upTo[i] /\ b = upTo[i - 1]
    OBVIOUS
  <2>2. i - 1 \in 1..n
    BY <1>6
  <2>3. /\ a \in Seq(S) /\ Len(a) = i /\ \A j \in 1..i : a[j] = view[j]
        /\ b \in Seq(S) /\ Len(b) = i - 1 /\ \A j \in 1..(i - 1) : b[j] = view[j]
    BY <1>4, <2>1, <2>2
  <2>4. PICK c : c = Append(b, view[i])
    OBVIOUS
  <2>5. /\ c \in Seq(S) /\ Len(c) = i /\ c[i] = view[i]
        /\ \A j \in 1..(i - 1) : c[j] = b[j]
    <3>1. view[i] \in S
      BY <1>3
    <3> QED
      BY <2>3, <2>4, <3>1, AppendProperties
  <2>6. a = c
    <3>1. \A j \in 1..i : a[j] = c[j]
      BY <2>3, <2>5
    <3> QED
      BY <2>3, <2>5, <3>1
  <2>7. b \o <<view[i]>> = Append(b, view[i])
    BY <1>3, <2>3, AppendIsConcat
  <2> QED
    BY <1>3, <2>1, <2>4, <2>6, <2>7
<1>7. upTo[n] = view
  <2>1. PICK a : a = upTo[n]
    OBVIOUS
  <2>2. a \in Seq(S) /\ Len(a) = n /\ \A j \in 1..n : a[j] = view[j]
    BY <1>4, <2>1
  <2>3. a = view
    BY <2>2
  <2> QED
    BY <2>1, <2>3
<1>8. JoinedOneByOne(upTo, ones, n, S)
  BY <1>4, <1>5, <1>6 DEF JoinedOneByOne
<1> QED
  BY <1>1, <1>7, <1>8 DEF ElementsBy

(* The length of a sequence that is given by its elements. *)
LEMMA LengthOf ==
  ASSUME NEW n \in Nat, NEW texts, texts = [i \in 1..n |-> texts[i]]
  PROVE  Len(texts) = n /\ (n = 0 => texts = <<>>) /\ \E S : texts \in Seq(S)
<1>1. PICK S : S = {texts[i] : i \in 1..n}
  OBVIOUS
<1>2. texts \in Seq(S) /\ Len(texts) = n
  <2>1. \A i \in 1..n : texts[i] \in S
    BY <1>1
  <2> QED
    BY <2>1
<1> QED
  BY <1>2

(* A sequence without elements is the empty one. *)
LEMMA EmptyIs ==
  ASSUME NEW S, NEW view \in Seq(S), Len(view) = 0
  PROVE  view = <<>>
OBVIOUS

(* A text has its characters. *)
LEMMA CharactersOf ==
  ASSUME NEW view \in Seq(Char)
  PROVE  \E n \in Nat : n = Len(view) /\ DOMAIN view = 1..n /\ \A i \in 1..n : view[i] \in Char
<1>1. PICK S : S = Char
  OBVIOUS
<1>2. view \in Seq(S)
  BY <1>1
<1>3. Len(view) \in Nat /\ DOMAIN view = 1..Len(view) /\ \A i \in 1..Len(view) : view[i] \in S
  BY <1>2
<1> QED
  BY <1>1, <1>3

(* What clean() makes of a text is quiet, and means the text: outside quotes if a blank
   is escaped, and between them in any case.                                     *)
LEMMA QuietClean ==
  ASSUME NEW view \in Seq(Char), NEW space \in BOOLEAN, NEW where,
         NEW separator \in {",", "=", " ", "\n"},
         separator # " " \/ space \/ where = "quotes"
  PROVE  Quiet(where, clean(view, space), view, separator)
<1> DEFINE text(i) == IF view[i] \in Escaped \/ (space /\ view[i] = " ")
                        THEN <<"\\", view[i]>> ELSE <<view[i]>>
<1>1. PICK n \in Nat : n = Len(view) /\ DOMAIN view = 1..n /\ \A i \in 1..n : view[i] \in Char
  BY CharactersOf
<1>2. PICK texts : texts = [i \in 1..n |-> text(i)]
  OBVIOUS
<1>3. clean(view, space) = FlattenSeq(texts)
  BY <1>1, <1>2, Zenon DEF clean
<1> HIDE DEF text
<1>4. Len(texts) = n /\ (n = 0 => texts = <<>>)
  <2>1. texts = [i \in 1..n |-> texts[i]]
    BY <1>2
  <2> QED
    BY <1>1, <2>1, LengthOf
<1>5. CASE n = 0
  <2>1. view = <<>>
    BY <1>1, <1>5, EmptyIs
  <2>2. texts = <<>>
    BY <1>4, <1>5
  <2>3. FlattenSeq(texts) = texts
    BY <1>4, <1>5, Zenon DEF FlattenSeq
  <2> QED
    BY <1>3, <2>1, <2>2, <2>3, QuietNothing
<1>6. CASE n # 0
  <2>1. PICK ones, upTo : ElementsBy(ones, upTo, view, n, Char)
    BY <1>1, <1>6, ElementsJoined
  <2>2. ones = [i \in 1..n |-> <<view[i]>>] /\ JoinedOneByOne(upTo, ones, n, Char) /\ upTo[n] = view
    BY <2>1, Zenon DEF ElementsBy
  <2>3. ASSUME NEW i \in 1..n PROVE Quiet(where, texts[i], ones[i], separator)
    <3>1. PICK c \in Char : c = view[i]
      BY <1>1
    <3>2. ones[i] = <<c>>
      BY <2>2, <3>1
    <3>3. CASE c \in Escaped \/ (space /\ c = " ")
      <4>1. texts[i] = <<"\\", c>>
        <5>1. text(i) = <<"\\", c>>
          BY <3>1, <3>3, Zenon DEF text
        <5> QED
          BY <1>2, <5>1
      <4>2. separator # "\\"
        OBVIOUS
      <4>3. Quiet(where, <<"\\", c>>, <<c>>, separator)
        BY <4>2, QuietEscaped
      <4> QED
        BY <3>2, <4>1, <4>3
    <3>4. CASE ~(c \in Escaped \/ (space /\ c = " "))
      <4>1. texts[i] = <<c>>
        <5>1. text(i) = <<c>>
          BY <3>1, <3>4, Zenon DEF text
        <5> QED
          BY <1>2, <5>1
      <4>2. c # "\\" /\ c # "\"" /\ (c # separator \/ where # "text")
        BY <3>4 DEF Escaped
      <4>3. Quiet(where, <<c>>, <<c>>, separator)
        BY <4>2, QuietChar
      <4> QED
        BY <3>2, <4>1, <4>3
    <3> QED
      BY <3>3, <3>4
  <2>4. texts \in [1..n -> Seq(Char)]
    <3>1. ASSUME NEW i \in 1..n PROVE texts[i] \in Seq(Char)
      BY <2>3 DEF Quiet
    <3>2. texts = [i \in 1..n |-> texts[i]]
      BY <1>2
    <3> QED
      BY <3>1, <3>2
  <2>5. PICK flat : Joins(flat, texts, n) /\ FlattenSeq(texts) = flat[n]
    BY <1>4, <1>6, Flattened
  <2>6. JoinedOneByOne(flat, texts, n, Char)
    BY <2>4, <2>5, JoinsValues
  <2>7. Quiet(where, flat[n], upTo[n], separator)
    BY <1>6, <2>2, <2>3, <2>6, QuietJoined
  <2> QED
    BY <1>3, <2>2, <2>5, <2>7
<1> QED
  BY <1>5, <1>6

-----------------------------------------------------------------------------
(* A reader outside quotes that waits for any character, and the pieces it has read. *)
AtPieces(text, separator, pieces) ==
  /\ text \in Seq(Char) /\ pieces \in Seq(Seq(Char)) /\ Len(pieces) # 0
  /\ Read(text, separator).next = "any" /\ Read(text, separator).within = "text"
  /\ Read(text, separator).pieces = pieces
Separators == {",", "=", " ", "\n"}

(* Separators are characters. *)
LEMMA SeparatorsAreChars ==
  ASSUME NEW separator \in Separators
  PROVE  separator \in Char
BY Zenon DEF Separators, Char

(* The pieces are what a text is split into. *)
LEMMA SplitIs ==
  ASSUME NEW text, NEW separator, NEW pieces, AtPieces(text, separator, pieces)
  PROVE  Split(text, separator) = pieces
BY Zenon DEF Split, AtPieces

(* To make an empty last piece longer. *)
LEMMA ExtendedEmpty ==
  ASSUME NEW pieces \in Seq(Seq(Char)), NEW y \in Seq(Char)
  PROVE  ExtendedBy(Append(pieces, <<>>), y) = Append(pieces, y)
<1>1. PICK S : S = Seq(Char)
  OBVIOUS
<1>2. PICK P : P = Append(pieces, <<>>)
  OBVIOUS
<1>3. PICK n \in Nat : n = Len(pieces)
  OBVIOUS
<1>4. PICK m \in 1..(n + 1) : m = n + 1 /\ \A i \in 1..(n + 1) : i # m => i \in 1..n
  BY <1>3
<1>5. P \in Seq(S) /\ Len(P) = m /\ P[m] = <<>> /\ \A i \in 1..n : P[i] = pieces[i]
  <2>1. <<>> \in S /\ pieces \in Seq(S)
    BY <1>1, EmptyText
  <2> QED
    BY <1>2, <1>3, <1>4, <2>1, AppendProperties
<1>6. PICK A : A = Append(pieces, y)
  OBVIOUS
<1>7. A \in Seq(S) /\ Len(A) = m /\ A[m] = y /\ \A i \in 1..n : A[i] = pieces[i]
  <2>1. y \in S /\ pieces \in Seq(S)
    BY <1>1
  <2> QED
    BY <1>3, <1>4, <1>6, <2>1, AppendProperties
<1>8. ExtendedBy(P, y) = [P EXCEPT ![m] = y]
  <2>1. <<>> \o y = y
    BY ConcatEmptySeq
  <2>2. P[Len(P)] \o y = y
    BY <1>5, <2>1
  <2> QED
    BY <1>5, <2>2, Zenon DEF ExtendedBy
<1>9. [P EXCEPT ![m] = y] = A
  <2>1. DOMAIN P = 1..(n + 1) /\ A = [i \in 1..(n + 1) |-> A[i]]
    BY <1>4, <1>5, <1>7
  <2>2. \A i \in 1..(n + 1) : (IF i = m THEN y ELSE P[i]) = A[i]
    BY <1>4, <1>5, <1>7
  <2>3. [P EXCEPT ![m] = y] = [i \in 1..(n + 1) |-> IF i = m THEN y ELSE P[i]]
    BY <2>1
  <2> QED
    BY <2>1, <2>2, <2>3
<1> QED
  BY <1>2, <1>6, <1>8, <1>9

(* A quiet text is the first piece. *)
LEMMA FirstPiece ==
  ASSUME NEW separator, NEW y, NEW m, Quiet("text", y, m, separator)
  PROVE  AtPieces(y, separator, <<y>>) /\ Read(y, separator).meant = m
<1>1. y \in Seq(Char) /\ m \in Seq(Char)
  BY DEF Quiet
<1>2. Read(<<>>, separator) = Start
  BY ReadNothing
<1>3. <<>> \o y = y /\ <<>> \o m = m
  BY <1>1, ConcatEmptySeq
<1>4. GrowsAt(<<>>, "text", y, m, separator)
  BY EmptyText DEF Quiet
<1>5. Start.next = "any" /\ Start.within = "text" /\ Start.pieces = <<<<>>>> /\ Start.meant = <<>>
  BY DEF Start
<1>6. Read(y, separator) = Grown(Start, y, m)
  BY <1>2, <1>3, <1>4, <1>5, Zenon DEF GrowsAt
<1>7. PICK none : none = <<>> /\ none \in Seq(Seq(Char))
  <2>1. PICK S : S = Seq(Char)
    OBVIOUS
  <2>2. <<>> \in Seq(S)
    OBVIOUS
  <2> QED
    BY <2>1, <2>2
<1>8. ExtendedBy(Append(none, <<>>), y) = Append(none, y)
  BY <1>1, <1>7, ExtendedEmpty
<1>9. Append(none, <<>>) = <<<<>>>> /\ Append(none, y) = <<y>>
  BY <1>7
<1>10. Read(y, separator) = [next |-> "any", within |-> "text", pieces |-> <<y>>, meant |-> m]
  BY <1>3, <1>5, <1>6, <1>8, <1>9, Zenon DEF Grown
<1>11. <<y>> \in Seq(Seq(Char)) /\ Len(<<y>>) # 0
  <2>1. PICK S : S = Seq(Char)
    OBVIOUS
  <2>2. <<y>> \in Seq(S)
    BY <1>1, <2>1
  <2> QED
    BY <2>1, <2>2
<1>12. /\ Read(y, separator).next = "any" /\ Read(y, separator).within = "text"
       /\ Read(y, separator).pieces = <<y>> /\ Read(y, separator).meant = m
  BY <1>10
<1> QED
  BY <1>1, <1>11, <1>12, Zenon DEF AtPieces

Cut(x, separator, y) == (x \o <<separator>>) \o y

(* A quiet text after a separator is the next piece. *)
LEMMA NextPiece ==
  ASSUME NEW separator \in Separators, NEW x, NEW pieces, AtPieces(x, separator, pieces),
         NEW y, NEW m, Quiet("text", y, m, separator)
  PROVE  AtPieces(Cut(x, separator, y), separator, Append(pieces, y))
<1>1. x \in Seq(Char) /\ y \in Seq(Char) /\ pieces \in Seq(Seq(Char)) /\ Len(pieces) # 0
  BY Zenon DEF Quiet, AtPieces
<1>2. separator \in Char
  BY SeparatorsAreChars
<1>3. PICK cut : cut = Append(x, separator) /\ cut \in Seq(Char)
  BY <1>1, <1>2, AppendProperties
<1>4. cut = x \o <<separator>>
  BY <1>1, <1>2, <1>3, OneMoreIs, Zenon DEF OneMore
<1>5. PICK a : a = Read(x, separator) /\ a.next = "any" /\ a.within = "text" /\ a.pieces = pieces
  BY Zenon DEF AtPieces
<1>6. PICK b : b = Read(cut, separator) /\ b = Step(a, separator, separator)
  BY <1>1, <1>2, <1>3, <1>5, ReadMore
<1>7. b.next = "any" /\ b.within = "text" /\ b.pieces = Append(pieces, <<>>)
  <2>1. separator \notin {"\\", "\""}
    BY DEF Separators
  <2>2. Step(a, separator, separator)
          = [next |-> "any", within |-> "text", pieces |-> Append(pieces, <<>>),
             meant |-> Append(a.meant, separator)]
    BY <1>5, <2>1, Zenon DEF Step
  <2> QED
    BY <1>6, <2>2
<1>8. PICK c : c = Read(cut \o y, separator)
  OBVIOUS
<1>9. c = Grown(b, y, m)
  BY <1>3, <1>6, <1>7, <1>8 DEF Quiet, GrowsAt
<1>10. c.next = "any" /\ c.within = "text" /\ c.pieces = ExtendedBy(Append(pieces, <<>>), y)
  <2>1. c = [next |-> "any", within |-> "text", pieces |-> ExtendedBy(Append(pieces, <<>>), y),
             meant |-> b.meant \o m]
    BY <1>7, <1>9, Zenon DEF Grown
  <2> QED
    BY <2>1
<1>11. c.pieces = Append(pieces, y)
  BY <1>1, <1>10, ExtendedEmpty
<1>12. Append(pieces, y) \in Seq(Seq(Char)) /\ Len(Append(pieces, y)) # 0
  <2>1. PICK S : S = Seq(Char)
    OBVIOUS
  <2>2. Append(pieces, y) \in Seq(S) /\ Len(Append(pieces, y)) = Len(pieces) + 1
    BY <1>1, <2>1, AppendProperties
  <2>3. Len(pieces) \in Nat
    BY <1>1
  <2> QED
    BY <2>1, <2>2, <2>3
<1>13. Cut(x, separator, y) = cut \o y
  BY <1>4, Zenon DEF Cut
<1>14. cut \o y \in Seq(Char)
  BY <1>1, <1>3, ConcatProperties
<1> QED
  BY <1>8, <1>10, <1>11, <1>12, <1>13, <1>14, Zenon DEF AtPieces

-----------------------------------------------------------------------------
(* What a text says whatever it is split by; the keys that are nothing but themselves;
   and the tags and values that the builder joins.                              *)
Says(text, meant) == \A separator \in Separators : Quiet("text", text, meant, separator)
PlainKeys == Char \ ({"\\", "\""} \cup Separators)
Fields == {pair \in Char \X Seq(Char) : pair[1] \in PlainKeys /\ \E meant : Says(pair[2], meant)}
PairText(pair) == <<pair[1], "=">> \o pair[2]

(* What a text says is what is meant by it. *)
LEMMA SaysMeant ==
  ASSUME NEW text, NEW meant, Says(text, meant)
  PROVE  /\ text \in Seq(Char) /\ meant \in Seq(Char) /\ Meant(text) = meant
<1>1. "\n" \in Separators
  BY DEF Separators
<1>2. Quiet("text", text, meant, "\n")
  BY <1>1 DEF Says
<1>3. Read(text, "\n").meant = meant
  BY <1>2, FirstPiece
<1> QED
  BY <1>2, <1>3, Zenon DEF Meant, Quiet

(* A key and a text that says something are one of these. *)
LEMMA FieldIs ==
  ASSUME NEW k \in PlainKeys, NEW text, NEW meant, Says(text, meant)
  PROVE  <<k, text>> \in Fields
<1>1. k \in Char
  BY Zenon DEF PlainKeys
<1>2. text \in Seq(Char)
  BY SaysMeant
<1>3. PICK pair : pair = <<k, text>> /\ pair[1] = k /\ pair[2] = text
  <2>1. <<k, text>>[1] = k
    OBVIOUS
  <2>2. <<k, text>>[2] = text
    OBVIOUS
  <2> QED
    BY <2>1, <2>2
<1>4. pair \in Char \X Seq(Char)
  BY <1>1, <1>2, <1>3
<1> QED
  BY <1>3, <1>4, Zenon DEF Fields

(* Its key and its text. *)
LEMMA FieldHas ==
  ASSUME NEW pair \in Fields
  PROVE  /\ pair[1] \in PlainKeys /\ pair[1] \in Char /\ pair[2] \in Seq(Char)
         /\ Says(pair[2], Meant(pair[2]))
<1>1. pair[1] \in PlainKeys /\ \E meant : Says(pair[2], meant)
  BY Zenon DEF Fields
<1>2. PICK meant : Says(pair[2], meant)
  BY <1>1
<1>3. pair[2] \in Seq(Char) /\ Meant(pair[2]) = meant
  BY <1>2, SaysMeant
<1> QED
  BY <1>1, <1>2, <1>3, Zenon DEF PlainKeys

(* A key with its text is quiet, but where texts are split by what is between them. *)
LEMMA PairQuiet ==
  ASSUME NEW pair \in Fields, NEW separator \in Separators \ {"="}
  PROVE  \E meant : Quiet("text", PairText(pair), meant, separator)
<1>1. PICK k, text : k = pair[1] /\ text = pair[2]
  OBVIOUS
<1>2. k \in PlainKeys /\ k \in Char /\ text \in Seq(Char)
  BY <1>1, FieldHas
<1>3. PICK meant : Quiet("text", text, meant, separator)
  BY <1>1, FieldHas DEF Says
<1>4. k # "\\" /\ k # "\"" /\ k # separator
  BY <1>2, Zenon DEF PlainKeys
<1>5. Quiet("text", <<k>>, <<k>>, separator)
  BY <1>2, <1>4, QuietChar
<1>6. "=" \in Char /\ "=" # "\\" /\ "=" # "\"" /\ "=" # separator
  <2>1. "=" \in Char
    BY SeparatorsAreChars DEF Separators
  <2> QED
    BY <2>1
<1>7. Quiet("text", <<"=">>, <<"=">>, separator)
  BY <1>6, QuietChar
<1>8. Quiet("text", <<k>> \o <<"=">>, <<k>> \o <<"=">>, separator)
  BY <1>5, <1>7, QuietTwice
<1>9. PICK both : both = <<k, "=">> /\ both = <<k>> \o <<"=">>
  BY <1>2, <1>6, TwoTexts
<1>10. Quiet("text", both \o text, both \o meant, separator)
  BY <1>3, <1>8, <1>9, QuietTwice
<1>11. PairText(pair) = both \o text
  BY <1>1, <1>9, Zenon DEF PairText
<1> QED
  BY <1>10, <1>11

(* One element and one more. *)
LEMMA AppendedToOne ==
  ASSUME NEW S, NEW a \in S, NEW b \in S
  PROVE  Append(<<a>>, b) = <<a, b>>
<1>1. PICK x : x = Append(<<a>>, b)
  OBVIOUS
<1>2. x \in Seq(S) /\ Len(x) = 2 /\ x[1] = a /\ x[2] = b
  <2>1. <<a>> \in Seq(S) /\ Len(<<a>>) = 1 /\ <<a>>[1] = a
    OBVIOUS
  <2> QED
    BY <1>1, <2>1, AppendProperties
<1>3. PICK y : y = <<a, b>>
  OBVIOUS
<1>4. y \in Seq(S) /\ Len(y) = 2 /\ y[1] = a /\ y[2] = b
  BY <1>3
<1>5. x = y
  BY <1>2, <1>4
<1> QED
  BY <1>1, <1>3, <1>5

(* Two elements and one more. *)
LEMMA AppendedToTwo ==
  ASSUME NEW S, NEW a \in S, NEW b \in S, NEW c \in S
  PROVE  Append(<<a, b>>, c) = <<a, b, c>>
<1>1. PICK x : x = Append(<<a, b>>, c)
  OBVIOUS
<1>2. x \in Seq(S) /\ Len(x) = 3 /\ x[1] = a /\ x[2] = b /\ x[3] = c
  <2>1. <<a, b>> \in Seq(S) /\ Len(<<a, b>>) = 2 /\ <<a, b>>[1] = a /\ <<a, b>>[2] = b
    OBVIOUS
  <2> QED
    BY <1>1, <2>1, AppendProperties
<1>3. PICK y : y = <<a, b, c>>
  OBVIOUS
<1>4. y \in Seq(S) /\ Len(y) = 3 /\ y[1] = a /\ y[2] = b /\ y[3] = c
  BY <1>3
<1>5. x = y
  BY <1>2, <1>4
<1> QED
  BY <1>1, <1>3, <1>5

(* It is read as the key and what is meant by the text. *)
LEMMA PairRead ==
  ASSUME NEW pair \in Fields
  PROVE  MeantOf(Split(PairText(pair), "=")) = <<<<pair[1]>>, Meant(pair[2])>>
<1>1. PICK k, text : k = pair[1] /\ text = pair[2]
  OBVIOUS
<1>2. k \in PlainKeys /\ k \in Char /\ text \in Seq(Char) /\ Says(text, Meant(text))
  BY <1>1, FieldHas
<1>3. "=" \in Separators /\ "\n" \in Separators
  BY DEF Separators
<1>4. Quiet("text", text, Meant(text), "=")
  BY <1>2, <1>3 DEF Says
<1>5. k # "\\" /\ k # "\"" /\ k # "=" /\ k # "\n"
  BY <1>2, <1>3, Zenon DEF PlainKeys
<1>6. Quiet("text", <<k>>, <<k>>, "=") /\ Quiet("text", <<k>>, <<k>>, "\n")
  BY <1>2, <1>5, QuietChar
<1>7. AtPieces(<<k>>, "=", <<<<k>>>>)
  BY <1>6, FirstPiece
<1>8. AtPieces(Cut(<<k>>, "=", text), "=", Append(<<<<k>>>>, text))
  BY <1>3, <1>4, <1>7, NextPiece
<1>9. Cut(<<k>>, "=", text) = PairText(pair)
  <2>1. "=" \in Char
    BY <1>3, SeparatorsAreChars
  <2>2. <<k>> \o <<"=">> = <<k, "=">>
    BY <1>2, <2>1, TwoTexts
  <2> QED
    BY <1>1, <2>2, Zenon DEF Cut, PairText
<1>10. Append(<<<<k>>>>, text) = <<<<k>>, text>>
  <2>1. PICK S, one : S = Seq(Char) /\ one = <<k>> /\ one \in S /\ text \in S
    BY <1>2, OneText
  <2>2. Append(<<one>>, text) = <<one, text>>
    BY <2>1, AppendedToOne
  <2> QED
    BY <2>1, <2>2
<1>11. PICK pieces : pieces = <<<<k>>, text>> /\ Split(PairText(pair), "=") = pieces
  BY <1>8, <1>9, <1>10, SplitIs
<1>12. Meant(<<k>>) = <<k>>
  BY <1>6, FirstPiece, Zenon DEF Meant
<1>13. MeantOf(pieces) = <<Meant(<<k>>), Meant(text)>>
  <2>1. PICK a, b : a = Meant(<<k>>) /\ b = Meant(text)
    OBVIOUS
  <2>2. DOMAIN pieces = 1..2 /\ pieces[1] = <<k>> /\ pieces[2] = text
    BY <1>11
  <2>3. \A j \in 1..2 : Meant(pieces[j]) = IF j = 1 THEN a ELSE b
    BY <2>1, <2>2
  <2>4. MeantOf(pieces) = [j \in 1..2 |-> IF j = 1 THEN a ELSE b]
    BY <2>2, <2>3, Zenon DEF MeantOf
  <2>5. [j \in 1..2 |-> IF j = 1 THEN a ELSE b] = <<a, b>>
    OBVIOUS
  <2> QED
    BY <2>1, <2>4, <2>5
<1> QED
  BY <1>1, <1>11, <1>12, <1>13

-----------------------------------------------------------------------------
SomeQuiet(text, separator) == \E meant : Quiet("text", text, meant, separator)

(* A text that is quiet, another character between, and a text that is quiet. *)
LEMMA QuietCut ==
  ASSUME NEW separator, NEW c \in Separators \ {separator},
         NEW x, SomeQuiet(x, separator), NEW y, SomeQuiet(y, separator)
  PROVE  SomeQuiet(Cut(x, c, y), separator)
<1>1. PICK m : Quiet("text", x, m, separator)
  BY DEF SomeQuiet
<1>2. PICK o : Quiet("text", y, o, separator)
  BY DEF SomeQuiet
<1>3. c \in Char /\ c # "\\" /\ c # "\"" /\ c # separator
  <2>1. c \in Char
    BY SeparatorsAreChars
  <2>2. c \in {",", "=", " ", "\n"}
    BY DEF Separators
  <2> QED
    BY <2>1, <2>2
<1>4. Quiet("text", <<c>>, <<c>>, separator)
  BY <1>3, QuietChar
<1>5. PICK xc, mc : xc = x \o <<c>> /\ mc = m \o <<c>>
  OBVIOUS
<1>6. Quiet("text", xc, mc, separator)
  BY <1>1, <1>4, <1>5, QuietTwice
<1>7. Quiet("text", xc \o y, mc \o o, separator)
  BY <1>2, <1>6, QuietTwice
<1>8. Cut(x, c, y) = xc \o y
  BY <1>5, Zenon DEF Cut
<1> QED
  BY <1>7, <1>8 DEF SomeQuiet

JoinedBy(flat, pairs, n) ==
  /\ flat[1] = PairText(pairs[1])
  /\ \A i \in 1..n : i # 1 => flat[i] = Cut(flat[i - 1], ",", PairText(pairs[i]))
  /\ \A i \in 1..n : flat[i] \in Seq(Char)
FieldsTo(pairs, n) == DOMAIN pairs = 1..n /\ \A i \in 1..n : pairs[i] \in Fields

(* Keys with their texts are texts. *)
LEMMA PairTyped ==
  ASSUME NEW pair \in Fields
  PROVE  PairText(pair) \in Seq(Char) /\ <<pair[1], "=">> \in Seq(Char)
<1>1. pair[1] \in Char /\ pair[2] \in Seq(Char)
  BY FieldHas
<1>2. "=" \in Char
  BY SeparatorsAreChars DEF Separators
<1>3. <<pair[1], "=">> \in Seq(Char)
  BY <1>1, <1>2, TwoTexts
<1>4. <<pair[1], "=">> \o pair[2] \in Seq(Char)
  BY <1>1, <1>3, ConcatProperties
<1> QED
  BY <1>3, <1>4, Zenon DEF PairText

(* What the builder joins: a comma before each pair but the first. *)
LEMMA JoinedIs ==
  ASSUME NEW n \in Nat, n # 0, NEW pairs, FieldsTo(pairs, n)
  PROVE  \E flat : JoinedBy(flat, pairs, n) /\ Joined(pairs) = flat[n]
<1> DEFINE text(i) == (IF i = 1 THEN <<>> ELSE <<",">>) \o <<pairs[i][1], "=">> \o pairs[i][2]
<1>1. DOMAIN pairs = 1..n /\ \A i \in 1..n : pairs[i] \in Fields
  BY DEF FieldsTo
<1>2. PICK texts : texts = [i \in 1..n |-> text(i)]
  OBVIOUS
<1>3. Joined(pairs) = FlattenSeq(texts)
  BY <1>1, <1>2, Zenon DEF Joined
<1>4. <<",">> \in Seq(Char)
  BY OneText, SeparatorsAreChars DEF Separators
<1>5. text(1) = PairText(pairs[1])
  <2>1. PICK pair \in Fields : pair = pairs[1]
    BY <1>1
  <2>2. PICK key : key = <<pair[1], "=">> /\ key \in Seq(Char)
    BY PairTyped
  <2>3. <<>> \o key = key
    BY <2>2, ConcatEmptySeq
  <2>4. text(1) = (<<>> \o key) \o pair[2]
    BY <2>1, <2>2, Zenon
  <2> QED
    BY <2>1, <2>2, <2>3, <2>4, Zenon DEF PairText
<1>6. ASSUME NEW i \in 1..n, i # 1 PROVE text(i) = <<",">> \o PairText(pairs[i])
  <2>1. PICK key, value, comma : /\ key = <<pairs[i][1], "=">> /\ key \in Seq(Char)
                                 /\ value = pairs[i][2] /\ value \in Seq(Char)
                                 /\ comma = <<",">> /\ comma \in Seq(Char)
    BY <1>1, <1>4, PairTyped, FieldHas
  <2>2. Associates(comma, key, value)
    BY <2>1, Associated
  <2>3. (comma \o key) \o value = comma \o (key \o value)
    BY <2>2, Zenon DEF Associates
  <2>4. text(i) = (comma \o key) \o value
    BY <1>6, <2>1, Zenon
  <2> QED
    BY <2>1, <2>3, <2>4, Zenon DEF PairText
<1> HIDE DEF text
<1>7. texts[1] = PairText(pairs[1])
      /\ \A i \in 1..n : i # 1 => texts[i] = <<",">> \o PairText(pairs[i])
  <2>1. \A i \in 1..n : texts[i] = text(i)
    BY <1>2
  <2>2. 1 \in 1..n
    OBVIOUS
  <2> QED
    BY <1>5, <1>6, <2>1, <2>2, Zenon
<1>8. \A i \in 1..n : texts[i] \in Seq(Char)
  <2> TAKE i \in 1..n
  <2>1. PairText(pairs[i]) \in Seq(Char)
    BY <1>1, PairTyped
  <2>2. <<",">> \o PairText(pairs[i]) \in Seq(Char)
    BY <1>4, <2>1, ConcatProperties
  <2> QED
    BY <1>7, <2>1, <2>2
<1>9. texts = [i \in 1..n |-> texts[i]]
  BY <1>2
<1>10. texts \in [1..n -> Seq(Char)]
  BY <1>8, <1>9
<1>11. Len(texts) = n
  BY <1>9, LengthOf
<1>12. PICK flat : Joins(flat, texts, n) /\ FlattenSeq(texts) = flat[n]
  BY <1>11, Flattened
<1>13. JoinedOneByOne(flat, texts, n, Char)
  BY <1>10, <1>12, JoinsValues
<1>14. flat[1] = PairText(pairs[1]) /\ \A i \in 1..n : flat[i] \in Seq(Char)
  BY <1>7, <1>13 DEF JoinedOneByOne
<1>15. ASSUME NEW i \in 1..n, i # 1 PROVE flat[i] = Cut(flat[i - 1], ",", PairText(pairs[i]))
  <2>1. i - 1 \in 1..n
    BY <1>15
  <2>2. PICK before, comma, pair : /\ before = flat[i - 1] /\ before \in Seq(Char)
                                   /\ comma = <<",">> /\ comma \in Seq(Char)
                                   /\ pair = PairText(pairs[i]) /\ pair \in Seq(Char)
    BY <1>1, <1>4, <1>14, <2>1, PairTyped
  <2>3. flat[i] = before \o texts[i]
    BY <1>13, <1>15, <2>2, Zenon DEF JoinedOneByOne
  <2>4. texts[i] = comma \o pair
    BY <1>7, <1>15, <2>2
  <2>5. Associates(before, comma, pair)
    BY <2>2, Associated
  <2> QED
    BY <2>2, <2>3, <2>4, <2>5, Zenon DEF Associates, Cut
<1>16. JoinedBy(flat, pairs, n)
  BY <1>14, <1>15, Zenon DEF JoinedBy
<1> QED
  BY <1>3, <1>12, <1>16

Spaces == {" ", "\n"}

(* What is joined is quiet where texts are split by blanks and by lines. *)
LEMMA JoinedQuiet ==
  ASSUME NEW n \in Nat, n # 0, NEW pairs, FieldsTo(pairs, n), NEW separator \in Spaces
  PROVE  SomeQuiet(Joined(pairs), separator) /\ Joined(pairs) \in Seq(Char)
<1>1. PICK flat : JoinedBy(flat, pairs, n) /\ Joined(pairs) = flat[n]
  BY JoinedIs
<1>2. \A i \in 1..n : SomeQuiet(PairText(pairs[i]), separator)
  <2>1. separator \in Separators \ {"="}
    BY DEF Separators, Spaces
  <2> QED
    BY <2>1, PairQuiet DEF SomeQuiet, FieldsTo
<1>3. PICK T : T = {i \in 1..n : ~SomeQuiet(flat[i], separator)}
  OBVIOUS
<1>4. T = {}
  <2> SUFFICES ASSUME T # {} PROVE FALSE
    OBVIOUS
  <2>1. PICK m \in T : \A k \in T : m <= k
    <3>1. T \in SUBSET Nat
      BY <1>3
    <3> QED
      BY <3>1, LeastNumber
  <2>2. m \in 1..n /\ ~SomeQuiet(flat[m], separator)
    BY <1>3
  <2>3. m # 1
    BY <1>1, <1>2, <2>2, Zenon DEF JoinedBy
  <2>4. PICK p \in 1..n : p = m - 1 /\ ~(m <= p)
    BY <2>2, <2>3
  <2>5. SomeQuiet(flat[p], separator)
    BY <1>3, <2>1, <2>4
  <2>6. flat[m] = Cut(flat[p], ",", PairText(pairs[m]))
    BY <1>1, <2>2, <2>3, <2>4, Zenon DEF JoinedBy
  <2>7. "," \in Separators \ {separator}
    BY DEF Separators, Spaces
  <2> QED
    BY <1>2, <2>2, <2>5, <2>6, <2>7, QuietCut
<1>5. n \in 1..n
  OBVIOUS
<1> QED
  BY <1>1, <1>3, <1>4, <1>5 DEF JoinedBy

-----------------------------------------------------------------------------
CutAfter(x, f, y) == x \o Cut(f, ",", y) = Cut(x \o f, ",", y)

(* A text before all does not matter to a separator. *)
LEMMA CutsAfter ==
  ASSUME NEW x \in Seq(Char), NEW f \in Seq(Char), NEW y \in Seq(Char)
  PROVE  CutAfter(x, f, y)
<1>1. PICK comma : comma = <<",">> /\ comma \in Seq(Char)
  BY OneText, SeparatorsAreChars DEF Separators
<1>2. PICK fc : fc = f \o comma /\ fc \in Seq(Char)
  BY <1>1, ConcatProperties
<1>3. Associates(x, fc, y)
  BY <1>2, Associated
<1>4. Associates(x, f, comma)
  BY <1>1, Associated
<1> QED
  BY <1>1, <1>2, <1>3, <1>4, Zenon DEF CutAfter, Cut, Associates

AppendsAfter(P, U, e) == Append(P \o U, e) = P \o (U \o <<e>>)

(* One element more, after two sequences. *)
LEMMA AppendedAfter ==
  ASSUME NEW S, NEW P \in Seq(S), NEW U \in Seq(S), NEW e \in S
  PROVE  AppendsAfter(P, U, e)
<1>1. PICK one : one = <<e>> /\ one \in Seq(S)
  <2>1. <<e>> \in Seq(S)
    OBVIOUS
  <2> QED
    BY <2>1
<1>2. P \o U \in Seq(S)
  BY ConcatProperties
<1>3. Append(P \o U, e) = (P \o U) \o one
  BY <1>1, <1>2, AppendIsConcat
<1>4. (P \o U) \o one = P \o (U \o one)
  BY <1>1, ConcatAssociative
<1> QED
  BY <1>1, <1>3, <1>4, Zenon DEF AppendsAfter

ReadTo(x, flat, P, upTo, i) == AtPieces(x \o flat[i], ",", P \o upTo[i])
TextsOf(texts, pairs, n) == \A i \in 1..n : texts[i] = PairText(pairs[i])

(* Once the first of the pairs is read as a piece, each of them is. *)
LEMMA JoinedPieces ==
  ASSUME NEW n \in Nat, n # 0, NEW pairs, FieldsTo(pairs, n), NEW flat, JoinedBy(flat, pairs, n),
         NEW texts, TextsOf(texts, pairs, n),
         NEW ones, NEW upTo, ElementsBy(ones, upTo, texts, n, Seq(Char)),
         NEW x \in Seq(Char), NEW P \in Seq(Seq(Char)), ReadTo(x, flat, P, upTo, 1)
  PROVE  AtPieces(x \o flat[n], ",", P \o texts)
<1>1. PICK T : T = {i \in 1..n : ~ReadTo(x, flat, P, upTo, i)}
  OBVIOUS
<1>2. T = {}
  <2> SUFFICES ASSUME T # {} PROVE FALSE
    OBVIOUS
  <2>1. PICK m \in T : \A k \in T : m <= k
    <3>1. T \in SUBSET Nat
      BY <1>1
    <3> QED
      BY <3>1, LeastNumber
  <2>2. m \in 1..n /\ ~ReadTo(x, flat, P, upTo, m)
    BY <1>1
  <2>3. m # 1
    BY <2>2
  <2>4. PICK p \in 1..n : p = m - 1 /\ ~(m <= p)
    BY <2>2, <2>3
  <2>5. AtPieces(x \o flat[p], ",", P \o upTo[p])
    BY <1>1, <2>1, <2>4 DEF ReadTo
  <2>6. PICK f, y : f = flat[p] /\ f \in Seq(Char) /\ y = PairText(pairs[m]) /\ y \in Seq(Char)
    <3>1. pairs[m] \in Fields
      BY <2>2 DEF FieldsTo
    <3>2. flat[p] \in Seq(Char)
      BY DEF JoinedBy
    <3> QED
      BY <3>1, <3>2, PairTyped
  <2>7. flat[m] = Cut(f, ",", y)
    BY <2>2, <2>3, <2>4, <2>6, Zenon DEF JoinedBy
  <2>8. x \o flat[m] = Cut(x \o f, ",", y)
    <3>1. CutAfter(x, f, y)
      BY <2>6, CutsAfter
    <3> QED
      BY <2>7, <3>1, Zenon DEF CutAfter
  <2>9. PICK U : U = upTo[p] /\ U \in Seq(Seq(Char))
    BY DEF ElementsBy, JoinedOneByOne
  <2>10. upTo[m] = U \o <<y>>
    <3>1. upTo[m] = U \o ones[m]
      BY <2>2, <2>3, <2>4, <2>9, Zenon DEF ElementsBy, JoinedOneByOne
    <3>2. ones[m] = <<texts[m]>>
      BY <2>2 DEF ElementsBy
    <3> QED
      BY <2>2, <2>6, <3>1, <3>2 DEF TextsOf
  <2>11. Append(P \o U, y) = P \o upTo[m]
    <3>1. PICK S : S = Seq(Char)
      OBVIOUS
    <3>2. AppendsAfter(P, U, y)
      BY <2>6, <2>9, <3>1, AppendedAfter
    <3> QED
      BY <2>10, <3>2, Zenon DEF AppendsAfter
  <2>12. PICK meant : Quiet("text", y, meant, ",")
    <3>1. pairs[m] \in Fields
      BY <2>2 DEF FieldsTo
    <3>2. "," \in Separators \ {"="}
      BY DEF Separators
    <3> QED
      BY <2>6, <3>1, <3>2, PairQuiet
  <2>13. "," \in Separators
    BY DEF Separators
  <2>14. AtPieces(Cut(x \o f, ",", y), ",", Append(P \o U, y))
    <3>1. PICK before, pieces : before = x \o f /\ pieces = P \o U /\ AtPieces(before, ",", pieces)
      BY <2>5, <2>6, <2>9
    <3>2. AtPieces(Cut(before, ",", y), ",", Append(pieces, y))
      BY <2>12, <2>13, <3>1, NextPiece
    <3> QED
      BY <3>1, <3>2
  <2> QED
    BY <2>2, <2>8, <2>11, <2>14, Zenon DEF ReadTo
<1>3. n \in 1..n
  OBVIOUS
<1>4. AtPieces(x \o flat[n], ",", P \o upTo[n])
  BY <1>1, <1>2, <1>3 DEF ReadTo
<1> QED
  BY <1>4 DEF ElementsBy

(* The texts of pairs, as elements of one sequence. *)
LEMMA PairTexts ==
  ASSUME NEW n \in Nat, n # 0, NEW pairs, FieldsTo(pairs, n)
  PROVE  \E texts \in Seq(Seq(Char)) :
           /\ Len(texts) = n /\ TextsOf(texts, pairs, n)
           /\ \E ones, upTo : ElementsBy(ones, upTo, texts, n, Seq(Char)) /\ upTo[1] = <<texts[1]>>
<1>1. PICK S : S = Seq(Char)
  OBVIOUS
<1>2. PICK texts : texts = [i \in 1..n |-> PairText(pairs[i])]
  OBVIOUS
<1>3. \A i \in 1..n : texts[i] \in S /\ texts[i] = PairText(pairs[i])
  BY <1>1, <1>2, PairTyped DEF FieldsTo
<1>4. texts = [i \in 1..n |-> texts[i]]
  BY <1>2
<1>5. texts \in Seq(S) /\ Len(texts) = n
  <2>1. texts \in [1..n -> S]
    BY <1>3, <1>4
  <2>2. Len(texts) = n
    BY <1>4, LengthOf
  <2> QED
    BY <2>1, <2>2
<1>6. PICK ones, upTo : ElementsBy(ones, upTo, texts, n, S)
  BY <1>5, ElementsJoined
<1>7. 1 \in 1..n
  OBVIOUS
<1>8. upTo[1] = <<texts[1]>>
  BY <1>6, <1>7 DEF ElementsBy, JoinedOneByOne
<1> QED
  BY <1>1, <1>3, <1>5, <1>6, <1>8 DEF TextsOf

-----------------------------------------------------------------------------
Meanings(read, pairs, n) ==
  Len(read) = n /\ DOMAIN read = 1..n /\ \A i \in 1..n : read[i] = <<<<pairs[i][1]>>, Meant(pairs[i][2])>>

PairsAre(read, texts, n) == read = [i \in 1..n |-> MeantOf(Split(texts[i], "="))]

(* What is read of a text that is split into the texts of pairs. *)
LEMMA PairsOf ==
  ASSUME NEW text, NEW texts, Split(text, ",") = texts, NEW n, DOMAIN texts = 1..n
  PROVE  PairsAre(Pairs(text), texts, n)
BY Zenon DEF Pairs, PairsAre

(* The values are read as what the builder was given. *)
LEMMA ValuesRead ==
  ASSUME NEW n \in Nat, n # 0, NEW pairs, FieldsTo(pairs, n)
  PROVE  Meanings(Pairs(Joined(pairs)), pairs, n)
<1>1. PICK flat : JoinedBy(flat, pairs, n) /\ Joined(pairs) = flat[n]
  BY JoinedIs
<1>2. PICK texts \in Seq(Seq(Char)) :
        /\ Len(texts) = n /\ TextsOf(texts, pairs, n)
        /\ \E ones, upTo : ElementsBy(ones, upTo, texts, n, Seq(Char)) /\ upTo[1] = <<texts[1]>>
  BY PairTexts
<1>3. PICK ones, upTo : ElementsBy(ones, upTo, texts, n, Seq(Char)) /\ upTo[1] = <<texts[1]>>
  BY <1>2
<1>4. PICK P : P = <<>> /\ P \in Seq(Seq(Char))
  <2>1. PICK S : S = Seq(Char)
    OBVIOUS
  <2>2. <<>> \in Seq(S)
    OBVIOUS
  <2> QED
    BY <2>1, <2>2
<1>5. PICK one \in 1..n : one = 1
  OBVIOUS
<1>6. ReadTo(<<>>, flat, P, upTo, 1)
  <2>1. PICK y : y = flat[1] /\ y = texts[1] /\ y = PairText(pairs[1]) /\ y \in Seq(Char)
    BY <1>1, <1>2, <1>5 DEF JoinedBy, TextsOf
  <2>2. PICK meant : Quiet("text", y, meant, ",")
    <3>1. pairs[1] \in Fields
      BY <1>5 DEF FieldsTo
    <3>2. "," \in Separators \ {"="}
      BY DEF Separators
    <3> QED
      BY <2>1, <3>1, <3>2, PairQuiet
  <2>3. AtPieces(y, ",", <<y>>)
    BY <2>2, FirstPiece
  <2>4. <<>> \o y = y
    BY <2>1, ConcatEmptySeq
  <2>5. P \o <<y>> = <<y>>
    <3>1. PICK S : S = Seq(Char)
      OBVIOUS
    <3>2. <<y>> \in Seq(S)
      BY <2>1, <3>1
    <3> QED
      BY <1>4, <3>2, ConcatEmptySeq
  <2> QED
    BY <1>3, <2>1, <2>3, <2>4, <2>5, Zenon DEF ReadTo
<1>7. AtPieces(<<>> \o flat[n], ",", P \o texts)
  BY <1>1, <1>2, <1>3, <1>4, <1>6, EmptyText, JoinedPieces
<1>8. P \o texts = texts
  BY <1>4, ConcatEmptySeq
<1>9. <<>> \o flat[n] = Joined(pairs)
  <2>1. n \in 1..n
    OBVIOUS
  <2>2. flat[n] \in Seq(Char)
    BY <1>1, <2>1 DEF JoinedBy
  <2> QED
    BY <1>1, <2>2, ConcatEmptySeq
<1>10. Split(Joined(pairs), ",") = texts
  BY <1>7, <1>8, <1>9, SplitIs
<1>11. PICK read : read = Pairs(Joined(pairs)) /\ read = [i \in 1..n |-> MeantOf(Split(texts[i], "="))]
  <2>1. DOMAIN texts = 1..n
    BY <1>2
  <2> QED
    <3>1. PairsAre(Pairs(Joined(pairs)), texts, n)
      BY <1>10, <2>1, PairsOf
    <3> QED
      BY <3>1, Zenon DEF PairsAre
<1>12. read = [i \in 1..n |-> read[i]]
  BY <1>11
<1>13. Len(read) = n /\ DOMAIN read = 1..n
  BY <1>12, LengthOf
<1>14. ASSUME NEW i \in 1..n PROVE read[i] = <<<<pairs[i][1]>>, Meant(pairs[i][2])>>
  <2>1. pairs[i] \in Fields /\ texts[i] = PairText(pairs[i])
    BY <1>2 DEF FieldsTo, TextsOf
  <2>2. read[i] = MeantOf(Split(texts[i], "="))
    BY <1>11
  <2> QED
    BY <2>1, <2>2, PairRead
<1> QED
  BY <1>11, <1>13, <1>14, Zenon DEF Meanings

(* A sequence of one. *)
LEMMA OneOf ==
  ASSUME NEW S, NEW c \in S
  PROVE  <<c>> \in Seq(S) /\ Len(<<c>>) = 1
OBVIOUS

(* The words the builder starts a record with are characters of their own. *)
LEMMA NameIs ==
  /\ "name" \in Char /\ "name" # "\\" /\ "name" # "\"" /\ "name" \notin Separators
  /\ "," \in Char /\ "," \in Separators \ {"="}
<1>1. "name" \in Char /\ "," \in Char
  BY Zenon DEF Char
<1> QED
  BY <1>1 DEF Separators

(* So are the tags, after the name. *)
LEMMA TagsRead ==
  ASSUME NEW n \in Nat, n # 0, NEW pairs, FieldsTo(pairs, n)
  PROVE  Meanings(Tail(Pairs(<<"name", ",">> \o Joined(pairs))), pairs, n)
<1>1. PICK flat : JoinedBy(flat, pairs, n) /\ Joined(pairs) = flat[n]
  BY JoinedIs
<1>2. PICK texts \in Seq(Seq(Char)) :
        /\ Len(texts) = n /\ TextsOf(texts, pairs, n)
        /\ \E ones, upTo : ElementsBy(ones, upTo, texts, n, Seq(Char)) /\ upTo[1] = <<texts[1]>>
  BY PairTexts
<1>3. PICK ones, upTo : ElementsBy(ones, upTo, texts, n, Seq(Char)) /\ upTo[1] = <<texts[1]>>
  BY <1>2
<1>4. PICK name, x : /\ name = <<"name">> /\ name \in Seq(Char)
                     /\ x = <<"name", ",">> /\ x \in Seq(Char) /\ x = name \o <<",">>
  <2>1. <<"name">> \in Seq(Char)
    BY NameIs, OneText
  <2>2. <<"name", ",">> \in Seq(Char) /\ <<"name">> \o <<",">> = <<"name", ",">>
    BY NameIs, TwoTexts
  <2> QED
    BY <2>1, <2>2
<1>5. PICK S : S = Seq(Char)
  OBVIOUS
<1>6. PICK P : P = <<name>> /\ P \in Seq(S) /\ Len(P) = 1
  <2>1. <<name>> \in Seq(S) /\ Len(<<name>>) = 1
    BY <1>4, <1>5, OneOf
  <2> QED
    BY <2>1
<1>7. PICK one \in 1..n : one = 1
  OBVIOUS
<1>8. ReadTo(x, flat, P, upTo, 1)
  <2>1. PICK y : y = flat[1] /\ y = texts[1] /\ y = PairText(pairs[1]) /\ y \in Seq(Char)
    BY <1>1, <1>2, <1>7 DEF JoinedBy, TextsOf
  <2>2. PICK meant : Quiet("text", y, meant, ",")
    <3>1. pairs[1] \in Fields
      BY <1>7 DEF FieldsTo
    <3> QED
      BY <2>1, <3>1, NameIs, PairQuiet
  <2>3. Quiet("text", name, name, ",")
    <3>1. "name" # ","
      OBVIOUS
    <3> QED
      BY <1>4, <3>1, NameIs, QuietChar
  <2>4. AtPieces(name, ",", P)
    BY <1>6, <2>3, FirstPiece
  <2>5. "," \in Separators
    BY NameIs
  <2>6. AtPieces(Cut(name, ",", y), ",", Append(P, y))
    BY <2>2, <2>4, <2>5, NextPiece
  <2>7. Cut(name, ",", y) = x \o y
    BY <1>4, Zenon DEF Cut
  <2>8. Append(P, y) = P \o <<y>>
    BY <1>5, <1>6, <2>1, AppendIsConcat
  <2> QED
    BY <1>3, <2>1, <2>6, <2>7, <2>8, Zenon DEF ReadTo
<1>9. AtPieces(x \o flat[n], ",", P \o texts)
  BY <1>1, <1>2, <1>3, <1>4, <1>5, <1>6, <1>8, JoinedPieces
<1>10. PICK all : /\ all = P \o texts /\ all \in Seq(S) /\ Len(all) = n + 1
                  /\ \A i \in 1..n : all[i + 1] = texts[i]
  <2>1. texts \in Seq(S)
    BY <1>2, <1>5
  <2>2. P \o texts \in Seq(S) /\ Len(P \o texts) = n + 1
    BY <1>2, <1>6, <2>1, ConcatProperties
  <2>3. \A i \in 1..n : (P \o texts)[i + 1] = texts[i]
    BY <1>2, <1>6, <2>1
  <2> QED
    BY <2>2, <2>3
<1>11. PICK text : text = <<"name", ",">> \o Joined(pairs) /\ Split(text, ",") = all
  BY <1>1, <1>4, <1>9, <1>10, SplitIs
<1>12. PICK read : read = Pairs(text) /\ read = [i \in 1..(n + 1) |-> MeantOf(Split(all[i], "="))]
  <2>1. DOMAIN all = 1..(n + 1)
    BY <1>10
  <2> QED
    <3>1. PairsAre(Pairs(text), all, n + 1)
      BY <1>11, <2>1, PairsOf
    <3> QED
      BY <3>1, Zenon DEF PairsAre
<1>13. PICK R : read \in Seq(R) /\ Len(read) = n + 1
  <2>1. read = [i \in 1..(n + 1) |-> read[i]]
    BY <1>12
  <2>2. n + 1 \in Nat
    OBVIOUS
  <2> QED
    BY <2>1, <2>2, LengthOf
<1>14. /\ Len(Tail(read)) = n /\ DOMAIN Tail(read) = 1..n
       /\ \A i \in 1..n : Tail(read)[i] = read[i + 1]
  BY <1>13
<1>15. ASSUME NEW i \in 1..n PROVE Tail(read)[i] = <<<<pairs[i][1]>>, Meant(pairs[i][2])>>
  <2>1. pairs[i] \in Fields /\ texts[i] = PairText(pairs[i])
    BY <1>2 DEF FieldsTo, TextsOf
  <2>2. PICK j \in 1..(n + 1) : j = i + 1
    OBVIOUS
  <2>3. read[j] = MeantOf(Split(all[j], "=")) /\ all[j] = texts[i] /\ Tail(read)[i] = read[j]
    BY <1>10, <1>12, <1>14, <2>2
  <2> QED
    BY <2>1, <2>3, PairRead
<1> QED
  BY <1>11, <1>12, <1>14, <1>15, Zenon DEF Meanings

-----------------------------------------------------------------------------
(* What the builder ends a record with. *)
LEMMA EndIs ==
  /\ " " \in Char /\ "time" \in Char /\ "\n" \in Char
  /\ "time" # "\\" /\ "time" # "\"" /\ "time" \notin Separators
  /\ " " \in Separators /\ "\n" \in Separators /\ " " \in Spaces /\ "\n" \in Spaces
<1>1. " " \in Char /\ "time" \in Char /\ "\n" \in Char
  BY Zenon DEF Char
<1> QED
  BY <1>1 DEF Separators, Spaces

EndsWith(x) == x \o <<" ", "time", "\n">> = Cut(Cut(x, " ", <<"time">>), "\n", <<>>)

(* Its end is a blank, the time and the end of a line. *)
LEMMA Ends ==
  ASSUME NEW x \in Seq(Char)
  PROVE  EndsWith(x)
<1>1. PICK a, b, c, ab, abc :
        /\ a = <<" ">> /\ b = <<"time">> /\ c = <<"\n">>
        /\ a \in Seq(Char) /\ b \in Seq(Char) /\ c \in Seq(Char)
        /\ ab = a \o b /\ ab \in Seq(Char) /\ abc = <<" ", "time", "\n">> /\ abc = ab \o c
  <2>1. <<" ">> \in Seq(Char) /\ <<"time">> \in Seq(Char) /\ <<"\n">> \in Seq(Char)
    BY EndIs, OneText
  <2>2. <<" ", "time">> \in Seq(Char) /\ <<" ">> \o <<"time">> = <<" ", "time">>
    BY EndIs, TwoTexts
  <2>3. Append(<<" ", "time">>, "\n") = <<" ", "time", "\n">>
    BY EndIs, AppendedToTwo
  <2>4. Append(<<" ", "time">>, "\n") = <<" ", "time">> \o <<"\n">>
    BY <2>2, EndIs, OneMoreIs, Zenon DEF OneMore
  <2> QED
    BY <2>1, <2>2, <2>3, <2>4, Zenon
<1>2. PICK xa : xa = x \o a /\ xa \in Seq(Char)
  BY <1>1, ConcatProperties
<1>3. PICK xab : xab = xa \o b /\ xab \in Seq(Char)
  BY <1>1, <1>2, ConcatProperties
<1>4. Associates(x, ab, c) /\ Associates(x, a, b)
  BY <1>1, Associated
<1>5. x \o abc = xab \o c
  BY <1>1, <1>2, <1>3, <1>4, Zenon DEF Associates
<1>6. xab \o c \in Seq(Char)
  BY <1>1, <1>3, ConcatProperties
<1>7. (xab \o c) \o <<>> = xab \o c
  BY <1>6, ConcatEmptySeq
<1> QED
  BY <1>1, <1>2, <1>3, <1>5, <1>7, Zenon DEF EndsWith, Cut

Lines(text, tags, values) ==
  \E body : Split(text, "\n") = <<body, <<>>>> /\ Split(body, " ") = <<tags, values, <<"time">>>>

(* A record is read as one line of three parts. *)
LEMMA RecordRead ==
  ASSUME NEW n \in Nat, n # 0, NEW tags, FieldsTo(tags, n),
         NEW k \in Nat, k # 0, NEW values, FieldsTo(values, k)
  PROVE  Lines(endRecord(tags, values), <<"name", ",">> \o Joined(tags), Joined(values))
<1>1. PICK name, T, V : /\ name = <<"name">> /\ T = Joined(tags) /\ V = Joined(values)
                        /\ T \in Seq(Char) /\ V \in Seq(Char)
                        /\ \A separator \in Spaces : SomeQuiet(T, separator) /\ SomeQuiet(V, separator)
  <2>1. " " \in Spaces
    BY EndIs
  <2> QED
    BY <2>1, JoinedQuiet
<1>2. PICK A : A = <<"name", ",">> \o T /\ A = Cut(name, ",", T)
  <2>1. <<"name">> \o <<",">> = <<"name", ",">>
    BY NameIs, TwoTexts
  <2> QED
    BY <1>1, <2>1, Zenon DEF Cut
<1>3. \A separator \in Spaces : SomeQuiet(A, separator)
  <2> TAKE separator \in Spaces
  <2>1. separator # "name" /\ separator # "," /\ separator \in Separators
    BY DEF Spaces, Separators
  <2>2. Quiet("text", name, name, separator)
    BY <1>1, <2>1, NameIs, QuietChar
  <2>3. "," \in Separators \ {separator}
    BY <2>1, NameIs
  <2> QED
    BY <1>1, <1>2, <2>2, <2>3, QuietCut DEF SomeQuiet
<1>4. PICK time : time = <<"time">> /\ \A separator \in Spaces : Quiet("text", time, time, separator)
  <2>1. \A separator \in Spaces : separator # "time"
    BY DEF Spaces
  <2>2. \A separator \in Spaces : Quiet("text", <<"time">>, <<"time">>, separator)
    BY <2>1, EndIs, QuietChar
  <2> QED
    BY <2>2
<1>5. PICK AV : AV = Cut(A, " ", V)
  OBVIOUS
<1>6. PICK body : body = Cut(AV, " ", time)
  OBVIOUS
<1>7. AtPieces(A, " ", <<A>>)
  BY <1>3, EndIs, FirstPiece DEF SomeQuiet
<1>8. AtPieces(AV, " ", Append(<<A>>, V))
  BY <1>1, <1>5, <1>7, EndIs, NextPiece DEF SomeQuiet
<1>9. AtPieces(body, " ", Append(Append(<<A>>, V), time))
  BY <1>4, <1>6, <1>8, EndIs, NextPiece
<1>10. A \in Seq(Char) /\ V \in Seq(Char) /\ time \in Seq(Char) /\ AV \in Seq(Char)
  <2>1. Quiet("text", time, time, " ")
    BY <1>4, EndIs
  <2> QED
    BY <1>1, <1>7, <1>8, <2>1, Zenon DEF AtPieces, Quiet
<1>11. Append(Append(<<A>>, V), time) = <<A, V, time>>
  <2>1. PICK S : S = Seq(Char)
    OBVIOUS
  <2>2. Append(<<A>>, V) = <<A, V>>
    BY <1>10, <2>1, AppendedToOne
  <2>3. Append(<<A, V>>, time) = <<A, V, time>>
    BY <1>10, <2>1, AppendedToTwo
  <2> QED
    BY <2>2, <2>3
<1>12. Split(body, " ") = <<A, V, time>>
  BY <1>9, <1>11, SplitIs
<1>13. SomeQuiet(body, "\n")
  <2>1. " " \in Separators \ {"\n"}
    BY EndIs
  <2>2. SomeQuiet(AV, "\n")
    BY <1>1, <1>3, <1>5, <2>1, EndIs, QuietCut
  <2>3. SomeQuiet(time, "\n")
    BY <1>4, EndIs DEF SomeQuiet
  <2> QED
    BY <1>6, <2>1, <2>2, <2>3, QuietCut
<1>14. AtPieces(body, "\n", <<body>>)
  BY <1>13, FirstPiece DEF SomeQuiet
<1>15. Quiet("text", <<>>, <<>>, "\n")
  BY QuietNothing
<1>16. AtPieces(Cut(body, "\n", <<>>), "\n", Append(<<body>>, <<>>))
  BY <1>14, <1>15, EndIs, NextPiece
<1>17. Append(<<body>>, <<>>) = <<body, <<>>>>
  <2>1. PICK S : S = Seq(Char)
    OBVIOUS
  <2>2. body \in S /\ <<>> \in S
    BY <1>14, <2>1, EmptyText DEF AtPieces
  <2> QED
    BY <2>2, AppendedToOne
<1>18. endRecord(tags, values) = Cut(body, "\n", <<>>)
  <2>1. EndsWith(AV)
    BY <1>10, Ends
  <2>2. endRecord(tags, values) = ((A \o <<" ">>) \o V) \o <<" ", "time", "\n">>
    BY <1>1, <1>2, Zenon DEF endRecord
  <2> QED
    BY <1>4, <1>5, <1>6, <2>1, <2>2, Zenon DEF EndsWith, Cut
<1>19. Split(endRecord(tags, values), "\n") = <<body, <<>>>>
  BY <1>16, <1>17, <1>18, SplitIs
<1> QED
  BY <1>1, <1>2, <1>4, <1>12, <1>19, Zenon DEF Lines

-----------------------------------------------------------------------------
Keys == {"method", "resource", "ipaddress", "mimeType", "size", "time", "status", "latitude",
         "longitude", "city", "continent", "country", "country_iso_code", "subdivision"}

(* The keys of a record are nothing but themselves. *)
LEMMA KeysArePlain ==
  ASSUME NEW k \in Keys
  PROVE  k \in PlainKeys
<1>1. k \in Char
  BY Zenon DEF Keys, Char
<1>2. k # "\\" /\ k # "\"" /\ k \notin Separators
  BY DEF Keys, Separators
<1> QED
  BY <1>1, <1>2, Zenon DEF PlainKeys

AddsAs(pair, k, meant) == pair \in Fields /\ pair[1] = k /\ Meant(pair[2]) = meant

(* A key and a text that says something add what it says. *)
LEMMA Adds ==
  ASSUME NEW k \in Keys, NEW text, NEW meant, Says(text, meant)
  PROVE  AddsAs(<<k, text>>, k, meant)
<1>1. <<k, text>> \in Fields
  BY KeysArePlain, FieldIs
<1>2. Meant(text) = meant
  BY SaysMeant
<1>3. PICK pair : pair = <<k, text>> /\ pair[1] = k /\ pair[2] = text
  <2>1. <<k, text>>[1] = k
    OBVIOUS
  <2>2. <<k, text>>[2] = text
    OBVIOUS
  <2> QED
    BY <2>1, <2>2
<1> QED
  BY <1>1, <1>2, <1>3, Zenon DEF AddsAs

(* A tag adds its text. *)
LEMMA TagAdds ==
  ASSUME NEW k \in Keys, NEW view \in Seq(Char)
  PROVE  AddsAs(addTag(k, view), k, view)
<1>1. ASSUME NEW separator \in Separators PROVE Quiet("text", clean(view, TRUE), view, separator)
  <2>1. separator \in {",", "=", " ", "\n"}
    BY DEF Separators
  <2> QED
    BY <2>1, QuietClean
<1>2. Says(clean(view, TRUE), view)
  BY <1>1, Zenon DEF Says
<1> QED
  BY <1>2, Adds, Zenon DEF addTag

(* So does a value between quotes. *)
LEMMA TextAdds ==
  ASSUME NEW k \in Keys, NEW view \in Seq(Char)
  PROVE  AddsAs(addText(k, view), k, view)
<1>1. PICK quoted : quoted = <<"\"">> \o clean(view, FALSE) \o <<"\"">>
  OBVIOUS
<1>2. ASSUME NEW separator \in Separators PROVE Quiet("text", quoted, view, separator)
  <2>1. separator \in {",", "=", " ", "\n"}
    BY DEF Separators
  <2>2. Quiet("quotes", clean(view, FALSE), view, separator)
    BY <2>1, QuietClean
  <2>3. separator # "\""
    BY <2>1
  <2>4. Quiet("text", <<"\"">> \o clean(view, FALSE) \o <<"\"">>, view, separator)
    BY <2>2, <2>3, QuietQuotes
  <2> QED
    BY <1>1, <2>4
<1>3. Says(quoted, view)
  BY <1>2, Zenon DEF Says
<1>4. AddsAs(<<k, quoted>>, k, view)
  BY <1>3, Adds
<1> QED
  BY <1>1, <1>4, Zenon DEF addText

(* And a number. *)
LEMMA NumberAdds ==
  ASSUME NEW k \in Keys
  PROVE  AddsAs(addNumber(k), k, <<"1">>)
<1>1. "1" \in Char
  BY Zenon DEF Char
<1>2. ASSUME NEW separator \in Separators PROVE Quiet("text", <<"1">>, <<"1">>, separator)
  <2>1. separator # "1"
    BY DEF Separators
  <2>2. "1" # "\\" /\ "1" # "\""
    OBVIOUS
  <2> QED
    BY <1>1, <2>1, <2>2, QuietChar
<1>3. Says(<<"1">>, <<"1">>)
  BY <1>2, Zenon DEF Says
<1> QED
  BY <1>3, Adds, Zenon DEF addNumber

-----------------------------------------------------------------------------
(* Three sequences joined. *)
LEMMA ThreeJoined ==
  ASSUME NEW S, NEW A \in Seq(S), NEW M \in Seq(S), NEW L \in Seq(S), NEW T, T = (A \o M) \o L
  PROVE  /\ T \in Seq(S) /\ Len(T) = Len(A) + Len(M) + Len(L)
         /\ \A i \in 1..Len(A) : T[i] = A[i]
         /\ \A i \in 1..Len(M) : T[Len(A) + i] = M[i]
         /\ \A i \in 1..Len(L) : T[Len(A) + Len(M) + i] = L[i]
<1>1. PICK AM : AM = A \o M
  OBVIOUS
<1>2. AM \in Seq(S) /\ Len(AM) = Len(A) + Len(M)
  BY <1>1, ConcatProperties
<1>3. \A i \in 1..Len(A) : AM[i] = A[i]
  BY <1>1
<1>4. \A i \in 1..Len(M) : AM[Len(A) + i] = M[i]
  BY <1>1
<1>5. T = AM \o L
  BY <1>1
<1>6. T \in Seq(S) /\ Len(T) = Len(AM) + Len(L)
  BY <1>2, <1>5, ConcatProperties
<1>7. \A i \in 1..Len(AM) : T[i] = AM[i]
  BY <1>2, <1>5
<1>8. \A i \in 1..Len(L) : T[Len(AM) + i] = L[i]
  BY <1>2, <1>5
<1>9. Len(A) \in Nat /\ Len(M) \in Nat /\ Len(L) \in Nat
  OBVIOUS
<1>10. \A i \in 1..Len(A) : i \in 1..Len(AM)
  BY <1>2, <1>9
<1>11. \A i \in 1..Len(M) : Len(A) + i \in 1..Len(AM)
  BY <1>2, <1>9
<1>12. \A i \in 1..Len(A) : T[i] = A[i]
  BY <1>3, <1>7, <1>10
<1>13. \A i \in 1..Len(M) : T[Len(A) + i] = M[i]
  BY <1>4, <1>7, <1>11
<1>14. \A i \in 1..Len(L) : T[Len(A) + Len(M) + i] = L[i]
  BY <1>2, <1>8
<1> QED
  BY <1>2, <1>6, <1>12, <1>13, <1>14

(* The keys of a location are the location's, and keys of a record. *)
LEMMA KeysOfKnown ==
  ASSUME NEW fields
  PROVE  KeysOf(fields) \in Seq(Keys \cap DOMAIN fields)
<1> DEFINE given(key) == IF Located(fields) /\ key \in DOMAIN fields THEN <<key>> ELSE <<>>
<1>1. PICK K : K = Keys \cap DOMAIN fields
  OBVIOUS
<1>2. ASSUME NEW key \in Keys PROVE given(key) \in Seq(K)
  <2>1. CASE Located(fields) /\ key \in DOMAIN fields
    <3>1. key \in K
      BY <1>1, <2>1
    <3>2. <<key>> \in Seq(K)
      BY <3>1, OneOf
    <3> QED
      BY <2>1, <3>2
  <2>2. CASE ~(Located(fields) /\ key \in DOMAIN fields)
    <3>1. <<>> \in Seq(K)
      OBVIOUS
    <3> QED
      BY <2>2, <3>1
  <2> QED
    BY <2>1, <2>2
<1>3. KeysOf(fields) = (((given("city") \o given("continent")) \o given("country"))
                          \o given("country_iso_code")) \o given("subdivision")
  BY Zenon DEF KeysOf
<1> HIDE DEF given
<1>4. PICK a, b, c, d, e :
        /\ a = given("city") /\ b = given("continent") /\ c = given("country")
        /\ d = given("country_iso_code") /\ e = given("subdivision")
        /\ a \in Seq(K) /\ b \in Seq(K) /\ c \in Seq(K) /\ d \in Seq(K) /\ e \in Seq(K)
  <2>1. /\ "city" \in Keys /\ "continent" \in Keys /\ "country" \in Keys
        /\ "country_iso_code" \in Keys /\ "subdivision" \in Keys
    BY DEF Keys
  <2> QED
    BY <1>2, <2>1
<1>5. PICK ab : ab = a \o b /\ ab \in Seq(K)
  BY <1>4, ConcatProperties
<1>6. PICK abc : abc = ab \o c /\ abc \in Seq(K)
  BY <1>4, <1>5, ConcatProperties
<1>7. PICK abcd : abcd = abc \o d /\ abcd \in Seq(K)
  BY <1>4, <1>6, ConcatProperties
<1>8. abcd \o e \in Seq(K)
  BY <1>4, <1>7, ConcatProperties
<1> QED
  BY <1>1, <1>3, <1>4, <1>5, <1>6, <1>7, <1>8

(* The resource is the path before its question mark. *)
LEMMA ResourceIs ==
  ASSUME NEW m, NEW path \in Seq(Char), m.resource = path
  PROVE  \E n \in 0..Len(path) : /\ resource(m) = SubSeq(path, 1, n)
                                 /\ "?" \notin Range(SubSeq(path, 1, n))
                                 /\ n = Len(path) \/ path[n + 1] = "?"
<1>1. PICK l \in Nat : l = Len(path) /\ DOMAIN path = 1..l
  BY CharactersOf
<1>2. PICK I : I = {i \in 1..l : path[i] = "?"}
  OBVIOUS
<1>3. Contains(path, "?") <=> I # {}
  BY <1>1, <1>2 DEF Contains
<1>4. ASSUME NEW n \in 0..l, \A i \in 1..n : i \notin I
      PROVE  "?" \notin Range(SubSeq(path, 1, n))
  <2>1. PICK s : s = SubSeq(path, 1, n)
    OBVIOUS
  <2>2. PICK S : S = Char
    OBVIOUS
  <2>3. DOMAIN s = 1..n /\ \A i \in 1..n : s[i] = path[i]
    <3>1. path \in Seq(S)
      BY <2>2
    <3> QED
      BY <1>1, <2>1, <3>1
  <2>4. \A i \in 1..n : i \in 1..l
    BY <1>1
  <2>5. \A i \in 1..n : s[i] # "?"
    BY <1>2, <1>4, <2>3, <2>4
  <2>6. \A i \in DOMAIN s : s[i] # "?"
    BY <2>3, <2>5
  <2>7. "?" \notin Range(s)
    BY <2>6, Zenon DEF Range
  <2> QED
    BY <2>1, <2>7
<1>5. CASE I = {}
  <2>1. resource(m) = path
    BY <1>3, <1>5, Zenon DEF resource
  <2>2. SubSeq(path, 1, l) = path
    <3>1. PICK S : S = Char
      OBVIOUS
    <3>2. path \in Seq(S)
      BY <3>1
    <3> QED
      BY <1>1, <3>2
  <2>3. l \in 0..Len(path) /\ l = Len(path)
    BY <1>1
  <2>4. "?" \notin Range(SubSeq(path, 1, l))
    BY <1>1, <1>4, <1>5
  <2> QED
    BY <2>1, <2>2, <2>3, <2>4
<1>6. CASE I # {}
  <2>1. PICK least : least = Min(I)
    OBVIOUS
  <2>2. least \in I /\ \A y \in I : least <= y
    <3>1. I \in SUBSET Nat
      BY <1>1, <1>2
    <3>2. \E x \in I : \A y \in I : x <= y
      BY <1>6, <3>1, LeastNumber
    <3> QED
      BY <2>1, <3>2, Zenon DEF Min
  <2>3. least \in 1..l /\ path[least] = "?"
    BY <1>2, <2>2
  <2>4. PICK n \in 0..l : n = least - 1 /\ n + 1 = least
    BY <1>1, <2>3
  <2>5. SelectInSeq(path, LAMBDA c : c = "?") = least
    <3>1. SelectInSeq(path, LAMBDA c : c = "?")
            = IF {i \in 1..Len(path) : path[i] = "?"} # {}
                THEN Min({i \in 1..Len(path) : path[i] = "?"}) ELSE 0
      BY Zenon DEF SelectInSeq
    <3> QED
      BY <1>1, <1>2, <1>6, <2>1, <3>1, Zenon
  <2>6. resource(m) = SubSeq(path, 1, n)
    <3>1. Contains(path, "?")
      BY <1>3, <1>6
    <3>2. resource(m) = SubSeq(path, 1, SelectInSeq(path, LAMBDA c : c = "?") - 1)
      BY <3>1, Zenon DEF resource
    <3> QED
      BY <2>4, <2>5, <3>2, Zenon
  <2>7. \A i \in 1..n : i \notin I
    <3>1. \A i \in 1..n : ~(least <= i)
      BY <1>1, <2>3, <2>4
    <3> QED
      BY <2>2, <3>1
  <2>8. "?" \notin Range(SubSeq(path, 1, n))
    BY <1>4, <2>7
  <2>9. n \in 0..Len(path) /\ path[n + 1] = "?"
    BY <1>1, <2>3, <2>4
  <2> QED
    BY <2>6, <2>8, <2>9
<1> QED
  BY <1>5, <1>6

-----------------------------------------------------------------------------
TagsOf(m, fields) ==
  <<addTag("method", m.method), addTag("resource", resource(m)), addTag("ipaddress", m.ipaddress)>>
    \o (IF m.mimeType # <<>> THEN <<addTag("mimeType", m.mimeType)>> ELSE <<>>)
    \o [i \in DOMAIN KeysOf(fields) |->
          addTag(KeysOf(fields)[i], Underscored(fields[KeysOf(fields)[i]]))]
ValuesOf(fields) ==
  <<addNumber("size"), addNumber("time"), addNumber("status")>>
    \o (IF Located(fields) THEN <<addText("latitude", fields["latitude"]),
                                  addText("longitude", fields["longitude"])>>
        ELSE <<>>)

(* A location's texts are texts. *)
Textual(fields) == \A key \in DOMAIN fields : fields[key] \in Seq(Char)

Tagged(T, n, m, fields) ==
  /\ n = 3 + (IF m.mimeType = <<>> THEN 0 ELSE 1) + Len(KeysOf(fields))
  /\ n \in Nat /\ n # 0 /\ FieldsTo(T, n)
  /\ \E i \in 1..n : AddsAs(T[i], "resource", resource(m))
  /\ m.mimeType # <<>> => \E i \in 1..n : AddsAs(T[i], "mimeType", m.mimeType)
  /\ \A key \in Range(KeysOf(fields)) : \E i \in 1..n : AddsAs(T[i], key, Underscored(fields[key]))

(* Text with its blanks replaced is text. *)
LEMMA UnderscoredTyped ==
  ASSUME NEW text \in Seq(Char)
  PROVE  Underscored(text) \in Seq(Char)
<1>1. PICK S : S = Char
  OBVIOUS
<1>2. "_" \in S
  BY <1>1, Zenon DEF Char
<1>3. text \in Seq(S)
  BY <1>1
<1>4. PICK n \in Nat : n = Len(text) /\ DOMAIN text = 1..n /\ \A i \in 1..n : text[i] \in S
  BY <1>3
<1>5. PICK new : new = Underscored(text) /\ new = [i \in 1..n |-> IF text[i] = " " THEN "_" ELSE text[i]]
  BY <1>4, Zenon DEF Underscored
<1>6. \A i \in 1..n : new[i] \in S
  BY <1>2, <1>4, <1>5
<1>7. new = [i \in 1..n |-> new[i]]
  BY <1>5
<1>8. new \in [1..n -> S]
  BY <1>6, <1>7
<1>9. new \in Seq(S)
  BY <1>4, <1>8
<1> QED
  BY <1>1, <1>5, <1>9

(* A sequence of three. *)
LEMMA ThreeOf ==
  ASSUME NEW S, NEW a \in S, NEW b \in S, NEW c \in S
  PROVE  \E A : A = <<a, b, c>> /\ A \in Seq(S) /\ Len(A) = 3 /\ A[2] = b
<1>1. <<a, b, c>> \in Seq(S) /\ Len(<<a, b, c>>) = 3 /\ <<a, b, c>>[2] = b
  OBVIOUS
<1> QED
  BY <1>1

(* The place of an element after three and others. *)
LEMMA AfterOthers ==
  ASSUME NEW l \in Nat, NEW q \in Nat, NEW j \in 1..l, NEW n, n = 3 + q + l
  PROVE  \E i \in 1..n : i = 3 + q + j
<1>1. 3 + q + j \in 1..n
  OBVIOUS
<1> QED
  BY <1>1

(* The tags that save() adds. *)
LEMMA TagsSaved ==
  ASSUME NEW m, m.method \in Seq(Char), m.resource \in Seq(Char), m.ipaddress \in Seq(Char),
         m.mimeType \in Seq(Char), NEW fields, Textual(fields)
  PROVE  \E n : Tagged(TagsOf(m, fields), n, m, fields)
<1>1. PICK a, b, c : /\ a = addTag("method", m.method) /\ b = addTag("resource", resource(m))
                     /\ c = addTag("ipaddress", m.ipaddress)
  OBVIOUS
<1>2. /\ AddsAs(a, "method", m.method) /\ AddsAs(b, "resource", resource(m))
      /\ AddsAs(c, "ipaddress", m.ipaddress)
  <2>1. "method" \in Keys /\ "resource" \in Keys /\ "ipaddress" \in Keys
    BY DEF Keys
  <2>2. resource(m) \in Seq(Char)
    <3>1. PICK path : path = m.resource /\ path \in Seq(Char)
      OBVIOUS
    <3>2. PICK n \in 0..Len(path) : resource(m) = SubSeq(path, 1, n)
      BY <3>1, ResourceIs
    <3>3. PICK S : S = Char
      OBVIOUS
    <3>4. SubSeq(path, 1, n) \in Seq(S)
      BY <3>1, <3>3
    <3> QED
      BY <3>2, <3>3, <3>4
  <2> QED
    BY <1>1, <2>1, <2>2, TagAdds
<1>3. PICK F : F = Fields
  OBVIOUS
<1>4. PICK A : A = <<a, b, c>> /\ A \in Seq(F) /\ Len(A) = 3 /\ A[2] = b
  <2>1. a \in F /\ b \in F /\ c \in F
    BY <1>2, <1>3, Zenon DEF AddsAs
  <2> QED
    BY <2>1, ThreeOf
<1>5. PICK x : x = addTag("mimeType", m.mimeType) /\ AddsAs(x, "mimeType", m.mimeType)
  <2>1. "mimeType" \in Keys
    BY DEF Keys
  <2> QED
    BY <2>1, TagAdds
<1>6. PICK M : /\ M = IF m.mimeType # <<>> THEN <<x>> ELSE <<>>
               /\ M \in Seq(F) /\ Len(M) = IF m.mimeType = <<>> THEN 0 ELSE 1
               /\ m.mimeType # <<>> => M[1] = x
  <2>1. PICK M : M = IF m.mimeType # <<>> THEN <<x>> ELSE <<>>
    OBVIOUS
  <2>2. x \in F
    BY <1>3, <1>5, Zenon DEF AddsAs
  <2>3. CASE m.mimeType # <<>>
    <3>1. <<x>> \in Seq(F) /\ Len(<<x>>) = 1 /\ <<x>>[1] = x
      BY <2>2, OneOf
    <3>2. M = <<x>>
      BY <2>1, <2>3, Zenon
    <3> QED
      BY <2>1, <2>3, <3>1, <3>2, Zenon
  <2>4. CASE m.mimeType = <<>>
    <3>1. <<>> \in Seq(F) /\ Len(<<>>) = 0
      OBVIOUS
    <3>2. M = <<>>
      BY <2>1, <2>4, Zenon
    <3>3. Len(M) = 0 /\ M \in Seq(F)
      BY <3>1, <3>2
    <3>4. (IF m.mimeType = <<>> THEN 0 ELSE 1) = 0
      BY <2>4, Zenon
    <3> QED
      BY <2>1, <2>4, <3>3, <3>4
  <2> QED
    BY <2>3, <2>4
<1>7. PICK K, keys : K = Keys \cap DOMAIN fields /\ keys = KeysOf(fields) /\ keys \in Seq(K)
  BY KeysOfKnown
<1>8. PICK l \in Nat : l = Len(keys) /\ DOMAIN keys = 1..l /\ \A i \in 1..l : keys[i] \in K
  BY <1>7
<1>9. PICK L : L = [i \in 1..l |-> addTag(keys[i], Underscored(fields[keys[i]]))]
  OBVIOUS
<1>10. \A i \in 1..l : AddsAs(L[i], keys[i], Underscored(fields[keys[i]]))
  <2> TAKE i \in 1..l
  <2>1. PICK key : key = keys[i] /\ key \in Keys /\ key \in DOMAIN fields
    BY <1>7, <1>8
  <2>2. PICK text : text = Underscored(fields[key]) /\ text \in Seq(Char)
    BY <2>1, UnderscoredTyped DEF Textual
  <2>3. L[i] = addTag(key, text)
    BY <1>9, <2>1, <2>2
  <2> QED
    BY <2>1, <2>2, <2>3, TagAdds
<1>11. L \in Seq(F) /\ Len(L) = l
  <2>1. \A i \in 1..l : L[i] \in F
    BY <1>3, <1>10, Zenon DEF AddsAs
  <2>2. L = [i \in 1..l |-> L[i]]
    BY <1>9
  <2>3. L \in [1..l -> F]
    BY <2>1, <2>2
  <2> QED
    BY <1>8, <2>2, <2>3, LengthOf
<1>12. PICK T : T = TagsOf(m, fields) /\ T = (A \o M) \o L
  <2>1. L = [i \in DOMAIN KeysOf(fields) |-> addTag(KeysOf(fields)[i], Underscored(fields[KeysOf(fields)[i]]))]
    BY <1>7, <1>8, <1>9
  <2> QED
    BY <1>1, <1>4, <1>5, <1>6, <2>1, Zenon DEF TagsOf
<1>13. /\ T \in Seq(F) /\ Len(T) = Len(A) + Len(M) + Len(L)
       /\ \A i \in 1..Len(A) : T[i] = A[i]
       /\ \A i \in 1..Len(M) : T[Len(A) + i] = M[i]
       /\ \A i \in 1..Len(L) : T[Len(A) + Len(M) + i] = L[i]
  BY <1>4, <1>6, <1>11, <1>12, ThreeJoined
<1>14. PICK q \in {0, 1} : q = Len(M) /\ q = IF m.mimeType = <<>> THEN 0 ELSE 1
  BY <1>6
<1>15. PICK n : n = Len(T) /\ n = 3 + q + l /\ n \in Nat /\ n # 0 /\ DOMAIN T = 1..n
  BY <1>4, <1>8, <1>11, <1>13, <1>14
<1>16. FieldsTo(T, n)
  <2>1. \A i \in 1..n : T[i] \in F
    BY <1>13, <1>15
  <2> QED
    BY <1>3, <1>15, <2>1, Zenon DEF FieldsTo
<1>17. \E i \in 1..n : AddsAs(T[i], "resource", resource(m))
  <2>1. 2 \in 1..n /\ T[2] = b
    BY <1>4, <1>8, <1>13, <1>14, <1>15
  <2> QED
    BY <1>2, <2>1
<1>18. m.mimeType # <<>> => \E i \in 1..n : AddsAs(T[i], "mimeType", m.mimeType)
  <2> SUFFICES ASSUME m.mimeType # <<>> PROVE \E i \in 1..n : AddsAs(T[i], "mimeType", m.mimeType)
    OBVIOUS
  <2>1. q = 1 /\ M[1] = x
    BY <1>6, <1>14
  <2>2. 4 \in 1..n /\ T[4] = x
    BY <1>4, <1>8, <1>13, <1>14, <1>15, <2>1
  <2> QED
    BY <1>5, <2>2
<1>19. \A key \in Range(KeysOf(fields)) : \E i \in 1..n : AddsAs(T[i], key, Underscored(fields[key]))
  <2> TAKE key \in Range(KeysOf(fields))
  <2>1. PICK j \in 1..l : key = keys[j]
    BY <1>7, <1>8, Zenon DEF Range
  <2>2. PICK i \in 1..n : i = 3 + q + j
    <3>1. q \in Nat
      BY <1>14
    <3>2. n = 3 + q + l
      BY <1>15
    <3> QED
      BY <1>8, <3>1, <3>2, AfterOthers
  <2>3. T[i] = L[j]
    BY <1>4, <1>11, <1>13, <1>14, <2>2
  <2>4. AddsAs(L[j], key, Underscored(fields[key]))
    BY <1>10, <2>1
  <2> QED
    BY <2>3, <2>4
<1> QED
  BY <1>7, <1>8, <1>12, <1>14, <1>15, <1>16, <1>17, <1>18, <1>19, Zenon DEF Tagged

Valued(V, k, fields) ==
  /\ k = (IF Located(fields) THEN 5 ELSE 3) /\ k \in Nat /\ k # 0 /\ FieldsTo(V, k)
  /\ Located(fields) => \E i \in 1..k : AddsAs(V[i], "latitude", fields["latitude"])

(* Tags and values in a sequence of their number. *)
LEMMA FieldsFrom ==
  ASSUME NEW V \in Seq(Fields), NEW n, n = Len(V)
  PROVE  FieldsTo(V, n)
<1>1. PICK F : F = Fields
  OBVIOUS
<1>2. V \in Seq(F)
  BY <1>1
<1>3. DOMAIN V = 1..n /\ \A i \in 1..n : V[i] \in F
  BY <1>2
<1> QED
  BY <1>1, <1>3, Zenon DEF FieldsTo

(* The elements of two. *)
LEMMA ElementsOfTwo ==
  ASSUME NEW a, NEW b
  PROVE  Len(<<a, b>>) = 2 /\ <<a, b>>[1] = a /\ <<a, b>>[2] = b
OBVIOUS

(* The elements of three. *)
LEMMA ElementsOfThree ==
  ASSUME NEW a, NEW b, NEW c
  PROVE  Len(<<a, b, c>>) = 3 /\ <<a, b, c>>[1] = a /\ <<a, b, c>>[2] = b
OBVIOUS

(* The values that it adds. *)
LEMMA ValuesSaved ==
  ASSUME NEW fields, Textual(fields)
  PROVE  \E k : Valued(ValuesOf(fields), k, fields)
<1>1. PICK a, b, c : a = addNumber("size") /\ b = addNumber("time") /\ c = addNumber("status")
  OBVIOUS
<1>2. PICK F : F = Fields
  OBVIOUS
<1>3. a \in F /\ b \in F /\ c \in F
  <2>1. "size" \in Keys /\ "time" \in Keys /\ "status" \in Keys
    BY DEF Keys
  <2>2. AddsAs(a, "size", <<"1">>) /\ AddsAs(b, "time", <<"1">>) /\ AddsAs(c, "status", <<"1">>)
    BY <1>1, <2>1, NumberAdds
  <2> QED
    BY <1>2, <2>2, Zenon DEF AddsAs
<1>4. PICK A : A = <<a, b, c>> /\ A \in Seq(F) /\ Len(A) = 3
  BY <1>3, ThreeOf
<1>5. PICK V : V = ValuesOf(fields)
  OBVIOUS
<1>6. CASE Located(fields)
  <2>1. PICK x, y : x = addText("latitude", fields["latitude"]) /\ y = addText("longitude", fields["longitude"])
    OBVIOUS
  <2>2. "latitude" \in DOMAIN fields /\ "longitude" \in DOMAIN fields
    BY <1>6 DEF Located
  <2>3. AddsAs(x, "latitude", fields["latitude"]) /\ AddsAs(y, "longitude", fields["longitude"])
    <3>1. "latitude" \in Keys /\ "longitude" \in Keys
      BY DEF Keys
    <3>2. fields["latitude"] \in Seq(Char) /\ fields["longitude"] \in Seq(Char)
      BY <2>2 DEF Textual
    <3> QED
      BY <2>1, <3>1, <3>2, TextAdds
  <2>4. x \in F /\ y \in F
    BY <1>2, <2>3, Zenon DEF AddsAs
  <2>5. PICK M : M = <<x, y>> /\ M \in Seq(F) /\ Len(M) = 2 /\ M[1] = x
    <3>1. <<x, y>> \in Seq(F) /\ Len(<<x, y>>) = 2 /\ <<x, y>>[1] = x
      BY <2>4
    <3> QED
      BY <3>1
  <2>6. V = A \o M
    BY <1>1, <1>4, <1>5, <1>6, <2>1, <2>5, Zenon DEF ValuesOf
  <2>7. V \in Seq(F) /\ Len(V) = 5 /\ V[4] = x
    <3>1. A \o M \in Seq(F) /\ Len(A \o M) = 5 /\ (A \o M)[4] = x
      BY <1>4, <2>5
    <3> QED
      BY <2>6, <3>1
  <2>8. FieldsTo(V, 5)
    <3>1. V \in Seq(Fields) /\ Len(V) = 5
      BY <1>2, <2>7
    <3> QED
      BY <3>1, FieldsFrom
  <2>9. 4 \in 1..5 /\ 5 \in Nat /\ 5 # 0
    OBVIOUS
  <2>10. Valued(V, 5, fields)
    <3>1. \E i \in 1..5 : AddsAs(V[i], "latitude", fields["latitude"])
      BY <2>3, <2>7, <2>9
    <3>2. 5 = IF Located(fields) THEN 5 ELSE 3
      BY <1>6, Zenon
    <3> QED
      BY <2>8, <2>9, <3>1, <3>2, Zenon DEF Valued
  <2> QED
    BY <1>5, <2>10
<1>7. CASE ~Located(fields)
  <2>1. V = A
    <3>1. ValuesOf(fields) = <<a, b, c>> \o <<>>
      BY <1>1, <1>7, Zenon DEF ValuesOf
    <3>2. A \o <<>> = A
      BY <1>4, ConcatEmptySeq
    <3> QED
      BY <1>4, <1>5, <3>1, <3>2
  <2>2. FieldsTo(V, 3)
    <3>1. V \in Seq(Fields) /\ Len(V) = 3
      BY <1>2, <1>4, <2>1
    <3> QED
      BY <3>1, FieldsFrom
  <2>3. 3 \in Nat /\ 3 # 0
    OBVIOUS
  <2>4. 3 = IF Located(fields) THEN 5 ELSE 3
    BY <1>7, Zenon
  <2> QED
    BY <1>5, <1>7, <2>2, <2>3, <2>4, Zenon DEF Valued
<1> QED
  BY <1>6, <1>7

(* What save() makes of a metric and a location is a record of these. *)
LEMMA SavedIs ==
  ASSUME NEW m, NEW fields
  PROVE  save(m, fields) = endRecord(TagsOf(m, fields), ValuesOf(fields))
BY Zenon DEF save, TagsOf, ValuesOf

ReadAs(read, i, k, meant) == read[i] = <<<<k>>, meant>>

(* A pair that adds what a key and a text are is read as them. *)
LEMMA ReadAsAdded ==
  ASSUME NEW read, NEW pairs, NEW n, Meanings(read, pairs, n), NEW i \in 1..n,
         NEW k, NEW meant, AddsAs(pairs[i], k, meant)
  PROVE  ReadAs(read, i, k, meant)
<1>1. read[i] = <<<<pairs[i][1]>>, Meant(pairs[i][2])>>
  BY Zenon DEF Meanings
<1>2. pairs[i][1] = k /\ Meant(pairs[i][2]) = meant
  BY Zenon DEF AddsAs
<1> QED
  BY <1>1, <1>2, Zenon DEF ReadAs

(* The record of a metric and a location is read as theirs. *)
LEMMA RecordParses ==
  ASSUME metric.method \in Seq(Char), metric.resource \in Seq(Char), metric.ipaddress \in Seq(Char),
         metric.mimeType \in Seq(Char), Textual(location), record = save(metric, location)
  PROVE  RecordsParse
<1>1. PICK T, V : T = TagsOf(metric, location) /\ V = ValuesOf(location)
  OBVIOUS
<1>2. PICK n : Tagged(T, n, metric, location)
  BY <1>1, TagsSaved
<1>3. PICK k : Valued(V, k, location)
  BY <1>1, ValuesSaved
<1>4. PICK A, J : A = <<"name", ",">> \o Joined(T) /\ J = Joined(V)
  OBVIOUS
<1>5. n \in Nat /\ n # 0 /\ FieldsTo(T, n) /\ k \in Nat /\ k # 0 /\ FieldsTo(V, k)
  BY <1>2, <1>3, Zenon DEF Tagged, Valued
<1>6. Lines(record, A, J)
  BY <1>1, <1>4, <1>5, SavedIs, RecordRead
<1>7. PICK lines, body, parts :
        /\ lines = Split(record, "\n") /\ lines = <<body, <<>>>>
        /\ parts = Split(lines[1], " ") /\ parts = <<A, J, <<"time">>>>
  <2>1. PICK body : Split(record, "\n") = <<body, <<>>>> /\ Split(body, " ") = <<A, J, <<"time">>>>
    BY <1>6, Zenon DEF Lines
  <2>2. PICK lines : lines = <<body, <<>>>>
    OBVIOUS
  <2>3. lines[1] = body
    BY <2>2
  <2> QED
    BY <2>1, <2>2, <2>3
<1>8. Len(lines) = 2 /\ lines[2] = <<>>
  <2>1. Len(<<body, <<>>>>) = 2 /\ <<body, <<>>>>[2] = <<>>
    BY ElementsOfTwo
  <2> QED
    BY <1>7, <2>1, Zenon
<1>9. Len(parts) = 3 /\ parts[1] = A /\ parts[2] = J
  <2>1. Len(<<A, J, <<"time">>>>) = 3 /\ <<A, J, <<"time">>>>[1] = A /\ <<A, J, <<"time">>>>[2] = J
    BY ElementsOfThree
  <2> QED
    BY <1>7, <2>1, Zenon
<1>10. PICK tags, values : tags = Tail(Pairs(parts[1])) /\ values = Pairs(parts[2])
  OBVIOUS
<1>11. Meanings(tags, T, n)
  BY <1>4, <1>5, <1>9, <1>10, TagsRead
<1>12. Meanings(values, V, k)
  BY <1>4, <1>5, <1>9, <1>10, ValuesRead
<1> DEFINE Has(key, text) == \E i \in DOMAIN tags : tags[i] = <<<<key>>, text>>
<1>13. ASSUME NEW key, NEW text, \E i \in 1..n : AddsAs(T[i], key, text)
       PROVE  Has(key, text)
  <2>1. PICK i \in 1..n : AddsAs(T[i], key, text)
    BY <1>13
  <2>2. ReadAs(tags, i, key, text)
    BY <1>11, <2>1, ReadAsAdded
  <2>3. i \in DOMAIN tags
    BY <1>11, Zenon DEF Meanings
  <2> QED
    BY <2>2, <2>3, Zenon DEF ReadAs
<1> HIDE DEF Has
<1>14. Has("resource", resource(metric))
  BY <1>2, <1>13, Zenon DEF Tagged
<1>15. PICK path : path = metric.resource
  OBVIOUS
<1>16. \E l \in 0..Len(path) : /\ Has("resource", SubSeq(path, 1, l))
                               /\ "?" \notin Range(SubSeq(path, 1, l))
                               /\ l = Len(path) \/ path[l + 1] = "?"
  <2>1. PICK l \in 0..Len(path) : /\ resource(metric) = SubSeq(path, 1, l)
                                  /\ "?" \notin Range(SubSeq(path, 1, l))
                                  /\ l = Len(path) \/ path[l + 1] = "?"
    BY <1>15, ResourceIs, ZenonT(40)
  <2> QED
    BY <1>14, <2>1
<1>17. metric.mimeType # <<>> => Has("mimeType", metric.mimeType)
  BY <1>2, <1>13, Zenon DEF Tagged
<1>18. \A key \in Range(KeysOf(location)) : Has(key, Underscored(location[key]))
  BY <1>2, <1>13, Zenon DEF Tagged
<1>19. Len(tags) = 3 + (IF metric.mimeType = <<>> THEN 0 ELSE 1) + Len(KeysOf(location))
  BY <1>2, <1>11, Zenon DEF Tagged, Meanings
<1>20. Len(values) = IF Located(location) THEN 5 ELSE 3
  BY <1>3, <1>12, Zenon DEF Valued, Meanings
<1>21. Located(location) => \E i \in DOMAIN values : values[i] = <<<<"latitude">>, location["latitude"]>>
  <2> SUFFICES ASSUME Located(location)
               PROVE  \E i \in DOMAIN values : values[i] = <<<<"latitude">>, location["latitude"]>>
    OBVIOUS
  <2>1. PICK i \in 1..k : AddsAs(V[i], "latitude", location["latitude"])
    BY <1>3, Zenon DEF Valued
  <2>2. ReadAs(values, i, "latitude", location["latitude"])
    BY <1>12, <2>1, ReadAsAdded
  <2>3. i \in DOMAIN values
    BY <1>12, Zenon DEF Meanings
  <2> QED
    BY <2>2, <2>3, Zenon DEF ReadAs
<1> QED
  BY <1>7, <1>8, <1>9, <1>10, <1>15, <1>16, <1>17, <1>18, <1>19, <1>20, <1>21, ZenonT(40) DEF RecordsParse, Has

-----------------------------------------------------------------------------
(* A record is one of a metric with a request's path and a type, and of a location. *)
RecordInv ==
  record # <<>> =>
    \E path \in Resources, type \in Types, fields \in Locations :
      /\ metric = [method |-> <<"GET">>, resource |-> path, ipaddress |-> <<"1">>, mimeType |-> type]
      /\ location = fields /\ record = save(metric, fields)

(* Text is made of the characters that are known to be some. *)
LEMMA TextIs ==
  ASSUME NEW text \in Seq(STRING)
  PROVE  text \in Seq(Char)
<1>1. PICK S : S = STRING
  OBVIOUS
<1>2. \A c \in S : c \in Char
  BY <1>1, Zenon DEF Char
<1>3. text \in Seq(S)
  BY <1>1
<1> QED
  BY <1>2, <1>3

(* Every record is read as the metric and the location that it is of (queue/poller.cpp,
   client/builder.cpp), whatever is in the path and in the texts of the location.  *)
THEOREM RecordsHold == RecordSpec => []RecordsParse
<1>1. RecordInit => RecordInv
  BY DEF RecordInit, RecordInv
<1>2. RecordInv /\ [RecordNext]_<<metric, location, record>> => RecordInv'
  <2> SUFFICES ASSUME RecordInv, [RecordNext]_<<metric, location, record>> PROVE RecordInv'
    OBVIOUS
  <2>1. CASE RecordNext
    <3>1. PICK path \in Resources, type \in Types, fields \in Locations : Save(path, type, fields)
      BY <2>1, Zenon DEF RecordNext
    <3>2. /\ metric' = [method |-> <<"GET">>, resource |-> path, ipaddress |-> <<"1">>, mimeType |-> type]
          /\ location' = fields /\ record' = save(metric', fields)
      BY <3>1, Zenon DEF Save
    <3> QED
      BY <3>2, Zenon DEF RecordInv
  <2>2. CASE UNCHANGED <<metric, location, record>>
    <3>1. metric' = metric /\ location' = location /\ record' = record
      BY <2>2
    <3> QED
      BY <3>1, Zenon DEF RecordInv
  <2> QED
    BY <2>1, <2>2
<1>3. RecordInv => RecordsParse
  <2> SUFFICES ASSUME RecordInv, record # <<>> PROVE RecordsParse
    BY Zenon DEF RecordsParse
  <2>1. PICK path \in Resources, type \in Types, fields \in Locations :
          /\ metric = [method |-> <<"GET">>, resource |-> path, ipaddress |-> <<"1">>, mimeType |-> type]
          /\ location = fields /\ record = save(metric, fields)
    BY Zenon DEF RecordInv
  <2>2. path \in Seq(Char) /\ type \in Seq(Char)
    <3>1. path \in Seq(STRING) /\ type \in Seq(STRING)
      BY TextAssumption, Zenon
    <3> QED
      BY <3>1, TextIs
  <2>3. Textual(location)
    <3>1. \A key \in DOMAIN fields : fields[key] \in Seq(STRING)
      BY TextAssumption, Zenon
    <3> QED
      BY <2>1, <3>1, TextIs, Zenon DEF Textual
  <2>4. <<"GET">> \in Seq(Char) /\ <<"1">> \in Seq(Char)
    <3>1. "GET" \in Char /\ "1" \in Char
      BY Zenon DEF Char
    <3> QED
      BY <3>1, OneText
  <2>5. /\ metric.method = <<"GET">> /\ metric.resource = path
        /\ metric.ipaddress = <<"1">> /\ metric.mimeType = type
    BY <2>1
  <2>6. record = save(metric, location)
    BY <2>1
  <2> QED
    BY <2>2, <2>3, <2>4, <2>5, <2>6, RecordParses
<1> QED
  BY <1>1, <1>2, <1>3, PTL DEF RecordSpec
=============================================================================
