------------------------------ MODULE HttpRouter ------------------------------
(* The router of request paths (router/router.hpp, router/split.hpp).

   A path is a string "/s1/s2...", here the sequence of its segments, of which
   some may be empty.  Segments is every segment considered, in the order of
   their bytes, none the prefix of another, so that paths are ordered as their
   sequences are; all are of one length.                                      *)
EXTENDS Integers, Sequences, SequencesExt, FiniteSets

CONSTANTS Methods,
          RoutePaths,    \* the paths that are configured
          RequestPaths,  \* the paths that are asked for
          MaxRoutes      \* bound: calls of add() that succeed

Segments == <<"", "*", ":x", "a", "b", "{x}", "{y}", "|", "~", "high">>
Parameters == {"{x}", "{y}"}

ASSUME PathsAssumption ==
  RoutePaths \cup RequestPaths \subseteq Seq(Range(Segments)) \ {<<>>}

VARIABLES paths,     \* HttpRouter::paths: path, parts, wildcard, methods, handlers
          handlers,  \* HttpRouter::handlers: the route each was added for
          errors     \* which of notFound and methodNotAllowed the builder set

vars == <<paths, handlers, errors>>

-----------------------------------------------------------------------------
Rank == [s \in Range(Segments) |-> CHOOSE i \in DOMAIN Segments : Segments[i] = s]

(* The order of paths as strings. *)
Less(p, q) ==
  \/ IsStrictPrefix(p, q)
  \/ \E i \in DOMAIN p \cap DOMAIN q :
       Rank[p[i]] < Rank[q[i]] /\ \A j \in 1..(i - 1) : p[j] = q[j]

(* split(): the segments that are not empty. *)
Parts(path) ==
  LET upTo[i \in 0..Len(path)] ==
        IF i = 0 THEN <<>>
        ELSE IF path[i] = "" THEN upTo[i - 1] ELSE Append(upTo[i - 1], path[i])
  IN upTo[Len(path)]

(* Path::epath, by which paths are compared for duplicates. *)
Shape(parts) == [i \in DOMAIN parts |->
                   IF parts[i] \in Parameters THEN "{}" ELSE parts[i]]
IsWildcard(path) == "~" \in Range(Parts(path))

(* std::lower_bound() in the sorted paths: one past their length is the end. *)
LowerBound(path) ==
  1 + Cardinality({i \in DOMAIN paths : Less(paths[i].path, path)})

-----------------------------------------------------------------------------
Init == /\ paths = <<>> /\ handlers = <<>>
        /\ errors \in SUBSET {"notFound", "methodNotAllowed"}

Starred(path) == path[Len(path)] = "*"
Stored(path) == IF Starred(path) THEN [path EXCEPT ![Len(path)] = "~"] ELSE path
Refused(path) == ":x" \in Range(path) \/ "*" \in Range(Front(path))

(* Mutant of Inserted: the order is left to push_back(). *)
Unsorted(entry) == Append(paths, entry)

(* push_back() and std::sort() of paths that were sorted: it leaves paths that are
   equal in any order, here as they came, as the sort of a short vector does.    *)
Inserted(entry) ==
  InsertAt(paths, 1 + Cardinality({i \in DOMAIN paths : ~Less(entry.path, paths[i].path)}),
           entry)

(* The configured path has another method: the route joins it. *)
AddMethod(m, path) ==
  LET i == LowerBound(path)
  IN /\ i \in DOMAIN paths /\ paths[i].path = path
     /\ m \notin Range(paths[i].methods)
     /\ paths' = [paths EXCEPT ![i].methods = Append(@, m),
                               ![i].handlers = Append(@, Len(handlers) + 1)]
     /\ handlers' = Append(handlers, [method |-> m, path |-> path])

(* A path that is not there.  One of the same shape is a duplicate if it is for
   the same method, but the methods looked at are those of the path at the lower
   bound; past the end they are not of any path, and may be anything.          *)
AddPath(m, path) ==
  LET i == LowerBound(path)
      clash == \E p \in Range(paths) : Shape(p.parts) = Shape(Parts(Stored(path)))
  IN /\ ~(i \in DOMAIN paths /\ paths[i].path = path)
     /\ ~Refused(path)
     /\ clash /\ i \in DOMAIN paths => m \notin Range(paths[i].methods)
     /\ paths' = Inserted([path |-> Stored(path),
                           parts |-> Parts(Stored(path)),
                           wildcard |-> IsWildcard(Stored(path)),
                           methods |-> <<m>>,
                           handlers |-> <<Len(handlers) + 1>>])
     /\ handlers' = Append(handlers, [method |-> m, path |-> path])

(* add(); a call that throws leaves the router as it is. *)
Add(m, path) == /\ Len(handlers) < MaxRoutes
                /\ AddMethod(m, path) \/ AddPath(m, path)
                /\ UNCHANGED errors

Next == \E m \in Methods, path \in RoutePaths : Add(m, path)
Spec == Init /\ [][Next]_vars

-----------------------------------------------------------------------------
(* The comparison of a request with one path: the first segment that is neither
   equal nor a parameter decides, or all are and there is one.  A wildcard whose
   segments all equal the first of a longer request has none to decide: the
   code reads on past its last part.                                          *)
Decider(route, parts) ==
  LET n == Len(route)
      stops == {i \in DOMAIN parts :
                  i > n \/ (parts[i] # route[i] /\ route[i] \notin Parameters)}
  IN IF stops = {} THEN 0 ELSE CHOOSE i \in stops : \A j \in stops : i <= j

Comparison(entry, parts) ==
  LET route == entry.parts
      i == Decider(route, parts)
  IN CASE Len(parts) # Len(route)
            /\ (~entry.wildcard \/ Len(parts) < Len(route)) -> "differs"
       [] OTHER ->
            CASE i = 0 -> IF parts = <<>> THEN "differs" ELSE "matches"
              [] i > Len(route) -> "undefined"
              [] i <= Len(route) /\ i # 0 ->
                   IF route[i] = "~" THEN "matches" ELSE "differs"

(* The bytes of a path, where a segment counts as one. *)
Bytes(path) == FlattenSeq([i \in DOMAIN path |->
                             IF path[i] = "" THEN <<"/">> ELSE <<"/", path[i]>>])

(* The parameters of a match; the first of two with one name is kept. *)
Params(entry, path) ==
  LET route == entry.parts
      names == {i \in DOMAIN route : route[i] \in Parameters}
      value(s) == <<Parts(path)[CHOOSE i \in names :
                      route[i] = s /\ \A j \in names : route[j] = s => i <= j]>>
      rest == SubSeq(Bytes(path), 2 * Len(route), Len(Bytes(path)))
  IN [s \in {route[i] : i \in names}
        \cup (IF entry.wildcard THEN {"_wildcard_"} ELSE {}) |->
        IF s = "_wildcard_" THEN rest ELSE value(s)]

Answer(kind, handler, params) ==
  [kind |-> kind, handler |-> handler, params |-> params]
None == Answer("nullopt", 0, <<>>)
Error(kind) == IF kind \in errors THEN Answer(kind, 0, <<>>) ELSE None

Handled(entry, m, params) ==
  LET i == {j \in DOMAIN entry.methods : entry.methods[j] = m}
  IN IF i = {} THEN Error("methodNotAllowed")
     ELSE Answer("handled", entry.handlers[CHOOSE j \in i : TRUE], params)

(* The paths that are compared, when the first is not the very path. *)
Tried(path) == LowerBound(path)..Len(paths)

(* The path that answers: the very path, or the first that does not differ. *)
Exact(path) == LET i == LowerBound(path)
               IN i \in DOMAIN paths /\ path = paths[i].path /\ ~paths[i].wildcard
Found(path) ==
  IF Exact(path) THEN LowerBound(path)
  ELSE LET parts == Parts(path)
           decisive == {j \in Tried(path) : Comparison(paths[j], parts) # "differs"}
       IN IF decisive = {} THEN 0
          ELSE CHOOSE j \in decisive : \A l \in decisive : j <= l

(* routeParameters(): past the last path there is no error handler. *)
Routed(m, path) ==
  LET i == Found(path)
  IN CASE LowerBound(path) > Len(paths) -> None
       [] LowerBound(path) <= Len(paths) /\ i = 0 -> Error("notFound")
       [] i # 0 /\ Exact(path) -> Handled(paths[i], m, <<>>)
       [] i # 0 /\ ~Exact(path) ->
            IF Comparison(paths[i], Parts(path)) = "undefined"
              THEN Answer("undefined", 0, <<>>)
              ELSE Handled(paths[i], m, Params(paths[i], path))

(* route(): a path that gets no response may be tried without its last slash. *)
Route(m, path, trim) ==
  IF Routed(m, path) = None /\ trim /\ path[Len(path)] = "" /\ Len(path) > 1
    THEN Routed(m, Front(path)) ELSE Routed(m, path)

-----------------------------------------------------------------------------
(* The first loop of canRoute() over one path's segments, for a longer request: up
   to the wildcard every segment is the request's own.                           *)
WildcardNext(route, parts) ==
  \E i \in DOMAIN route :
    /\ route[i] = "~" /\ parts[i] # "~"
    /\ \A j \in 1..(i - 1) : route[j] = parts[j]

(* Where its second loop, over the request's segments, is left: past the route, at
   the last segment, or at one that differs from a name.                         *)
Left(route, parts) ==
  {i \in DOMAIN parts :
     \/ i > Len(route)
     \/ i = Len(parts)
     \/ parts[i] # route[i] /\ route[i] \notin Parameters}

(* Mutant of Turn: the wildcard is looked for among requests of one length only. *)
TurnOfOneLength(entry, parts) ==
  LET route == entry.parts
      i == Min(Left(route, parts))
  IN IF /\ Len(parts) = Len(route) /\ parts # <<>>
        /\ route[i] \in Parameters \cup {parts[i], "~"}
     THEN "reached" ELSE "next"

(* One turn of the loop of canRoute() over the paths: it has reached a handler, or
   goes on with the next path, or has read past the parts of this one.           *)
Turn(entry, parts) ==
  LET route == entry.parts
      longer == Len(parts) > Len(route)
      passed == parts = <<>> \/ Len(parts) < Len(route) \/ (longer /\ ~entry.wildcard)
      i == Min(Left(route, parts))
      reached == \/ longer /\ WildcardNext(route, parts)
                 \/ /\ i <= Len(route)
                    /\ \/ route[i] \in Parameters \cup {parts[i]}
                       \/ route[i] = "~" /\ entry.wildcard
  IN CASE passed -> "next"
       [] ~passed /\ reached -> "reached"
       [] ~passed /\ ~reached -> IF i > Len(route) THEN "undefined" ELSE "next"

(* canRoute(): has the path a handler, and one for the method?  What it may answer:
   a segment read past the parts of a path may be anything.                      *)
CanRoute(m, path) ==
  LET first == LowerBound(path)
      parts == Parts(path)
      very == first \in DOMAIN paths /\ paths[first].path = path /\ ~paths[first].wildcard
      ends == {j \in first..Len(paths) : Turn(paths[j], parts) # "next"}
      at == IF very THEN first ELSE Min(ends)
  IN CASE ~very /\ ends = {} -> {<<FALSE, FALSE>>}
       [] ~very /\ ends # {} /\ Turn(paths[at], parts) = "undefined" ->
            {<<FALSE, FALSE>>, <<TRUE, FALSE>>, <<TRUE, TRUE>>}
       [] OTHER -> {<<TRUE, m \in Range(paths[at].methods)>>}

-----------------------------------------------------------------------------
(* What a route promises: its segments are those of the request, but for the
   parameters, and the wildcard, which stands for one segment or more.        *)
Fits(path, request) ==
  LET route == Parts(path)
  IN /\ \/ Len(route) = Len(request)
        \/ IsWildcard(path) /\ Len(route) <= Len(request)
     /\ \A i \in DOMAIN route :
          route[i] \in Parameters \cup {"~"} \/ route[i] = request[i]

(* Names before parameters before the wildcard, where two routes differ first. *)
Kind(s) == CASE s = "~" -> 3 [] s \in Parameters -> 2 [] OTHER -> 1
Outranks(p, q) ==
  \E i \in DOMAIN Parts(p) \cap DOMAIN Parts(q) :
    /\ Kind(Parts(p)[i]) < Kind(Parts(q)[i])
    /\ \A j \in 1..(i - 1) : Parts(p)[j] = Parts(q)[j]

(* Routes for which that is so: no segment but the last is empty, for which the
   order of paths is not that of their parts, and none is "~", which is what add()
   makes of a last "*".                                                        *)
PlainRoutes == \A path \in RoutePaths : "" \notin Range(Front(path)) /\ "~" \notin Range(path)

(* Requests for which that is so: their segments sort before "{". *)
Ordinary(request) == \A i \in DOMAIN request : request[i] \in {"a", "b"}

ParamsOf(path, request, params) ==
  \A i \in DOMAIN Parts(path) :
    Parts(path)[i] \in Parameters =>
      \E j \in 1..i : Parts(path)[j] = Parts(path)[i]
                     /\ params[Parts(path)[i]] = <<request[j]>>

(* Whatever the order in which routes were added, the most specific that fits a
   request answers it, with the handler added for it and for the method.      *)
MostSpecific ==
  \A m \in Methods, request \in RequestPaths :
    Ordinary(request) =>
      LET answer == Route(m, request, FALSE)
          configured == {Stored(handlers[h].path) : h \in DOMAIN handlers}
          fit == {path \in configured : Fits(path, request)}
      IN CASE answer.kind = "handled" ->
                LET route == handlers[answer.handler]
                IN /\ route.method = m /\ Stored(route.path) \in fit
                   /\ \A p \in fit : ~Outranks(p, Stored(route.path))
                   /\ Exact(request) \/ ParamsOf(Stored(route.path), request, answer.params)
           [] answer.kind = "notFound" -> fit = {}
           [] answer.kind = "methodNotAllowed" -> fit # {}
           [] answer.kind = "nullopt" ->
                fit = {} \/ "methodNotAllowed" \notin errors

(* The loop of canRoute() tells what that of route() would do, for every path but
   those for which they read past the parts of a route: whether there is a handler,
   one for the method, or none, and so which of the errors route() reports.     *)
CanRouteTells ==
  \A m \in Methods, request \in RequestPaths :
    LET answer == Route(m, request, FALSE)
        told == CanRoute(m, request)
    IN CASE answer.kind = "handled" -> told = {<<TRUE, TRUE>>}
         [] answer.kind = "methodNotAllowed" -> told = {<<TRUE, FALSE>>}
         [] answer.kind = "notFound" -> told = {<<FALSE, FALSE>>}
         [] answer.kind = "nullopt" ->
              \/ told = {<<FALSE, FALSE>>}
              \/ told = {<<TRUE, FALSE>>} /\ "methodNotAllowed" \notin errors
         [] answer.kind = "undefined" -> TRUE

=============================================================================
