---------------------------- MODULE MCSequential ----------------------------
(* Small instances, for TLC, of the parts in which nothing runs concurrently and
   which share nothing: a behaviour is about one of them, the subject.         *)
EXTENDS HttpRouter, Cors, IsoDate, LineProtocol, LogLine

VARIABLE subject

MCRoutePaths == {<<"">>, <<"*">>, <<"a">>, <<"a", "">>, <<"{x}">>, <<"a", "*">>,
                 <<"{x}", "*">>, <<"a", "{y}">>, <<"{x}", "b">>, <<"{x}", "{x}">>,
                 <<":x">>, <<"*", "a">>}
MCRequestPaths ==
  {<<"">>, <<"a", "">>, <<"~", "b">>, <<"|">>, <<"high">>, <<"", "a">>, <<"a", "b", "a">>}
    \cup UNION {[1..n -> {"a", "b"}] : n \in 1..2}

ASSUME PlainRoutes

MCOrigins == {"https://a", "https://b"}
MCConfigured == {[kind |-> "unset", values |-> <<>>], [kind |-> "malformed", values |-> <<>>]}
  \cup {[kind |-> "array", values |-> v] : v \in UNION {[1..n -> MCOrigins \cup {"*"}] : n \in 0..2}}

(* Two ordinary leap years, and turns of a century with and without one. *)
MCYears == (1970..1973) \cup (1999..2001) \cup (2099..2101)

(* Text of characters that separate something, and what the lookup finds. *)
Characters == {"a", "?", ",", "=", "\"", "\\", " ", "\n", "\r"}
Texts == {<<c>> : c \in Characters} \cup {<<c, "\\">> : c \in {"a", "\\"}}
MCResources == {<<"a">> \o t : t \in UNION {[1..n -> Characters] : n \in 0..2}}
MCTypes == {<<>>, <<"a", "=", "\"">>}
MCLocations ==
  {[key \in {} |-> <<>>], [key \in {"city"} |-> <<"a">>]}
    \cup {[latitude |-> <<"\\">>, longitude |-> t, country |-> <<"a", " ", "\"">>, subdivision |-> t] :
            t \in Texts}

(* Numbers of each size, and text that fills the buffers, exceeds them by one, and
   exceeds twice their size.                                                   *)
MCArguments ==
  {[type |-> t, length |-> SizeOf[t]] : t \in {"char", "uint32", "double", "literal"}}
    \cup {[type |-> t, length |-> 0] : t \in {"cstring", "string_view"}}
    \cup {[type |-> "std::string", length |-> n] : n \in {1, 7, 8, 9, 13, 14, 15, 30, 60}}

-----------------------------------------------------------------------------
records == <<metric, location, record>>
lines == <<args, line>>

MCInit ==
  /\ Init /\ CorsInit /\ ClockInit /\ RecordInit /\ LineInit
  /\ subject \in {"routes", "browser", "clock", "record", "line"}
  /\ subject # "routes" => errors = {}
  /\ subject # "browser" => env.kind = "unset" /\ origin = NoHeader
  /\ subject # "clock" => epoch = 0

MCNext ==
  \/ /\ subject = "routes" /\ Next
     /\ UNCHANGED <<subject, browser, epoch, records, lines>>
  \/ /\ subject = "browser" /\ CorsNext
     /\ UNCHANGED <<subject, vars, epoch, records, lines>>
  \/ /\ subject = "clock" /\ Tick
     /\ UNCHANGED <<subject, vars, browser, records, lines>>
  \/ /\ subject = "record" /\ RecordNext
     /\ UNCHANGED <<subject, vars, browser, epoch, lines>>
  \/ /\ subject = "line" /\ LineNext
     /\ UNCHANGED <<subject, vars, browser, epoch, records>>

MCSpec == MCInit /\ [][MCNext]_<<subject, vars, browser, epoch, records, lines>>
=============================================================================
