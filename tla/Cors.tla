-------------------------------- MODULE Cors --------------------------------
(* Which origins a browser is told are allowed (server/response.cpp,
   server/common.cpp): in the answer to a request, and in the answer to the
   preflight request that a browser sends before some requests.               *)
EXTENDS Sequences, SequencesExt

CONSTANTS Origins,     \* values of the header; "*" is one that nobody sends
          NoHeader,
          Configured   \* values of ALLOWED_ORIGINS

(* The variable may be unset, or not an array: nothing is configured then.  (An
   element that is not a string throws, and the server does not start.)       *)
ASSUME OriginsAssumption ==
  /\ "*" \notin Origins /\ NoHeader \notin Origins \cup {"*"}
  /\ Configured \subseteq [kind : {"unset", "malformed", "array"}, values : Seq(Origins \cup {"*"})]

VARIABLES env,               \* the value
          origin,            \* of the browser's page
          preflight, answer  \* the headers that the browser was told, if it was

browser == <<env, origin, preflight, answer>>

origins == IF env.kind = "array" THEN env.values ELSE <<>>

(* The header, in lower case or as HTTP/1 writes it; without it nothing is said. *)
Requested == Origins \cup {NoHeader}

Allow(name) == {<<"Access-Control-Allow-Origin", name>>, <<"Vary", "Origin">>}

(* Mutant of set: who is not configured is told so only by the log. *)
setAny(name, allowed) == IF name = NoHeader THEN {} ELSE Allow(name)

(* Response::set(): everyone, when nobody is configured. *)
set(name, allowed) ==
  IF name # NoHeader /\ (allowed = <<>> \/ name \in Range(allowed)) THEN Allow(name) ELSE {}

(* cors(): everyone, when only "*" is configured. *)
cors(name, allowed) ==
  IF name # NoHeader /\ (name \in Range(allowed) \/ allowed = <<"*">>) THEN Allow(name) ELSE {}

-----------------------------------------------------------------------------
(* The server reads the variable once; a browser may send a preflight before a
   request, or the request alone.                                             *)
CorsInit ==
  /\ env \in Configured /\ origin \in Requested
  /\ preflight = {} /\ answer = {}

Preflight ==
  /\ preflight = {} /\ answer = {}
  /\ preflight' = {cors(origin, origins)}
  /\ UNCHANGED <<env, origin, answer>>

Respond ==
  /\ answer = {}
  /\ answer' = {set(origin, origins)}
  /\ UNCHANGED <<env, origin, preflight>>

CorsNext == Preflight \/ Respond
CorsSpec == CorsInit /\ [][CorsNext]_browser

-----------------------------------------------------------------------------
(* A request and its preflight are told the same, and by the list, as soon as one
   with names is configured.  (Not without: only the answer allows everyone when
   the list is empty, and only the preflight when it is "*".)                  *)
PreflightsAgree ==
  origins \notin {<<>>, <<"*">>} =>
    \A headers \in answer : /\ preflight \subseteq {headers}
                            /\ headers # {} <=> origin \in Range(origins)
=============================================================================
