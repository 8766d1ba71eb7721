---------------------------- MODULE LineProtocol ----------------------------
(* The record of a metric for the time series database (client/builder.cpp, and
   TSDBClient of queue/poller.cpp), in the line protocol: the tags, the values
   and the time, with text escaped so that its characters separate nothing.
   Text is a sequence of characters; a key, a number or a name is one.

   The program stops short of a record: it neither starts one nor ends it.  This
   is what the builder makes of the calls of save() between those two.         *)
EXTENDS Sequences, Naturals, SequencesExt

CONSTANTS Resources,  \* the paths of requests
          Types,      \* the types of what is served, empty where unknown
          Locations   \* what the lookup may answer: functions from keys to text

ASSUME TextAssumption ==
  /\ Resources \cup Types \subseteq Seq(STRING)
  /\ \A fields \in Locations : \A key \in DOMAIN fields : fields[key] \in Seq(STRING)

VARIABLES metric, location,  \* what is saved
          record             \* the line it becomes

-----------------------------------------------------------------------------
Escaped == {",", "\"", "=", "\n", "\r", "\\"}

(* Mutant of clean: a backslash is kept as it is. *)
cleanKept(view, space) ==
  FlattenSeq([i \in DOMAIN view |->
    IF view[i] \in (Escaped \ {"\\"}) \/ (space /\ view[i] = " ") THEN <<"\\", view[i]>>
    ELSE <<view[i]>>])

(* A blank is escaped in a tag, but not in a value, which has quotes. *)
clean(view, space) ==
  FlattenSeq([i \in DOMAIN view |->
    IF view[i] \in Escaped \/ (space /\ view[i] = " ") THEN <<"\\", view[i]>>
    ELSE <<view[i]>>])

(* addTag() and addValue(): a comma, but before the first. *)
Joined(pairs) ==
  FlattenSeq([i \in DOMAIN pairs |->
    (IF i = 1 THEN <<>> ELSE <<",">>) \o <<pairs[i][1], "=">> \o pairs[i][2]])
addTag(key, v) == <<key, clean(v, TRUE)>>
addNumber(key) == <<key, <<"1">>>>
addText(key, v) == <<key, <<"\"">> \o clean(v, FALSE) \o <<"\"">>>>

endRecord(tags, values) ==
  <<"name", ",">> \o Joined(tags) \o <<" ">> \o Joined(values) \o <<" ", "time", "\n">>

-----------------------------------------------------------------------------
resource(m) ==
  IF Contains(m.resource, "?")
    THEN SubSeq(m.resource, 1, SelectInSeq(m.resource, LAMBDA c : c = "?") - 1)
    ELSE m.resource

Located(fields) == {"latitude", "longitude"} \subseteq DOMAIN fields
KeysOf(fields) ==
  LET given(key) == IF Located(fields) /\ key \in DOMAIN fields THEN <<key>> ELSE <<>>
  IN given("city") \o given("continent") \o given("country")
       \o given("country_iso_code") \o given("subdivision")
Underscored(text) == [i \in DOMAIN text |-> IF text[i] = " " THEN "_" ELSE text[i]]

(* save(): fields that have no latitude or longitude are left out. *)
save(m, fields) ==
  endRecord(
    <<addTag("method", m.method), addTag("resource", resource(m)),
      addTag("ipaddress", m.ipaddress)>>
      \o (IF m.mimeType # <<>> THEN <<addTag("mimeType", m.mimeType)>> ELSE <<>>)
      \o [i \in DOMAIN KeysOf(fields) |->
            addTag(KeysOf(fields)[i], Underscored(fields[KeysOf(fields)[i]]))],
    <<addNumber("size"), addNumber("time"), addNumber("status")>>
      \o (IF Located(fields) THEN <<addText("latitude", fields["latitude"]),
                                    addText("longitude", fields["longitude"])>>
          ELSE <<>>))

Unsaved == [method |-> <<>>, resource |-> <<>>, ipaddress |-> <<>>, mimeType |-> <<>>]
RecordInit == metric = Unsaved /\ location = [key \in {} |-> <<>>] /\ record = <<>>

(* The poller saves a metric. *)
Save(path, type, fields) ==
  /\ record = <<>>
  /\ metric' = [method |-> <<"GET">>, resource |-> path, ipaddress |-> <<"1">>, mimeType |-> type]
  /\ location' = fields
  /\ record' = save(metric', fields)

RecordNext == \E path \in Resources, type \in Types, fields \in Locations : Save(path, type, fields)
RecordSpec == RecordInit /\ [][RecordNext]_<<metric, location, record>>

-----------------------------------------------------------------------------
(* How a database reads the protocol, character by character: a backslash takes the
   meaning from the next one, and quotes from those between them.  A separator that
   has its meaning ends a piece of the text, and what is meant is the text without
   its escapes and quotes.                                                      *)
Start == [next |-> "any", within |-> "text", pieces |-> <<<<>>>>, meant |-> <<>>]
Extended(pieces, c) == [pieces EXCEPT ![Len(pieces)] = Append(@, c)]
Step(state, c, separator) ==
  LET marks == state.next = "any" /\ c \in {"\\", "\""}
      cuts == state.next = "any" /\ state.within = "text" /\ c = separator
  IN [next |-> IF marks /\ c = "\\" THEN "literal" ELSE "any",
      within |-> IF marks /\ c = "\""
                   THEN IF state.within = "text" THEN "quotes" ELSE "text"
                   ELSE state.within,
      pieces |-> IF cuts THEN Append(state.pieces, <<>>) ELSE Extended(state.pieces, c),
      meant |-> IF marks THEN state.meant ELSE Append(state.meant, c)]

Read(text, separator) ==
  LET upTo[i \in 0..Len(text)] ==
        IF i = 0 THEN Start ELSE Step(upTo[i - 1], text[i], separator)
  IN upTo[Len(text)]

Split(text, separator) == Read(text, separator).pieces
Meant(text) == Read(text, "\n").meant
MeantOf(texts) == [j \in DOMAIN texts |-> Meant(texts[j])]
Pairs(text) == LET pairs == Split(text, ",")
               IN [i \in DOMAIN pairs |-> MeantOf(Split(pairs[i], "="))]

(* A record is read as one, whose tags and values are the metric's and those of
   its location, whatever characters a client put in the request's path.      *)
RecordsParse ==
  record # <<>> =>
    LET lines == Split(record, "\n")
        parts == Split(lines[1], " ")
        tags == Tail(Pairs(parts[1]))
        values == Pairs(parts[2])
        path == metric.resource
        Has(key, text) == \E i \in DOMAIN tags : tags[i] = <<<<key>>, text>>
    IN /\ Len(lines) = 2 /\ lines[2] = <<>> /\ Len(parts) = 3
       /\ \E n \in 0..Len(path) : /\ Has("resource", SubSeq(path, 1, n))
                                  /\ "?" \notin Range(SubSeq(path, 1, n))
                                  /\ n = Len(path) \/ path[n + 1] = "?"
       /\ metric.mimeType # <<>> => Has("mimeType", metric.mimeType)
       /\ \A key \in Range(KeysOf(location)) : Has(key, Underscored(location[key]))
       /\ Len(tags) = 3 + (IF metric.mimeType = <<>> THEN 0 ELSE 1) + Len(KeysOf(location))
       /\ Len(values) = IF Located(location) THEN 5 ELSE 3
       /\ Located(location) => \E i \in DOMAIN values :
            values[i] = <<<<"latitude">>, location["latitude"]>>
=============================================================================
