------------------------------- MODULE Payload -------------------------------
(***************************************************************************)
(* The arithmetic of the JSON buffers: PayloadBuilder (payload_builder.cpp)*)
(* and the appending formatters of mqtt_payload.cpp.  A field is its key   *)
(* and the bytes of its value; what matters of a buffer is where the       *)
(* writing stands, and what was cut off.                                   *)
(***************************************************************************)
EXTENDS Integers, Sequences

Field(key, width) == [key |-> key, width |-> width]

\* A string value has its quotes.
StringField(key, width) == Field(key, width + 2)

-----------------------------------------------------------------------------
(* PayloadBuilder *)

Opened(size) == [size |-> size, pos |-> 1, first |-> TRUE, cut |-> FALSE, closed |-> FALSE]

\* snprintf() returns what it would have written: pos moves on even when the end of
\* the field, or its terminating 0, did not fit.
AddField(pb, f) ==
    LET n == (IF pb.first THEN 0 ELSE 1) + Len(f.key) + 3 + f.width
    IN  IF pb.pos >= pb.size THEN pb
        ELSE [pb EXCEPT !.pos = @ + n, !.first = FALSE, !.cut = pb.pos + n >= pb.size]

\* The closing brace goes where there is room for it, and the 0 after it, too.
Closed(pb) == IF pb.pos < pb.size THEN [pb EXCEPT !.pos = @ + 1, !.closed = TRUE] ELSE pb

Build(fields, size) ==
    LET pb[n \in 0 .. Len(fields)] ==
            IF n = 0 THEN Opened(size) ELSE AddField(pb[n - 1], fields[n])
    IN  Closed(pb[Len(fields)])

\* Nothing was cut, the object is closed, and the string ends in the buffer.
Whole(pb) == ~pb.cut /\ pb.closed /\ pb.pos < pb.size

-----------------------------------------------------------------------------
(* buf_append() and the messages made with it *)

\* The writing stops at the first piece that does not fit.
buf_append(size, pos, n) ==
    IF pos < 0 \/ pos >= size THEN pos
    ELSE IF pos + n >= size THEN -1 ELSE pos + n

Appended(size, start, pieces) ==
    LET pos[n \in 0 .. Len(pieces)] ==
            IF n = 0 THEN start ELSE buf_append(size, pos[n - 1], pieces[n])
    IN  pos[Len(pieces)]

\* The bytes of {"id":..,"hw":..,"hwrev":..,"fw":..,"ota":d,"cal":d,"diag":1,
\* "intrvl":..,"metrics":{ with both digits but without the five values.
CapabilitiesHead == 80

format_capabilities_payload(metrics, values, size) ==
    Appended(size, 0,
        << CapabilitiesHead + values >>
        \o [i \in DOMAIN metrics |->
              (IF i > 1 THEN 1 ELSE 0) + Len(metrics[i].name) + metrics[i].unit + 5]
        \o << 2 >>)

\* {"n":"..","t":".."} and the comma before it.
ParamPieces(params) ==
    [j \in DOMAIN params |->
        (IF j > 1 THEN 1 ELSE 0) + 15 + Len(params[j][1]) + Len(params[j][2])]

\* "name":[..] of the i-th command, and the comma if one with parameters came before it.
CommandPieces(commands, i) ==
    << (IF \E j \in 1 .. i - 1 : commands[j].params # << >> THEN 1 ELSE 0)
       + Len(commands[i].name) + 4 >>
    \o ParamPieces(commands[i].params) \o << 1 >>

NamePieces(commands) ==
    [i \in DOMAIN commands |-> (IF i > 1 THEN 1 ELSE 0) + Len(commands[i].name) + 2]

\* Only commands with parameters are described.
format_commands_payload(commands, size) ==
    LET names == Appended(size, 0, << 13 >> \o NamePieces(commands) \o << 20 >>)
        pos[i \in 0 .. Len(commands)] ==
            IF i = 0 THEN names
            ELSE IF commands[i].params = << >> THEN pos[i - 1]
            ELSE Appended(size, pos[i - 1], CommandPieces(commands, i))
    IN  Appended(size, pos[Len(commands)], << 2 >>)
=============================================================================
