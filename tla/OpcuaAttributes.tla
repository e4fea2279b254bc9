--------------------------- MODULE OpcuaAttributes ---------------------------
(***************************************************************************)
(* Reading and writing one attribute of a node through the OPC UA facade,  *)
(* from the client over the network and from the application that owns the *)
(* server (src/opcua_server_attributes.c, opcua_client_attributes.c,       *)
(* opcua_server_values.c, opcua_client_values.c, with the conversions of   *)
(* opcua_value.c, opcua_arrays.c and opcua_identifiers.c).                 *)
(*                                                                         *)
(* A call checks its arguments, makes the native value it sends, asks the  *)
(* native library, converts the answer into what the caller offered, and   *)
(* clears every native temporary.  attr is the attribute a behaviour is    *)
(* about: a handler touches one attribute only, so one at a time is enough.*)
(* call is the call in progress or just returned; its held counts the live *)
(* native temporaries (0, 1, or a mistake).                                *)
(*                                                                         *)
(* External: open62541 stores the attribute, answers a read with it or a   *)
(* bad status, and serves one request at a time; between two steps of the  *)
(* call other sessions may write the attribute or delete the node.         *)
(***************************************************************************)
EXTENDS Naturals, FiniteSets

CONSTANTS Names,    \* the attributes looked at
          Sizes,    \* lengths of texts, identifiers, dimensions and arrays
          Rooms,    \* room a caller offers: 0 is no buffer
          None

VARIABLES attr, node, call

vars == <<attr, node, call>>

(* What each attribute holds, and which have a writer.                     *)
KindOf == [nodeId |-> "id", nodeClass |-> "flag", browseName |-> "text",
           displayName |-> "text", description |-> "text",
           writeMask |-> "ranged", isAbstract |-> "flag",
           symmetric |-> "flag", inverseName |-> "text",
           containsNoLoops |-> "flag", eventNotifier |-> "ranged",
           dataType |-> "dataType", valueRank |-> "ranged",
           arrayDimensions |-> "dims", accessLevel |-> "ranged",
           accessLevelEx |-> "ranged", minimumSamplingInterval |-> "flag",
           historizing |-> "flag", executable |-> "flag", value |-> "value"]

ReadOnly == {"nodeId", "nodeClass", "browseName"}

OpcuaAttributesAssumption ==
    /\ Names \subseteq DOMAIN KindOf
    /\ Sizes \subseteq Nat /\ IsFiniteSet(Sizes) /\ 0 \in Sizes
    /\ Rooms \subseteq Nat /\ IsFiniteSet(Rooms) /\ 0 \in Rooms

V(type, sizes) == {[type |-> type, size |-> n] : n \in sizes}

Empty == [type |-> "empty", size |-> 0]

TooBig == [type |-> "tooBig", size |-> 0]

(* The scalar values with a length, and "array" and "texts" for arrays of  *)
(* numbers and of values with a length.                                    *)
Texts == {"text", "bytes", "name"}

(* What a node can hold; a flag's two values are told apart by size.       *)
NodeValues(kind) ==
    CASE kind \in {"flag", "ranged"} -> V("scalar", {0, 1})
      [] kind = "text" -> V("text", Sizes)
      [] kind \in {"id", "dataType"} -> V("numeric", {0}) \cup V("string", Sizes)
      [] kind = "dims" -> V("dims", Sizes)
      [] OTHER -> {Empty} \cup V("scalar", {0, 1}) \cup V("odd", {0})
                    \cup UNION {V(t, Sizes) : t \in Texts \cup {"array", "texts"}}

(* What a caller can ask to write: a number may not fit its native width.  *)
Written(kind) ==
    NodeValues(kind) \cup (IF kind \in {"ranged", "dims", "value"} THEN {TooBig} ELSE {})

NoHeld == [native |-> 0, variant |-> 0]

Idle == [at |-> "idle", api |-> "none", op |-> "none", room |-> 0,
         range |-> [start |-> 0, end |-> 0], value |-> None, sent |-> None,
         got |-> None, out |-> "kept", required |-> 0, result |-> "OK",
         held |-> NoHeld]

Init ==
    /\ attr \in Names
    /\ node \in NodeValues(KindOf[attr])
    /\ call = Idle

-----------------------------------------------------------------------------
(* Conversions.  Each gives the result, what the caller's output becomes   *)
(* and the size reported.                                                  *)

Gives(result, out, required) == [result |-> result, out |-> out, required |-> required]

(* A copy into the caller's buffer: nothing is copied unless it all fits.  *)
Copied(v, needs, room) ==
    IF room < needs THEN Gives("RANGE", "reset", needs) ELSE Gives("OK", v, needs)

copy_ua_string_to_buffer(v, room) == Copied(v, v.size + 1, room)

copy_node_id_to_caller(v, room) ==
    IF v.type = "numeric" THEN Gives("OK", v, 0) ELSE Copied(v, v.size + 1, room)

copy_array_dimensions_to_buffer(v, room) ==
    IF v.size = 0 THEN Gives("OK", v, 0) ELSE Copied(v, v.size, room)

(* The facade identifier of a native one; a string is copied into memory   *)
(* of the call's own, and a failed copy is reported as a type error.       *)
native_node_id_to_facade(v, alloc) == v.type = "numeric" \/ alloc

get_string(v, room) ==
    IF room = 0 /\ v.size = 0 THEN Gives("OK", v, 1) ELSE Copied(v, v.size + 1, room)

get_byte_string(v, room) == IF v.size = 0 THEN Gives("OK", v, 0) ELSE Copied(v, v.size, room)

get_name(v, room) == Copied(v, v.size + 1, room)

get_variant(v, room) ==
    CASE v.type \in {"empty", "scalar"} -> Gives("OK", v, 0)
      [] v.type = "text" -> get_string(v, room)
      [] v.type = "bytes" -> get_byte_string(v, room)
      [] v.type = "name" -> get_name(v, room)
      [] OTHER -> Gives("TYPE", "reset", 0)

get_data_value(v, room) == get_variant(v, room)

(* The array readers copy all elements or none.                            *)
copy_array_from_variant(v, room) ==
    IF v.type # "array" THEN Gives("TYPE", "reset", 0)
    ELSE IF v.size = 0 THEN Gives("OK", v, 0) ELSE Copied(v, v.size, room)

(* The array iterators hand each element to the caller until one refuses.  *)
each_array_from_variant(v, stops) ==
    IF v.type # "texts" THEN Gives("TYPE", "reset", 0)
    ELSE Gives(IF stops /\ v.size > 0 THEN "CALLBACK" ELSE "OK", v, v.size)

(* A range of one element may come back as a scalar.                       *)
each_range_from_variant(v, stops) ==
    IF v.type \in Texts THEN Gives(IF stops THEN "CALLBACK" ELSE "OK", v, 1)
    ELSE each_array_from_variant(v, stops)

(* The ranges the facade understands itself, "n" and "n:m".                *)
parse_simple_array_index_range(range) == range.start <= range.end

RangeCount(range) == range.end - range.start + 1

(* A slice of the whole array, when the server refused the range.          *)
each_array_slice_from_variant(v, range, stops) ==
    CASE v.type # "texts" -> Gives("TYPE", "reset", 0)
      [] v.type = "texts" /\ (\/ range.start > v.size
                              \/ RangeCount(range) > v.size - range.start) ->
           Gives("RANGE", "reset", 0)
      [] OTHER -> Gives(IF stops THEN "CALLBACK" ELSE "OK", v, RangeCount(range))

Sets(result, variant) == [result |-> result, variant |-> variant]

(* The copy of a scalar leaves the variant empty when it fails, and its    *)
(* status is ignored; the copy of an array has its status looked at.       *)
SetScalar(v, alloc) == Sets("OK", IF alloc THEN v ELSE Empty)

SetArray(v, alloc) == IF alloc THEN Sets("OK", v) ELSE Sets("ALLOC", Empty)

set_numbers(v, alloc) ==
    CASE v = TooBig -> Sets("RANGE", Empty)
      [] v.type = "array" -> SetArray(v, alloc)
      [] OTHER -> SetScalar(v, alloc)

set_strings(v, alloc) == IF v.type = "texts" THEN SetArray(v, alloc) ELSE SetScalar(v, alloc)

set_names(v, alloc) == SetScalar(v, alloc)

(* An empty variant at the end is what shows that the copy of a scalar     *)
(* failed.                                                                 *)
Checked(v, set) ==
    IF set.result = "OK" /\ set.variant = Empty /\ v # Empty THEN Sets("ALLOC", Empty) ELSE set

set_variant(v, alloc) ==
    Checked(v, CASE v.type = "odd" -> Sets("TYPE", Empty)
                 [] v.type \in {"text", "bytes", "texts"} -> set_strings(v, alloc)
                 [] v.type = "name" -> set_names(v, alloc)
                 [] OTHER -> set_numbers(v, alloc))

make_array_dimensions(v, alloc) ==
    CASE ~alloc /\ v.size > 0 -> "ALLOC"
      [] v = TooBig -> "RANGE"
      [] OTHER -> "OK"

-----------------------------------------------------------------------------
Asks(c) ==
    /\ call.at = "idle"
    /\ call' = c
    /\ UNCHANGED <<attr, node>>

(* Invalid arguments: the call returns at once.                            *)
Refused(api) == Asks([Idle EXCEPT !.api = api, !.at = "done", !.op = "refused", !.result = "ARG"])

Read(api, op, room) ==
    Asks([Idle EXCEPT !.api = api, !.at = "asked", !.op = op, !.room = room,
                      !.out = IF op \in {"value", "native", "copy", "each"}
                              THEN "kept" ELSE "reset"])

(* The user's masks and levels, which the server API reads as a value and  *)
(* copies.                                                                 *)
server_read_scalar_attribute(name) == attr = name /\ Read("server", "user", 0)

(* The native value is made before the request.  Numbers that do not fit   *)
(* are refused here; a variant made is held until the answer is in.        *)
Made(kind, v, alloc) ==
    CASE kind = "ranged" -> [result |-> IF v = TooBig THEN "RANGE" ELSE "OK",
                             variant |-> v, holds |-> 0]
      [] kind = "dims" -> [result |-> make_array_dimensions(v, alloc),
                           variant |-> v, holds |-> 1]
      [] kind = "value" -> [result |-> set_variant(v, alloc).result,
                            variant |-> set_variant(v, alloc).variant, holds |-> 1]
      [] OTHER -> [result |-> "OK", variant |-> v, holds |-> 0]

Write(api, v) ==
    \E alloc \in BOOLEAN :
      LET m == Made(KindOf[attr], v, alloc)
          c == [Idle EXCEPT !.api = api, !.op = "write", !.value = v] IN
        Asks(IF m.result = "OK"
             THEN [c EXCEPT !.at = "asked", !.sent = m.variant, !.held.variant = m.holds]
             ELSE [c EXCEPT !.at = "done", !.result = m.result])

(* The readers and the writer of an attribute.                             *)
Attribute(api, name) ==
    /\ attr = name
    /\ \/ Refused(api)
       \/ \E room \in Rooms : Read(api, KindOf[name], room)
       \/ name \notin ReadOnly /\ \E v \in Written(KindOf[name]) : Write(api, v)

server_node_id == Attribute("server", "nodeId")
server_node_class == Attribute("server", "nodeClass")
server_browse_name == Attribute("server", "browseName")
server_names == Attribute("server", "displayName") \/ Attribute("server", "description")
server_write_mask == Attribute("server", "writeMask") \/ server_read_scalar_attribute("writeMask")
server_is_abstract == Attribute("server", "isAbstract")
server_symmetric == Attribute("server", "symmetric")
server_inverse_name == Attribute("server", "inverseName")
server_contains_no_loops == Attribute("server", "containsNoLoops")
server_event_notifier == Attribute("server", "eventNotifier")
server_data_type == Attribute("server", "dataType")
server_value_rank == Attribute("server", "valueRank")
server_array_dimensions == Attribute("server", "arrayDimensions")
server_access_level ==
    Attribute("server", "accessLevel") \/ server_read_scalar_attribute("accessLevel")
server_access_level_ex == Attribute("server", "accessLevelEx")
server_sampling_interval == Attribute("server", "minimumSamplingInterval")
server_historizing == Attribute("server", "historizing")
server_executable ==
    Attribute("server", "executable") \/ server_read_scalar_attribute("executable")

client_node_id == Attribute("client", "nodeId")
client_node_class == Attribute("client", "nodeClass")
client_browse_name == Attribute("client", "browseName")
client_names == Attribute("client", "displayName") \/ Attribute("client", "description")
client_write_mask == Attribute("client", "writeMask")
client_is_abstract == Attribute("client", "isAbstract")
client_symmetric == Attribute("client", "symmetric")
client_inverse_name == Attribute("client", "inverseName")
client_contains_no_loops == Attribute("client", "containsNoLoops")
client_event_notifier == Attribute("client", "eventNotifier")
client_data_type == Attribute("client", "dataType")
client_value_rank == Attribute("client", "valueRank")
client_array_dimensions == Attribute("client", "arrayDimensions")
client_access_level == Attribute("client", "accessLevel")
client_access_level_ex == Attribute("client", "accessLevelEx")
client_sampling_interval == Attribute("client", "minimumSamplingInterval")
client_historizing == Attribute("client", "historizing")
client_executable == Attribute("client", "executable")

(* The value attribute has a reader for each form of the answer.           *)
ValueRead(api, op) == attr = "value" /\ \E room \in Rooms : Read(api, op, room)

StringRange(api) ==
    /\ attr = "value"
    /\ \E start, end \in Sizes :
         Asks([Idle EXCEPT !.api = api, !.at = "asked", !.op = "range", !.out = "reset",
                           !.range = [start |-> start, end |-> end]])

ValueWrite(api) == attr = "value" /\ \E v \in Written("value") : Write(api, v)

server_read == ValueRead("server", "value")
server_read_native_variant == ValueRead("server", "native")
server_read_data_value == ValueRead("server", "data")
server_read_numeric_arrays == ValueRead("server", "copy")
server_read_text_arrays == ValueRead("server", "each")
server_read_numeric_ranges == ValueRead("server", "copyRange")
server_read_name_ranges == ValueRead("server", "eachRange")
server_read_string_ranges == StringRange("server")
server_write == ValueWrite("server")

client_read == ValueRead("client", "value")
client_read_native_variant == ValueRead("client", "native")
client_read_data_value == ValueRead("client", "data")
client_read_numeric_arrays == ValueRead("client", "copy")
client_read_text_arrays == ValueRead("client", "each")
client_read_numeric_ranges == ValueRead("client", "copyRange")
client_read_name_ranges == ValueRead("client", "eachRange")
client_read_string_ranges == StringRange("client")
client_write == ValueWrite("client")

-----------------------------------------------------------------------------
(* Answers that are numbers own nothing; the others are cleared after use. *)
Owned(op) == IF op \in {"flag", "ranged", "write"} THEN 0 ELSE 1

(* The native library serves the request: a write stores what it was sent, *)
(* a read answers with a copy, and either may be refused.                  *)
Serve ==
    /\ call.at = "asked"
    /\ \/ call' = [call EXCEPT !.at = "refused"] /\ UNCHANGED node
       \/ /\ call.op = "write" /\ node # None
          /\ node' = call.sent
          /\ call' = [call EXCEPT !.at = "answered"]
       \/ /\ call.op # "write" /\ node # None
          /\ call' = [call EXCEPT !.at = "answered", !.got = node,
                                  !.held.native = @ + Owned(call.op)]
          /\ UNCHANGED node
    /\ UNCHANGED attr

(* The call returns: every temporary is cleared, then the result is given. *)
Returns(r) ==
    /\ call' = [call EXCEPT !.at = "done", !.result = r.result, !.out = r.out,
                            !.required = r.required,
                            !.held.native = IF call.got = None THEN @ ELSE @ - Owned(call.op),
                            !.held.variant = IF call.op = "write"
                                                /\ KindOf[attr] \in {"dims", "value"}
                                             THEN @ - 1 ELSE @]
    /\ UNCHANGED <<attr, node>>

(* A bad status.  A string range the server refuses as a range is read     *)
(* again in whole when the facade can take the slice itself.               *)
UpstreamError ==
    /\ call.at = "refused"
    /\ \/ Returns(Gives("UPSTREAM", call.out, 0))
       \/ /\ call.op = "range" /\ parse_simple_array_index_range(call.range)
          /\ call' = [call EXCEPT !.at = "asked", !.op = "slice"]
          /\ UNCHANGED <<attr, node>>

(* A range or a user mask is copied out of the answer, which is cleared; a *)
(* failed copy ends the call.                                              *)
CopyFails ==
    /\ call.at = "answered" /\ call.op \in {"user", "copyRange", "eachRange", "range"}
    /\ Returns(Gives("ALLOC", call.out, 0))

Converted(r) == Returns(r)

(* What a read makes of its answer.                                        *)
FinishRead ==
    /\ call.at = "answered" /\ call.op \notin {"write", "native"}
    /\ \E alloc, stops \in BOOLEAN :
         LET v == call.got
             room == call.room
             named == native_node_id_to_facade(v, alloc) IN
           Converted(
             CASE call.op \in {"flag", "ranged", "user"} -> Gives("OK", v, 0)
               [] call.op = "text" -> copy_ua_string_to_buffer(v, room)
               [] call.op = "id" -> IF named THEN copy_node_id_to_caller(v, room)
                                    ELSE Gives("TYPE", "reset", 0)
               [] call.op = "dataType" -> IF named /\ v.type = "numeric"
                                          THEN Gives("OK", v, 0) ELSE Gives("TYPE", "reset", 0)
               [] call.op = "dims" -> copy_array_dimensions_to_buffer(v, room)
               [] call.op = "value" -> get_variant(v, room)
               [] call.op = "data" -> get_data_value(v, room)
               [] call.op \in {"copy", "copyRange"} -> copy_array_from_variant(v, room)
               [] call.op = "each" -> each_array_from_variant(v, stops)
               [] call.op \in {"eachRange", "range"} -> each_range_from_variant(v, stops)
               [] call.op = "slice" -> each_array_slice_from_variant(v, call.range, stops))

(* A native reader calls back with the answer, which is cleared afterwards.*)
NativeCallback ==
    /\ call.at = "answered" /\ call.op = "native"
    /\ \E result \in {"OK", "CALLBACK"} : Returns(Gives(result, call.got, 0))

FinishWrite ==
    /\ call.at = "answered" /\ call.op = "write"
    /\ Returns(Gives("OK", "kept", 0))

(* Another session writes the attribute or deletes the node.               *)
Elsewhere ==
    /\ call.at # "done" /\ node # None
    /\ node' \in NodeValues(KindOf[attr]) \cup {None}
    /\ UNCHANGED <<attr, call>>

(* The application takes what the call gave.                               *)
Taken ==
    /\ call.at = "done"
    /\ call' = Idle
    /\ UNCHANGED <<attr, node>>

Asked ==
    \/ server_node_id \/ server_node_class \/ server_browse_name \/ server_names
    \/ server_write_mask \/ server_is_abstract \/ server_symmetric
    \/ server_inverse_name \/ server_contains_no_loops \/ server_event_notifier
    \/ server_data_type \/ server_value_rank \/ server_array_dimensions
    \/ server_access_level \/ server_access_level_ex \/ server_sampling_interval
    \/ server_historizing \/ server_executable
    \/ client_node_id \/ client_node_class \/ client_browse_name \/ client_names
    \/ client_write_mask \/ client_is_abstract \/ client_symmetric
    \/ client_inverse_name \/ client_contains_no_loops \/ client_event_notifier
    \/ client_data_type \/ client_value_rank \/ client_array_dimensions
    \/ client_access_level \/ client_access_level_ex \/ client_sampling_interval
    \/ client_historizing \/ client_executable
    \/ server_read \/ server_read_native_variant \/ server_read_data_value
    \/ server_read_numeric_arrays \/ server_read_text_arrays
    \/ server_read_numeric_ranges \/ server_read_name_ranges
    \/ server_read_string_ranges \/ server_write
    \/ client_read \/ client_read_native_variant \/ client_read_data_value
    \/ client_read_numeric_arrays \/ client_read_text_arrays
    \/ client_read_numeric_ranges \/ client_read_name_ranges
    \/ client_read_string_ranges \/ client_write

Next ==
    \/ Asked
    \/ Serve \/ UpstreamError \/ CopyFails \/ FinishRead \/ NativeCallback \/ FinishWrite
    \/ Taken \/ Elsewhere

Spec == Init /\ [][Next]_vars

-----------------------------------------------------------------------------
TypeOK ==
    /\ attr \in Names
    /\ node \in NodeValues(KindOf[attr]) \cup {None}
    /\ call.at \in {"idle", "done", "asked", "refused", "answered"}

(* No call leaks or clears twice: a native temporary is live at most once, *)
(* none is live when its call has returned, and an answer is live for as   *)
(* long as it is being converted or a callback is looking at it.           *)
TemporariesExact ==
    /\ call.held.native \in {0, 1} /\ call.held.variant \in {0, 1}
    /\ call.at \in {"idle", "done"} => call.held = NoHeld
    /\ call.at = "answered" => call.held.native = Owned(call.op)

Returned(ops) == call.at = "done" /\ call.op \in ops

Failed == call.result \in {"ARG", "TYPE", "ALLOC", "UPSTREAM", "RANGE"}

(* What a call that returned OK gave is what the node held when it was     *)
(* asked, in whole and within the room offered; a call that failed gave    *)
(* nothing; a call that failed for want of room reports a size larger than *)
(* the one it was offered, so that the caller's retry makes progress; and  *)
(* a slice the facade takes itself ends within the array it was taken of,  *)
(* though other sessions may have replaced the one the range was refused   *)
(* for.                                                                    *)
ReadsTruthful ==
    /\ (call.at = "done" /\ Failed) => call.out \in {"kept", "reset"}
    /\ (call.at = "done" /\ call.op \notin {"none", "refused", "write"} /\ ~Failed) =>
         call.out = call.got
    /\ (Returned({"text"}) /\ ~Failed) => call.got.size < call.room
    /\ (Returned({"dims", "copy", "copyRange"}) /\ ~Failed) => call.got.size <= call.room
    /\ (call.at = "done" /\ call.result = "RANGE" /\ call.op \notin {"slice", "write"}) =>
         call.required > call.room
    /\ (Returned({"slice"}) /\ ~Failed) =>
         call.range.start + call.required <= call.got.size

(* A write reported as done stored the value the caller gave, not the      *)
(* empty value a failed copy leaves and not one that did not fit.          *)
WritesLand == (Returned({"write"}) /\ ~Failed) => call.sent = call.value

AttributesExact == TypeOK /\ TemporariesExact /\ ReadsTruthful /\ WritesLand

=============================================================================
