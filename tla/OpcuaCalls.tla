----------------------------- MODULE OpcuaCalls -----------------------------
(***************************************************************************)
(* Browsing, adding and deleting nodes, and methods, through the OPC UA    *)
(* facade (src/opcua_browse.c, opcua_server_nodes.c, opcua_client_nodes.c, *)
(* opcua_methods.c).                                                       *)
(*                                                                         *)
(* call is the call in progress or just returned: held is the set of       *)
(* native temporaries it has allocated and not freed.  points are the      *)
(* continuation points the server keeps, known those a caller was given,   *)
(* left those a browse without a page buffer left behind.  ctx and method  *)
(* are the method contexts and the native method nodes that point to them; *)
(* cb is the invocation of a method in progress.                           *)
(*                                                                         *)
(* External: open62541 keeps the point of an answer that has more until it *)
(* is continued to its end or released, serves the release of a point it   *)
(* keeps, and calls a method node's callback with the node's context.  An  *)
(* application does not delete a server inside one of its callbacks.       *)
(***************************************************************************)
EXTENDS Naturals, Sequences, SequencesExt, FiniteSets

CONSTANTS Points, Contexts, MethodNodes, None,
          MaxRefs,     \* references in one answer
          MaxArguments \* arguments of a method

VARIABLES points, known, left, ctx, method, server, call, cb

vars == <<points, known, left, ctx, method, server, call, cb>>
browseVars == <<points, known, left>>
methodVars == <<ctx, method, server, cb>>

OpcuaCallsAssumption ==
    /\ None \notin Points \cup Contexts \cup MethodNodes
    /\ MaxRefs \in Nat \ {0} /\ MaxArguments \in Nat \ {0}

Idle == [at |-> "idle", api |-> "none", op |-> "none", room |-> 0, bad |-> FALSE,
         refs |-> 0, expects |-> 0, point |-> None, ctx |-> None, pieces |-> <<>>, held |-> {},
         result |-> "OK"]

Quiet == [at |-> "idle", ctx |-> None, inputs |-> 0, next |-> 0, arrays |-> FALSE,
          buffers |-> {}, set |-> 0, outputs |-> 0, status |-> "GOOD"]

Init ==
    /\ points = {} /\ known = {} /\ left = {}
    /\ ctx = [c \in Contexts |-> "free"]
    /\ method = [n \in MethodNodes |-> None]
    /\ server = "live"
    /\ call = Idle /\ cb = Quiet

-----------------------------------------------------------------------------
(* A call begins, fails at once, or returns freeing what it names.         *)
Begins(c) == server = "live" /\ call.at = "idle" /\ call' = c

Fails(api, op, results) ==
    \E r \in results \ {"OK"} :
      Begins([Idle EXCEPT !.at = "done", !.api = api, !.op = op, !.result = r])

Ends(result, frees) ==
    call' = [call EXCEPT !.at = "done", !.result = result, !.held = @ \ frees]

(* The application takes the result.                                       *)
Taken == call.at = "done" /\ call' = Idle /\ UNCHANGED <<browseVars, methodVars>>

-----------------------------------------------------------------------------
(* Browsing.                                                               *)

fill_browse_description(op) ==
    IF op = "children" THEN {"OK", "ARG"} ELSE {"OK", "ARG", "RANGE"}

Browse(api, op) ==
    /\ \/ Fails(api, op, fill_browse_description(op))
       \/ \E room \in {0, 1} :
            Begins([Idle EXCEPT !.at = "browse", !.api = api, !.op = op, !.room = room])
    /\ UNCHANGED <<browseVars, methodVars>>

Continue(api) ==
    /\ \/ Fails(api, "next", {"ARG"})
       \/ \E p \in known, op \in {"next", "release"}, room \in {0, 1} :
            Begins([Idle EXCEPT !.at = "browseNext", !.api = api, !.op = op,
                                !.room = room, !.point = p])
    /\ UNCHANGED <<browseVars, methodVars>>

server_browse_children == Browse("server", "children")
server_browse_children_ex == Browse("server", "childrenEx")
server_browse_children_page == Browse("server", "page")
server_browse_next == Continue("server")
client_browse_children == Browse("client", "children")
client_browse_children_ex == Browse("client", "childrenEx")
client_browse_children_page == Browse("client", "page")
client_browse_next == Continue("client")

(* The answer of the native library; p is kept when the answer has more.   *)
Answers(bad, refs, p) ==
    call' = [call EXCEPT !.at = "answered", !.bad = bad, !.refs = refs, !.point = p,
                         !.held = @ \cup {"result"}]

NativeBrowse ==
    /\ call.at = "browse"
    /\ \/ Answers(TRUE, 0, None) /\ UNCHANGED points
       \/ \E n \in 0..MaxRefs : Answers(FALSE, n, None) /\ UNCHANGED points
       \/ \E n \in 1..MaxRefs, p \in Points \ (points \cup known) :
            Answers(FALSE, n, p) /\ points' = points \cup {p}
    /\ UNCHANGED <<known, left, methodVars>>

NativeBrowseNext ==
    /\ call.at = "browseNext"
    /\ LET p == call.point IN
         \/ p \notin points /\ Answers(TRUE, 0, None) /\ UNCHANGED points
         \/ p \in points /\ Answers(TRUE, 0, None) /\ points' = points \ {p}
         \/ /\ p \in points /\ call.op = "release"
            /\ Answers(FALSE, 0, None) /\ points' = points \ {p}
         \/ /\ p \in points /\ call.op = "next"
            /\ \E n \in 0..MaxRefs, more \in BOOLEAN :
                 /\ Answers(FALSE, n, IF more THEN p ELSE None)
                 /\ points' = IF more THEN points ELSE points \ {p}
    /\ known' = known \ {call.point}
    /\ UNCHANGED <<left, methodVars>>

release_continuation_point(p) == points' = points \ {p}

(* A page: the point goes into the caller's buffer before the references   *)
(* are delivered; when it does not fit it is released.                     *)
browse_result_page ==
    /\ call.at = "answered" /\ call.op \in {"page", "next", "release"}
    /\ CASE call.bad -> Ends("UPSTREAM", {"result"}) /\ UNCHANGED browseVars
         [] ~call.bad /\ call.point # None /\ call.room = 0 ->
              /\ release_continuation_point(call.point)
              /\ Ends("RANGE", {"result"})
              /\ UNCHANGED <<known, left>>
         [] OTHER ->
              /\ known' = known \cup ({call.point} \ {None})
              /\ IF call.op = "release" THEN Ends("OK", {"result"})
                 ELSE call' = [call EXCEPT !.at = "each"]
              /\ UNCHANGED <<points, left>>
    /\ UNCHANGED methodVars

(* Without a page buffer the point of an answer that has more is not       *)
(* looked at.                                                              *)
browse_all ==
    /\ call.at = "answered" /\ call.op \in {"children", "childrenEx"}
    /\ left' = left \cup ({call.point} \ {None})
    /\ IF call.bad THEN Ends("UPSTREAM", {"result"})
       ELSE call' = [call EXCEPT !.at = "each"]
    /\ UNCHANGED <<points, known, methodVars>>

(* One reference: its identifier and its two names are copied for the      *)
(* application's callback and freed after it.                              *)
browse_result_each ==
    /\ call.at = "each"
    /\ IF call.refs = 0 THEN Ends("OK", {"result"})
       ELSE \/ \E r \in {"TYPE", "ALLOC"} : Ends(r, {"result"})
            \/ call' = [call EXCEPT !.at = "entry", !.refs = @ - 1, !.held = @ \cup {"entry"}]
    /\ UNCHANGED <<browseVars, methodVars>>

EntryReturns ==
    /\ call.at = "entry"
    /\ \/ Ends("CALLBACK", {"result", "entry"})
       \/ call' = [call EXCEPT !.at = "each", !.held = @ \ {"entry"}]
    /\ UNCHANGED <<browseVars, methodVars>>

-----------------------------------------------------------------------------
(* Browse paths, and the arguments of a method, found by such a path.      *)

fill_browse_path == {"OK", "ARG", "ALLOC"}

Path(api, op) ==
    /\ \/ Fails(api, op, fill_browse_path)
       \/ \E room \in {0, 1} :
            Begins([Idle EXCEPT !.at = "translate", !.api = api, !.op = op, !.room = room,
                                !.held = {"path"}])
    /\ UNCHANGED <<browseVars, methodVars>>

server_translate_browse_path == Path("server", "path")
client_translate_browse_path == Path("client", "path")
server_read_method_argument_count == Path("server", "count")
server_read_method_argument == Path("server", "argument")
client_read_method_argument_count == Path("client", "count")
client_read_method_argument == Path("client", "argument")

(* What a path leads to: only a node of this server is a target.           *)
Targets == {"none", "remote", "numeric", "string"}

translate_browse_path_result_to_target(bad, target) ==
    CASE bad \/ target = "none" -> "UPSTREAM"
      [] ~bad /\ target = "remote" -> "TYPE"
      [] ~bad /\ target = "string" /\ call.room = 0 -> "RANGE"
      [] OTHER -> "OK"

browse_path_result_native_node_id(bad, target) ==
    CASE bad \/ target = "none" -> "UPSTREAM"
      [] ~bad /\ target = "remote" -> "TYPE"
      [] OTHER -> "OK"

Translated ==
    /\ call.at = "translate"
    /\ \E bad \in BOOLEAN, target \in Targets :
         IF call.op = "path"
         THEN Ends(translate_browse_path_result_to_target(bad, target), {"path"})
         ELSE LET r == browse_path_result_native_node_id(bad, target) IN
                IF r = "OK" THEN call' = [call EXCEPT !.at = "readArgument"]
                ELSE Ends(r, {"path"})
    /\ UNCHANGED <<browseVars, methodVars>>

(* The value of the argument property; a bad status leaves no value.       *)
read_method_argument_variant ==
    /\ call.at = "readArgument"
    /\ \/ Ends("UPSTREAM", {"path"})
       \/ call' = [call EXCEPT !.at = "decode", !.held = {"variant"}]
    /\ UNCHANGED <<browseVars, methodVars>>

decode_method_argument_count == {"OK", "TYPE"}

decode_method_argument == {"OK", "TYPE", "RANGE"}

Decoded ==
    /\ call.at = "decode"
    /\ \E r \in IF call.op = "count" THEN decode_method_argument_count
                                     ELSE decode_method_argument :
         Ends(r, {"variant"})
    /\ UNCHANGED <<browseVars, methodVars>>

-----------------------------------------------------------------------------
(* Nodes and references.                                                   *)

Asks(api, op, held) == Begins([Idle EXCEPT !.at = "node", !.api = api, !.op = op, !.held = held])

AddNode(api, op) ==
    /\ Fails(api, op, {"ARG", "RANGE"}) \/ Asks(api, op, {})
    /\ UNCHANGED <<browseVars, methodVars>>

(* The dimensions of an array value.                                       *)
apply_value_shape == {"OK", "RANGE", "ALLOC"}

(* A variable carries its value: the shape is made first, and a value that *)
(* cannot be made leaves no shape behind.                                  *)
AddVariable(api, op) ==
    /\ \/ Fails(api, op, {"ARG"} \cup apply_value_shape)
       \/ \E shape \in {{}, {"dims"}}, r \in {"OK", "ARG", "RANGE", "TYPE", "ALLOC"} :
            IF r = "OK" THEN Asks(api, op, shape \cup {"variant"})
            ELSE Begins([Idle EXCEPT !.at = "done", !.api = api, !.op = op, !.result = r])
    /\ UNCHANGED <<browseVars, methodVars>>

server_add_variable == AddVariable("server", "variable")
server_add_object == AddNode("server", "object")
server_add_object_type == AddNode("server", "objectType")
server_add_variable_type == AddVariable("server", "variableType")
server_add_reference_type == AddNode("server", "referenceType")
server_add_data_type == AddNode("server", "dataType")
server_add_view == AddNode("server", "view")
server_add_namespace == AddNode("server", "namespace")
server_add_reference == AddNode("server", "addReference")
server_delete_reference == AddNode("server", "deleteReference")
client_add_variable == AddVariable("client", "variable")
client_add_object == AddNode("client", "object")
client_add_object_type == AddNode("client", "objectType")
client_add_variable_type == AddVariable("client", "variableType")
client_add_reference_type == AddNode("client", "referenceType")
client_add_data_type == AddNode("client", "dataType")
client_add_view == AddNode("client", "view")
client_add_reference == AddNode("client", "addReference")
client_delete_reference == AddNode("client", "deleteReference")

NodeAnswered ==
    /\ call.at = "node"
    /\ \E r \in {"OK", "UPSTREAM"} : Ends(r, {"variant", "dims"})
    /\ UNCHANGED <<browseVars, methodVars>>

(* A node goes; the context of a method stays with the server.             *)
DeleteNode(api) ==
    /\ call.at = "idle" /\ server = "live"
    /\ \E n \in MethodNodes :
         method[n] # None /\ method' = [method EXCEPT ![n] = None]
    /\ UNCHANGED <<browseVars, ctx, server, cb, call>>

server_delete_node == DeleteNode("server")
client_delete_node == DeleteNode("client")

-----------------------------------------------------------------------------
(* Methods.  A context and its argument descriptions are allocated one by  *)
(* one; a method without inputs has no pieces for them.                    *)

Pieces(inputs) ==
    SelectSeq(<<"context", "inputTypes", "outputTypes", "inputArguments", "outputArguments">>,
              LAMBDA p : inputs \/ p \notin {"inputTypes", "inputArguments"})

AddMethod(op) ==
    /\ \/ Fails("server", op, {"ARG", "TYPE", "ALLOC"}) /\ UNCHANGED ctx
       \/ \E c \in Contexts, inputs \in BOOLEAN :
            /\ ctx[c] = "free" /\ ctx' = [ctx EXCEPT ![c] = "made"]
            /\ Begins([Idle EXCEPT !.at = "pieces", !.api = "server", !.op = op, !.ctx = c,
                                   !.pieces = Tail(Pieces(inputs)), !.held = {"context"}])
    /\ UNCHANGED <<browseVars, method, server, cb>>

server_add_method == AddMethod("method")
server_add_method_many == AddMethod("methodMany")

ContextPieces == {"context", "inputTypes", "outputTypes"}

clear_method_arguments == {"inputArguments", "outputArguments"}

PieceFails ==
    /\ Ends("ALLOC", ContextPieces \cup clear_method_arguments)
    /\ ctx' = [ctx EXCEPT ![call.ctx] = "free"]

make_method_arguments ==
    /\ call.at = "pieces"
    /\ IF call.pieces = <<>>
       THEN call' = [call EXCEPT !.at = "addMethod"] /\ UNCHANGED ctx
       ELSE \/ PieceFails
            \/ /\ call' = [call EXCEPT !.pieces = Tail(@), !.held = @ \cup {Head(call.pieces)}]
               /\ UNCHANGED ctx
    /\ UNCHANGED <<browseVars, method, server, cb>>

(* The native library adds the node, and may call it from then on.         *)
NativeAddMethod ==
    /\ call.at = "addMethod"
    /\ \/ /\ \E n \in MethodNodes :
               method[n] = None /\ method' = [method EXCEPT ![n] = call.ctx]
          /\ call' = [call EXCEPT !.at = "added"]
       \/ call' = [call EXCEPT !.at = "notAdded"] /\ UNCHANGED method
    /\ UNCHANGED <<browseVars, ctx, server, cb>>

(* The context is the server's when its node was added.                    *)
MethodAdded ==
    /\ \/ /\ call.at = "added"
          /\ Ends("OK", ContextPieces \cup clear_method_arguments)
          /\ ctx' = [ctx EXCEPT ![call.ctx] = "linked"]
       \/ /\ call.at = "notAdded"
          /\ Ends("UPSTREAM", ContextPieces \cup clear_method_arguments)
          /\ ctx' = [ctx EXCEPT ![call.ctx] = "free"]
    /\ UNCHANGED <<browseVars, method, server, cb>>

(* The invocation of a method.                                             *)
Answer(status, buffers) ==
    cb' = [cb EXCEPT !.at = "done", !.status = status, !.arrays = FALSE, !.buffers = buffers]

method_callback ==
    /\ cb.at = "idle" /\ server = "live"
    /\ \E n \in MethodNodes :
         /\ method[n] # None
         /\ \/ \E s \in {"BADINTERNALERROR", "BADOUTOFMEMORY"} :
                 cb' = [Quiet EXCEPT !.at = "done", !.ctx = method[n], !.status = s]
            \/ \E i \in 0..MaxArguments, o \in 1..MaxArguments :
                 cb' = [Quiet EXCEPT !.at = "inputs", !.ctx = method[n], !.inputs = i,
                                     !.outputs = o, !.arrays = TRUE]
    /\ UNCHANGED <<browseVars, ctx, method, server, call>>

(* Mutated form: the buffer of the input that does not match is kept.      *)
Mismatch_Keeps(i, buffers) == Answer("BADTYPEMISMATCH", buffers \ 1..(i - 1))

Mismatch(i, buffers) == Answer("BADTYPEMISMATCH", buffers \ 1..i)

(* One input: a text is converted again into a buffer of the size it       *)
(* needs; an input of another type than declared ends the invocation.      *)
MethodInput ==
    /\ cb.at = "inputs"
    /\ LET i == cb.next + 1 IN
         IF cb.next = cb.inputs THEN cb' = [cb EXCEPT !.at = "application"]
         ELSE \/ Answer("BADOUTOFMEMORY", cb.buffers \ 1..(i - 1))
              \/ \E text \in {{}, {i}} :
                   \/ Mismatch(i, cb.buffers \cup text)
                   \/ cb' = [cb EXCEPT !.next = i, !.buffers = @ \cup text]
    /\ UNCHANGED <<browseVars, ctx, method, server, call>>

(* The application's function returns; its outputs are set one after the   *)
(* other, and the first that cannot be is what the caller hears of.        *)
MethodReturns ==
    /\ cb.at = "application"
    /\ \/ \E s \in {"BADOUTOFMEMORY", "BADTYPEMISMATCH", "BADINTERNALERROR"} : Answer(s, cb.buffers \ 1..cb.inputs)
       \/ cb' = [cb EXCEPT !.at = "outputs"]
    /\ UNCHANGED <<browseVars, ctx, method, server, call>>

MethodOutput ==
    /\ cb.at = "outputs"
    /\ IF cb.set = cb.outputs THEN Answer("GOOD", cb.buffers \ 1..cb.inputs)
       ELSE \/ \E s \in {"BADOUTOFMEMORY", "BADTYPEMISMATCH"} : Answer(s, cb.buffers \ 1..cb.inputs)
            \/ cb' = [cb EXCEPT !.set = @ + 1]
    /\ UNCHANGED <<browseVars, ctx, method, server, call>>

MethodAnswered ==
    cb.at = "done" /\ cb' = Quiet /\ UNCHANGED <<browseVars, ctx, method, server, call>>

(* A client's call of a method: the inputs are made, all or none.          *)
set_variant_array == {"OK", "ARG", "RANGE", "TYPE", "ALLOC"}

CallMethod(op, counts) ==
    /\ \/ Fails("client", op, set_variant_array)
       \/ \E held \in {{}, {"inputs"}}, n \in counts :
            Begins([Idle EXCEPT !.at = "callMethod", !.api = "client", !.op = op,
                                !.expects = n, !.held = held])
    /\ UNCHANGED <<browseVars, methodVars>>

client_call_method == CallMethod("call", {1})
client_call_method_many == CallMethod("callMany", 1..MaxArguments)

NativeCall ==
    /\ call.at = "callMethod"
    /\ \E bad \in BOOLEAN, n \in 0..MaxArguments :
         call' = [call EXCEPT !.at = "called", !.bad = bad, !.refs = n,
                              !.held = IF n = 0 THEN {} ELSE {"outputs"}]
    /\ UNCHANGED <<browseVars, methodVars>>

(* The answer: a bad status or a wrong number of outputs discards them;    *)
(* otherwise all are converted and the first failure is the result.        *)
FirstError(results) ==
    LET i == SelectInSeq(results, LAMBDA r : r # "OK") IN IF i = 0 THEN "OK" ELSE results[i]

MethodCalled ==
    /\ call.at = "called"
    /\ CASE call.bad -> Ends("UPSTREAM", {"outputs"})
         [] ~call.bad /\ call.refs # call.expects -> Ends("TYPE", {"outputs"})
         [] OTHER -> \E rs \in [1..call.expects -> {"OK", "TYPE", "RANGE"}] :
                       Ends(FirstError(rs), {"outputs"})
    /\ UNCHANGED <<browseVars, methodVars>>

(* The server is deleted: the native one first, with its nodes, then the   *)
(* contexts.                                                               *)
server_delete ==
    /\ server = "live" /\ call.at = "idle" /\ cb.at = "idle"
    /\ server' = "gone"
    /\ method' = [n \in MethodNodes |-> None]
    /\ ctx' = [c \in Contexts |-> IF ctx[c] = "linked" THEN "free" ELSE ctx[c]]
    /\ points' = {} /\ known' = {} /\ left' = {}
    /\ UNCHANGED <<call, cb>>

-----------------------------------------------------------------------------
Browses ==
    \/ server_browse_children \/ server_browse_children_ex
    \/ server_browse_children_page \/ server_browse_next
    \/ client_browse_children \/ client_browse_children_ex
    \/ client_browse_children_page \/ client_browse_next
    \/ server_translate_browse_path \/ client_translate_browse_path
    \/ NativeBrowse \/ NativeBrowseNext \/ browse_result_page \/ browse_all
    \/ browse_result_each \/ EntryReturns \/ Translated

Nodes ==
    \/ server_add_variable \/ server_add_object \/ server_add_object_type
    \/ server_add_variable_type \/ server_add_reference_type
    \/ server_add_data_type \/ server_add_view \/ server_add_namespace
    \/ server_add_reference \/ server_delete_reference
    \/ client_add_variable \/ client_add_object \/ client_add_object_type
    \/ client_add_variable_type \/ client_add_reference_type
    \/ client_add_data_type \/ client_add_view
    \/ client_add_reference \/ client_delete_reference
    \/ NodeAnswered

Methods ==
    \/ server_add_method \/ server_add_method_many \/ make_method_arguments
    \/ NativeAddMethod \/ MethodAdded
    \/ method_callback \/ MethodInput \/ MethodReturns \/ MethodOutput \/ MethodAnswered
    \/ client_call_method \/ client_call_method_many \/ NativeCall \/ MethodCalled
    \/ server_read_method_argument_count \/ server_read_method_argument
    \/ client_read_method_argument_count \/ client_read_method_argument
    \/ Translated \/ read_method_argument_variant \/ Decoded
    \/ server_delete_node \/ client_delete_node \/ server_delete

(* Methods share nothing with browsing and with the other nodes, and are   *)
(* looked at on their own.                                                 *)
BrowseNext == Browses \/ Nodes \/ Taken

MethodNext == Methods \/ Taken

Next == BrowseNext \/ MethodNext

Spec == Init /\ [][Next]_vars

-----------------------------------------------------------------------------
TypeOK ==
    /\ points \subseteq Points /\ known \subseteq Points /\ left \subseteq Points
    /\ ctx \in [Contexts -> {"free", "made", "linked"}]
    /\ method \in [MethodNodes -> Contexts \cup {None}]
    /\ server \in {"live", "gone"}

(* Every continuation point the server keeps, a limited resource of the    *)
(* session, is one a caller can continue or release; the only others are   *)
(* those of browses without a page buffer.  And a point a caller was given *)
(* is one the server keeps, also when the delivery of the page failed      *)
(* half-way.                                                               *)
PointsAccounted ==
    /\ points \subseteq known \cup left \cup (IF call.at = "answered" THEN {call.point} ELSE {})
    /\ known \subseteq points

(* A call that has returned has freed its temporaries, whichever of its    *)
(* steps failed, and what an application's callback looks at is live.      *)
TemporariesFreed ==
    /\ call.at \in {"idle", "done"} => call.held = {}
    /\ call.at = "entry" => {"result", "entry"} \subseteq call.held
    /\ cb.at \in {"idle", "done"} => ~cb.arrays /\ cb.buffers = {}

(* The context a method node points to, and the one an invocation uses, is *)
(* live, though the node may be deleted while the method runs; a context   *)
(* is the server's or that of the call that is adding it, so none is lost. *)
ContextsLive ==
    /\ \A n \in MethodNodes : method[n] # None => ctx[method[n]] # "free"
    /\ cb.at # "idle" => ctx[cb.ctx] # "free"
    /\ \A c \in Contexts : ctx[c] = "made" => (call.ctx = c /\ call.at # "done")
    /\ server = "gone" => \A c \in Contexts : ctx[c] = "free"

(* A method that is reported as good converted all its inputs, ran, and    *)
(* set every output.                                                       *)
GoodIsComplete ==
    (cb.at = "done" /\ cb.status = "GOOD") =>
       cb.next = cb.inputs /\ cb.set = cb.outputs

CallsExact ==
    TypeOK /\ PointsAccounted /\ TemporariesFreed /\ ContextsLive /\ GoodIsComplete

=============================================================================
