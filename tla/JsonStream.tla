----------------------------- MODULE JsonStream -----------------------------
(***************************************************************************)
(* The harness's JSON streams (harness/src/nt_jsonstream.cpp), through     *)
(* which the tests save and restore plug-ins: a document is written call   *)
(* by call, its text is parsed into nodes, and a reader moves a stack of   *)
(* frames over them.                                                       *)
(*                                                                         *)
(* The text is a sequence of tokens; quoting, white space and the digits   *)
(* of numbers are left out.  Booleans and nulls are written and read as    *)
(* numbers and strings are.                                                *)
(***************************************************************************)
EXTENDS JsonFrames

CONSTANT MaxItems   \* bound: values of a document

VARIABLES
  out, ctx, auto_root_opened,   \* WriterState
  named                         \* the name the caller has added, or NoName

writer_vars == <<out, ctx, auto_root_opened, named>>
vars == <<writer_vars, frames_vars>>

-----------------------------------------------------------------------------
(***************************************************************************)
(* Writing.                                                                *)
(***************************************************************************)

Sign(s) == [is |-> s, text |-> 0]
Text(s, x) == [is |-> s, text |-> x]
Opening(kind) == Sign(IF kind = "object" THEN "{" ELSE "[")
Closing(kind) == Sign(IF kind = "object" THEN "}" ELSE "]")

Context(kind) == [kind |-> kind, first |-> TRUE]
Begun(c) == ReplaceAt(c, Len(c), [Last(c) EXCEPT !.first = FALSE])

Comma(c) == IF Last(c).first THEN <<>> ELSE <<Sign(",")>>

\* before_value, and the openings: a member's comma came with its name.
CommaBefore == IF Last(ctx).kind = "array" THEN Comma(ctx) ELSE <<>>
CtxBefore == IF Last(ctx).kind = "array" THEN Begun(ctx) ELSE ctx

ItemOf(kind, depth, v) == [kind |-> kind, depth |-> depth, name |-> named, value |-> v]

\* The caller keeps to the grammar.
MayWriteValue ==
  /\ ~reading /\ Len(written) < MaxItems
  /\ CASE Last(ctx).kind = "top" -> written = <<>>
       [] Last(ctx).kind = "object" -> named # NoName
       [] OTHER -> TRUE

Add(kind, v) ==
  /\ MayWriteValue
  /\ out' = out \o CommaBefore \o <<Text(kind, v)>>
  /\ ctx' = CtxBefore
  /\ written' = Append(written, ItemOf(kind, Len(ctx) - 1, v))
  /\ named' = NoName
  /\ UNCHANGED <<auto_root_opened, nodes, stack, reading, answer>>

Open(kind) ==
  /\ MayWriteValue
  /\ out' = out \o CommaBefore \o <<Opening(kind)>>
  /\ ctx' = Append(CtxBefore, Context(kind))
  /\ written' = Append(written, ItemOf(kind, Len(ctx) - 1, 0))
  /\ named' = NoName
  /\ UNCHANGED <<auto_root_opened, nodes, stack, reading, answer>>

Close ==
  /\ ~reading /\ named = NoName
  /\ Len(ctx) > (IF auto_root_opened THEN 2 ELSE 1)
  /\ out' = Append(out, Closing(Last(ctx).kind))
  /\ ctx' = Front(ctx)
  /\ UNCHANGED <<auto_root_opened, named, written, nodes, stack, reading, answer>>

\* A name on top level opens the root.
AddMemberName(name) ==
  LET auto == Last(ctx).kind = "top"
      within == IF auto THEN Append(ctx, Context("object")) ELSE ctx
  IN  /\ ~reading /\ named = NoName
      /\ IF auto THEN written = <<>> ELSE Last(ctx).kind = "object"
      /\ Len(written) < MaxItems - (IF auto THEN 1 ELSE 0)
      /\ out' = out \o (IF auto THEN <<Opening("object")>> ELSE <<>>)
                    \o Comma(within) \o <<Text("string", name), Sign(":")>>
      /\ ctx' = Begun(within)
      /\ auto_root_opened' = (auto_root_opened \/ auto)
      /\ written' = IF auto THEN <<ItemOf("object", 0, 0)>> ELSE written
      /\ named' = name
      /\ UNCHANGED <<nodes, stack, reading, answer>>

-----------------------------------------------------------------------------
(***************************************************************************)
(* Parsing: the parser appends a value's node before it parses the values  *)
(* in it.                                                                  *)
(***************************************************************************)

Node(kind, v) == [kind |-> kind, value |-> v, children |-> <<>>, names |-> <<>>]
NoParse == [ok |-> FALSE]
Parsed(next, ns, node) == [ok |-> TRUE, next |-> next, nodes |-> ns, node |-> node]

\* The token at p.
Is(p, s) == p <= Len(out') /\ out'[p].is = s

\* Mutant: the child of the node appended last.
WithChildLast(ns, idx, v) == [ns EXCEPT ![Len(ns)].children = Append(@, v)]
WithChild(ns, idx, v) == [ns EXCEPT ![idx].children = Append(@, v)]
WithName(ns, idx, name) == [ns EXCEPT ![idx].names = Append(@, name)]

RECURSIVE ParseValue(_, _), ParseMembers(_, _, _), ParseElements(_, _, _)
ParseMembers(p, ns, idx) ==
  IF ~(Is(p, "string") /\ Is(p + 1, ":")) THEN NoParse
  ELSE LET v == ParseValue(p + 2, ns)
           with == WithChild(WithName(v.nodes, idx, out'[p].text), idx, v.node)
       IN  CASE ~v.ok -> NoParse
             [] Is(v.next, ",") -> ParseMembers(v.next + 1, with, idx)
             [] Is(v.next, "}") -> Parsed(v.next + 1, with, idx)
             [] OTHER -> NoParse
ParseElements(p, ns, idx) ==
  LET v == ParseValue(p, ns)
      with == WithChild(v.nodes, idx, v.node)
  IN  CASE ~v.ok -> NoParse
        [] Is(v.next, ",") -> ParseElements(v.next + 1, with, idx)
        [] Is(v.next, "]") -> Parsed(v.next + 1, with, idx)
        [] OTHER -> NoParse
ParseValue(p, ns) ==
  LET idx == Len(ns) + 1
      object == Append(ns, Node("object", 0))
      array == Append(ns, Node("array", 0))
  IN  CASE Is(p, "{") /\ Is(p + 1, "}") -> Parsed(p + 2, object, idx)
        [] Is(p, "{") /\ ~Is(p + 1, "}") -> ParseMembers(p + 1, object, idx)
        [] Is(p, "[") /\ Is(p + 1, "]") -> Parsed(p + 2, array, idx)
        [] Is(p, "[") /\ ~Is(p + 1, "]") -> ParseElements(p + 1, array, idx)
        [] \E kind \in Scalars : Is(p, kind) ->
             Parsed(p + 1, Append(ns, Node(out'[p].is, out'[p].text)), idx)
        [] OTHER -> NoParse

\* buffer() closes a root it opened; the root is the one child of a virtual
\* array, on the frame the reader starts from.
Parse ==
  LET root == ParseValue(1, <<>>)
  IN  /\ ~reading /\ written # <<>> /\ named = NoName
      /\ Len(ctx) = (IF auto_root_opened THEN 2 ELSE 1)
      /\ out' = IF auto_root_opened THEN Append(out, Closing("object")) ELSE out
      /\ ctx' = IF auto_root_opened THEN Front(ctx) ELSE ctx
      /\ auto_root_opened' = FALSE
      /\ reading' = TRUE
      /\ IF root.ok
         THEN /\ nodes' = Append(root.nodes, [Node("array", 0) EXCEPT !.children = <<root.node>>])
              /\ stack' = <<[node |-> Len(nodes'), cursor |-> 0]>>
         ELSE nodes' = <<>> /\ stack' = <<>>
      /\ UNCHANGED <<named, written, answer>>

-----------------------------------------------------------------------------
Init ==
  /\ FramesInit
  /\ out = <<>> /\ ctx = <<Context("top")>> /\ auto_root_opened = FALSE
  /\ named = NoName

Next ==
  \/ \E kind \in Scalars, v \in Values : Add(kind, v)
  \/ \E kind \in {"object", "array"} : Open(kind)
  \/ Close
  \/ \E name \in Names : AddMemberName(name)
  \/ Parse
  \/ Call /\ UNCHANGED writer_vars

Spec == Init /\ [][Next]_vars

-----------------------------------------------------------------------------
\* Whatever the order of the calls that wrote it, the text of a document is parsed,
\* and to a tree of its values: a value's children are the values that were
\* written in it, in their order and under their names.
ParsesAsWritten == FramesSpec
=============================================================================
