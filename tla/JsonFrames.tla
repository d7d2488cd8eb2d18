----------------------------- MODULE JsonFrames -----------------------------
(***************************************************************************)
(* The reader of a JSON stream (harness/src/nt_jsonstream.cpp): a stack of *)
(* frames, each a cursor in the children of a container, over the nodes    *)
(* that a document was parsed to.                                          *)
(***************************************************************************)
EXTENDS Integers, Sequences, SequencesExt

CONSTANTS
  Names, NoName,
  Scalars, Values,
  EntersEmpty   \* a reader may enter an empty container and go on after it

VARIABLES
  nodes, stack,   \* ParserState
  reading,
  answer,
  written         \* the values of the document, in their order

frames_vars == <<nodes, stack, reading, answer, written>>

Kinds == Scalars \cup {"object", "array"}

-----------------------------------------------------------------------------
(***************************************************************************)
(* The calls of a reader.                                                  *)
(***************************************************************************)

Children(frame) == nodes[frame.node].children

\* The node the cursor is at, or 0.
PeekValue ==
  IF stack = <<>> \/ Last(stack).cursor >= Len(Children(Last(stack))) THEN 0
  ELSE Children(Last(stack))[Last(stack).cursor + 1]

\* Mutant: exhausted frames stay.
AdvancedStill == ReplaceAt(stack, Len(stack), [Last(stack) EXCEPT !.cursor = @ + 1])

\* On to the next value: exhausted frames are popped.
Advanced ==
  LET moved == ReplaceAt(stack, Len(stack), [Last(stack) EXCEPT !.cursor = @ + 1])
      live == {i \in DOMAIN moved : moved[i].cursor < Len(Children(moved[i]))}
  IN  IF live = {} THEN <<>> ELSE SubSeq(moved, 1, Max(live))

PeekIs(kind) == PeekValue # 0 /\ nodes[PeekValue].kind = kind

Refused(call) == [call |-> call, ok |-> FALSE, value |-> 0]
Granted(call, v) == [call |-> call, ok |-> TRUE, value |-> v]
NoCall == Refused(<<"none", NoName>>)

Read(kind) ==
  IF PeekIs(kind)
  THEN answer' = Granted(<<"read", kind>>, nodes[PeekValue].value) /\ stack' = Advanced
  ELSE answer' = Refused(<<"read", kind>>) /\ UNCHANGED stack

\* The frame of the container, pushed when the ones it exhausts are gone.
Entered == Append(Advanced, [node |-> PeekValue, cursor |-> 0])

Enter(kind) ==
  IF PeekIs(kind)
  THEN /\ LET count == Len(nodes[PeekValue].children)
          IN  /\ count = 0 /\ PeekValue < Len(nodes) - 1 => EntersEmpty
              /\ answer' = Granted(<<"enter", kind>>, count)
       /\ stack' = Entered
  ELSE answer' = Refused(<<"enter", kind>>) /\ UNCHANGED stack

AtMember ==
  /\ stack # <<>>
  /\ nodes[Last(stack).node].kind = "object"
  /\ Last(stack).cursor < Len(Children(Last(stack)))

MatchName(name) ==
  /\ answer' = IF AtMember /\ nodes[Last(stack).node].names[Last(stack).cursor + 1] = name
               THEN Granted(<<"match", name>>, 0) ELSE Refused(<<"match", name>>)
  /\ UNCHANGED stack

SkipMember ==
  IF AtMember
  THEN answer' = Granted(<<"skip", NoName>>, 0) /\ stack' = Advanced
  ELSE answer' = Refused(<<"skip", NoName>>) /\ UNCHANGED stack

Call ==
  /\ reading
  /\ \/ \E kind \in Scalars : Read(kind)
     \/ \E kind \in {"object", "array"} : Enter(kind)
     \/ SkipMember
     \/ \E name \in Names : MatchName(name)
  /\ UNCHANGED <<nodes, reading, written>>

-----------------------------------------------------------------------------
\* Nodes are numbered in the order of the text.
Reader == INSTANCE JsonReader WITH
  doc <- IF reading THEN written ELSE <<>>,
  at <- IF ~reading THEN 0 ELSE IF PeekValue = 0 THEN Len(written) + 1 ELSE PeekValue

\* What one plug-in writes another reads, in order and whatever its nesting:
\* the stack of frames is a position in the document.
ReadsAsWritten == Reader!Spec

-----------------------------------------------------------------------------
(***************************************************************************)
(* The reader of any document, parsed to a tree of its values.             *)
(***************************************************************************)

Item ==
  [kind : Kinds, depth : Nat, name : Names \cup {NoName}, value : Values \cup {0}]
TreeNode ==
  [kind : Kinds, value : Values \cup {0}, children : Seq(Nat), names : Seq(Names \cup {NoName})]

\* One value, the root, and below it only values of objects, by name, and of
\* arrays.
Document ==
  /\ written \in Seq(Item) /\ written # <<>>
  /\ written[1].depth = 0 /\ written[1].name = NoName
  /\ \A p \in DOMAIN written :
       /\ p > 1 => written[p].depth \in 1 .. written[p - 1].depth + 1
       /\ written[p].kind \in Scalars => Reader!Held(p) = {}
       /\ \A q \in Reader!Held(p) : written[q].name # NoName <=> written[p].kind = "object"

Enumerates(s, S) ==
  /\ {s[i] : i \in DOMAIN s} = S
  /\ \A i, j \in DOMAIN s : i < j => s[i] < s[j]

\* The values of the document as nodes, and the virtual array the root is in.
Tree ==
  /\ nodes \in Seq(TreeNode) /\ Len(nodes) = Len(written) + 1
  /\ \A p \in DOMAIN written :
       /\ nodes[p].kind = written[p].kind
       /\ nodes[p].value = written[p].value
       /\ Enumerates(nodes[p].children, Reader!Held(p))
       /\ nodes[p].kind = "object" =>
            nodes[p].names =
              [i \in DOMAIN nodes[p].children |-> written[nodes[p].children[i]].name]
  /\ nodes[Len(nodes)].kind = "array" /\ nodes[Len(nodes)].children = <<1>>

Write == ~reading /\ UNCHANGED <<nodes, stack, reading, answer>>

BeginReading ==
  /\ ~reading /\ reading' = TRUE
  /\ Document' /\ Tree'
  /\ stack' = <<[node |-> Len(nodes'), cursor |-> 0]>>
  /\ UNCHANGED <<written, answer>>

FramesInit ==
  /\ nodes = <<>> /\ stack = <<>> /\ reading = FALSE
  /\ answer = NoCall
  /\ written = <<>>

FramesNext == Write \/ BeginReading \/ Call

FramesSpec == FramesInit /\ [][FramesNext]_frames_vars
=============================================================================
