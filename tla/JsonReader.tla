----------------------------- MODULE JsonReader -----------------------------
(***************************************************************************)
(* What _NT_jsonParse promises the plug-ins: the values of a document come *)
(* one by one in the order they were written, whatever their nesting, and  *)
(* a call is refused, and moves nothing, exactly if it asks for something  *)
(* else than what comes next.                                              *)
(*                                                                         *)
(* A document is the sequence of its values, each with its depth, and its  *)
(* name if it is a member of an object.                                    *)
(***************************************************************************)
EXTENDS Integers, Sequences, FiniteSets

CONSTANTS
  Names,
  NoName,      \* of an element, or of the root
  Scalars,     \* kinds of values that hold no others
  Values

Containers == {"object", "array"}

VARIABLES
  doc,
  at,      \* the next value; 0 while there is no document
  answer   \* the last call and what it returned

vars == <<doc, at, answer>>

Refused(call) == [call |-> call, ok |-> FALSE, value |-> 0]
Granted(call, v) == [call |-> call, ok |-> TRUE, value |-> v]
NoCall == Refused(<<"none", NoName>>)

\* The positions of what is below position p, and after it.
Below(p) == {q \in p + 1 .. Len(doc) : \A r \in p + 1 .. q : doc[r].depth > doc[p].depth}
Held(p) == {q \in Below(p) : doc[q].depth = doc[p].depth + 1}
After(p) == p + 1 + Cardinality(Below(p))

IsNext(kind) == at \in DOMAIN doc /\ doc[at].kind = kind
IsMember == at \in DOMAIN doc /\ doc[at].name # NoName
IsNamed(name) == IsMember /\ doc[at].name = name

Begin ==
  /\ at = 0
  /\ at' = 1
  /\ \A i \in DOMAIN doc' : doc'[i].depth \in Nat
  /\ UNCHANGED answer

\* number, string, boolean, null
Read(kind) ==
  /\ answer' = IF IsNext(kind) THEN Granted(<<"read", kind>>, doc[at].value)
                               ELSE Refused(<<"read", kind>>)
  /\ at' = IF IsNext(kind) THEN at + 1 ELSE at

\* numberOfObjectMembers, numberOfArrayElements
Enter(kind) ==
  /\ answer' = IF IsNext(kind) THEN Granted(<<"enter", kind>>, Cardinality(Held(at)))
                               ELSE Refused(<<"enter", kind>>)
  /\ at' = IF IsNext(kind) THEN at + 1 ELSE at

SkipMember ==
  /\ answer' = IF IsMember THEN Granted(<<"skip", NoName>>, 0) ELSE Refused(<<"skip", NoName>>)
  /\ at' = IF IsMember THEN After(at) ELSE at

MatchName(name) ==
  /\ answer' = IF IsNamed(name) THEN Granted(<<"match", name>>, 0)
                                ELSE Refused(<<"match", name>>)
  /\ at' = at

Init == doc = <<>> /\ at = 0 /\ answer = NoCall

Next ==
  \/ Begin
  \/ /\ at > 0
     /\ \/ \E kind \in Scalars : Read(kind)
        \/ \E kind \in Containers : Enter(kind)
        \/ SkipMember
        \/ \E name \in Names : MatchName(name)
     /\ UNCHANGED doc

Spec == Init /\ [][Next]_vars
=============================================================================
