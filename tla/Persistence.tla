----------------------------- MODULE Persistence ----------------------------
(***************************************************************************)
(* How the state of a plug-in gets into a preset and out of it again: an   *)
(* applet's 64 bits as two numbers (_per_applet_runtime.h), an app's blob  *)
(* of settings as one number for every four bytes (_per_app_runtime.h).    *)
(*                                                                         *)
(* An object is the sequence of its members.  The reader's position is     *)
(* that of JsonReader; what is nested in a foreign member it skips.  Bytes *)
(* are left in their words.  Between a save and a load the user may edit   *)
(* the preset, or another version of the plug-in may have written it.      *)
(*                                                                         *)
(* An app has a blob of at most MaxBlobBytes: serialise of a larger one    *)
(* writes no member, deserialise returns at once (PersistenceAssumption).  *)
(***************************************************************************)
EXTENDS Integers, Sequences, SequencesExt

CONSTANTS
  hemi_hi, hemi_lo, oc_len,   \* names of members
  BlobWords,      \* the names of the words of the app's blob, in order
  OtherWords,     \* the names of words that only a longer blob has
  Foreign,        \* a name that neither knows
  NotANumber,     \* a value of another kind
  WordModulus,    \* 2^32
  StorageBytes,   \* the length of the app's blob
  MaxBlobBytes,   \* 512
  MaxEdits        \* bound

AppWords == Range(BlobWords)
AppletWords == {hemi_hi, hemi_lo}
MemberNames == AppletWords \cup {oc_len, Foreign} \cup AppWords \cup OtherWords

ASSUME PersistenceAssumption ==
  /\ BlobWords \in Seq(MemberNames) /\ BlobWords # <<>>
  /\ \A i, j \in DOMAIN BlobWords : BlobWords[i] = BlobWords[j] => i = j
  /\ hemi_hi # hemi_lo
  /\ oc_len \notin AppletWords \cup AppWords \cup OtherWords
  /\ Foreign \notin AppletWords \cup AppWords \cup OtherWords \cup {oc_len}
  /\ AppletWords \cap (AppWords \cup OtherWords) = {}
  /\ OtherWords \cap AppWords = {}
  /\ WordModulus \in Nat \ {0} /\ WordModulus % 2 = 0
  /\ NotANumber \notin Int
  /\ StorageBytes \in Nat /\ MaxBlobBytes \in Nat /\ StorageBytes <= MaxBlobBytes
  /\ MaxEdits \in Nat

Word == 0 .. WordModulus - 1
Half == WordModulus \div 2

VARIABLES
  runtime,   \* "applet" or "app"
  state,     \* per part: OnDataRequest's halves, or the words of save's blob
  object,    \* what the preset holds for the plug-in
  \* read_data_receive and deserialise, while they run
  loading,
  at,        \* the next member
  word,      \* hi and lo, or blob
  got,       \* got_hi, got_lo
  len,       \* blob_len
  \* history
  kept,      \* per part: what the object has of the state last saved
  edits

locals == <<loading, at, word, got, len>>
vars == <<runtime, state, object, locals, kept, edits>>

Lost == -1
Spoilt == -2

Parts(r) == IF r = "applet" THEN AppletWords ELSE AppWords
Known(r) == IF r = "applet" THEN AppletWords ELSE AppWords \cup OtherWords
Order(r) == IF r = "applet" THEN <<hemi_hi, hemi_lo>> ELSE <<oc_len>> \o BlobWords

-----------------------------------------------------------------------------
(***************************************************************************)
(* Saving.  addNumber takes an int: the upper half of the words is         *)
(* negative.                                                               *)
(***************************************************************************)

Signed(w) == IF w < Half THEN w ELSE w - WordModulus
Unsigned(v) == v % WordModulus

\* write_data_request, serialise
Saved ==
  [i \in DOMAIN Order(runtime) |->
     LET name == Order(runtime)[i]
     IN  [name |-> name,
          value |-> IF name = oc_len THEN StorageBytes ELSE Signed(state[name])]]

Save ==
  /\ ~loading
  /\ object' = Saved
  /\ kept' = state
  /\ UNCHANGED <<runtime, state, locals, edits>>

\* By the user or by the plug-in itself.
Change ==
  /\ ~loading
  /\ state' \in [Parts(runtime) -> Word]
  /\ UNCHANGED <<runtime, object, locals, kept, edits>>

-----------------------------------------------------------------------------
(***************************************************************************)
(* What may happen to the object in the preset.                            *)
(***************************************************************************)

Harmed(name, harm) ==
  IF name \in Parts(runtime) THEN [kept EXCEPT ![name] = harm] ELSE kept

Lose(i) ==
  /\ object' = RemoveAt(object, i)
  /\ kept' = Harmed(object[i].name, Lost)

Spoil(i, v) ==
  /\ \/ object[i].name \in Parts(runtime) /\ v = NotANumber
     \/ object[i].name = oc_len
  /\ object' = [object EXCEPT ![i].value = v]
  /\ kept' = Harmed(object[i].name, Spoilt)

AddMember(i, m) ==
  /\ object' = InsertAt(object, i, m)
  /\ UNCHANGED kept

Swap(i, j) ==
  /\ object' = [object EXCEPT ![i] = object[j], ![j] = object[i]]
  /\ UNCHANGED kept

Edit ==
  /\ ~loading
  /\ edits < MaxEdits
  /\ \/ \E i \in DOMAIN object :
          \/ Lose(i)
          \/ \E v \in {NotANumber, MaxBlobBytes + 1} : Spoil(i, v)
          \/ \E j \in DOMAIN object : Swap(i, j)
     \/ \E i \in 1 .. Len(object) + 1 :
          \/ AddMember(i, [name |-> Foreign, value |-> NotANumber])
          \/ \E name \in OtherWords : AddMember(i, [name |-> name, value |-> 1])
  /\ edits' = edits + 1
  /\ UNCHANGED <<runtime, state, locals>>

-----------------------------------------------------------------------------
(***************************************************************************)
(* Loading: one iteration of the loop over the members at a time, with     *)
(* nothing else in between.                                                *)
(***************************************************************************)

NoWords == [name \in AppletWords \cup AppWords \cup OtherWords |-> 0]

Begin ==
  /\ ~loading
  /\ loading' = TRUE
  /\ at' = 1
  /\ UNCHANGED <<runtime, state, object, word, got, len, kept, edits>>

Return ==
  /\ loading' = FALSE
  /\ at' = 1 /\ word' = NoWords /\ got' = {} /\ len' = -1

Matched(name) == name \in Known(runtime) \/ (runtime = "app" /\ name = oc_len)

ReadMember ==
  LET m == object[at]
  IN  /\ loading /\ at <= Len(object)
      /\ CASE ~Matched(m.name) ->
                at' = at + 1 /\ UNCHANGED <<loading, word, got, len>>
           [] Matched(m.name) /\ m.value = NotANumber ->
                Return
           [] m.name \in Known(runtime) /\ m.value # NotANumber ->
                /\ at' = at + 1
                /\ word' = [word EXCEPT ![m.name] = m.value]
                /\ got' = IF runtime = "applet" THEN got \cup {m.name} ELSE got
                /\ UNCHANGED <<loading, len>>
           [] m.name = oc_len /\ runtime = "app" /\ m.value # NotANumber ->
                at' = at + 1 /\ len' = m.value /\ UNCHANGED <<loading, word, got>>
      /\ UNCHANGED <<runtime, state, object, kept, edits>>

\* Mutant: one half is enough for OnDataReceive.
AcceptsEither ==
  IF runtime = "applet" THEN got # {} ELSE len >= 0 /\ len <= MaxBlobBytes

\* Mutant: a blob of the greatest length is refused.
AcceptsBelow ==
  IF runtime = "applet" THEN got = AppletWords ELSE len >= 0 /\ len < MaxBlobBytes

Accepts ==
  IF runtime = "applet" THEN got = AppletWords ELSE len >= 0 /\ len <= MaxBlobBytes

\* Mutant: the words as they are read.
RestoredSigned == [p \in Parts(runtime) |-> word[p]]

\* OnDataReceive, restore
Restored == [p \in Parts(runtime) |-> Unsigned(word[p])]

Finish ==
  /\ loading /\ at > Len(object)
  /\ state' = IF Accepts THEN Restored ELSE state
  /\ Return
  /\ UNCHANGED <<runtime, object, kept, edits>>

Init ==
  /\ runtime \in {"applet", "app"}
  /\ state = [p \in Parts(runtime) |-> 0]
  /\ object = <<>>
  /\ loading = FALSE
  /\ at = 1 /\ word = NoWords /\ got = {} /\ len = -1
  /\ kept = [p \in Parts(runtime) |-> Lost]
  /\ edits = 0

Next == Save \/ Change \/ Edit \/ Begin \/ ReadMember \/ Finish

Spec == Init /\ [][Next]_vars

-----------------------------------------------------------------------------
Member == [name : MemberNames, value : Int \cup {NotANumber}]

TypeOK ==
  /\ runtime \in {"applet", "app"}
  /\ state \in [Parts(runtime) -> Word]
  /\ object \in Seq(Member)
  /\ loading \in BOOLEAN
  /\ at \in 1 .. Len(object) + 1
  /\ word \in [AppletWords \cup AppWords \cup OtherWords -> Int]
  /\ got \in SUBSET AppletWords
  /\ len \in Int
  /\ kept \in [Parts(runtime) -> Word \cup {Lost, Spoilt}]
  /\ edits \in 0 .. MaxEdits

\* deserialise asks only whether oc_len came, read_data_receive for both halves.
Promise == INSTANCE SavedState WITH
  Words <- Word, tolerant <- (runtime = "app")

\* Whatever became of the object, a load either leaves the state as it was or
\* brings back, as last saved, each part the object still has. It does not get
\* past a spoilt part. If a part is lost, an applet's load leaves the state; an
\* app's may put 0 for it, beside words that were saved.
LoadsWhatIsKept == Promise!Spec

\* An applet, unlike an app, is never given a mixture: after a load its state is
\* the one that was saved, with both halves, or the one from before the load.
AppletAllOrNothing ==
  [][loading /\ ~loading' /\ runtime = "applet" => state' \in {state, kept}]_vars

\* An object with all its members is never refused, in whatever order they
\* come and whatever is between them.
WholeRestored ==
  [][/\ loading /\ ~loading'
     /\ \A p \in Parts(runtime) : kept[p] \in Word
     /\ runtime = "app" => [name |-> oc_len, value |-> StorageBytes] \in Range(object)
     => state' = kept]_vars
=============================================================================
