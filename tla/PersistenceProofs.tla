-------------------------- MODULE PersistenceProofs --------------------------
(***************************************************************************)
(* Saving and loading implement SavedState, for any words, blobs and       *)
(* edits.  The inductive invariant: the object holds each part that was    *)
(* not lost once, as it was saved or spoilt, and the locals of a load are  *)
(* what it has read of them so far.  And the reader they go through is a   *)
(* position in its document.                                               *)
(***************************************************************************)
EXTENDS Persistence, JsonFrames, FiniteSetTheorems, WellFoundedInduction, SequenceTheorems, TLAPS

\* Of the members that are read.
Unique(o) ==
  \A i, j \in DOMAIN o :
    o[i].name = o[j].name /\ o[i].name \in Parts(runtime) \cup {oc_len} => i = j

Holds(o, k) ==
  \A i \in DOMAIN o : o[i].name \in Parts(runtime) =>
    /\ k[o[i].name] # Lost
    /\ o[i].value = IF k[o[i].name] = Spoilt THEN NotANumber ELSE Signed(k[o[i].name])

Others(o) == \A i \in DOMAIN o : o[i].name \in OtherWords => o[i].value \in Int

Complete(o, k) ==
  \A p \in Parts(runtime) : k[p] # Lost => \E i \in DOMAIN o : o[i].name = p

ObjectKept(o, k) == Unique(o) /\ Holds(o, k) /\ Others(o) /\ Complete(o, k)

\* The names of the members already read.
Seen == {object[i].name : i \in 1 .. at - 1}

ReadSoFar ==
  /\ \A i \in 1 .. at - 1 :
       /\ object[i].name \in Parts(runtime) =>
            object[i].value \in Int /\ word[object[i].name] = object[i].value
       /\ runtime = "app" /\ object[i].name = oc_len => len = object[i].value
  /\ \A p \in Parts(runtime) : p \notin Seen => word[p] = 0
  /\ runtime = "applet" => got = Seen \cap AppletWords

\* Between loads.
Rested == at = 1 /\ word = NoWords /\ got = {} /\ len = -1

IInv ==
  /\ TypeOK
  /\ ObjectKept(object, kept)
  /\ ReadSoFar
  /\ ~loading => Rested

-----------------------------------------------------------------------------
(***************************************************************************)
(* Words.                                                                  *)
(***************************************************************************)

LEMMA ModulusType == WordModulus \in Nat \ {0}
BY PersistenceAssumption

LEMMA ModRange ==
  ASSUME NEW v \in Int, NEW k \in Nat \ {0}
  PROVE  v % k \in 0 .. k - 1 /\ v = k * (v \div k) + (v % k) /\ v \div k \in Int
OBVIOUS

LEMMA Strictly ==
  ASSUME NEW k \in Nat \ {0}, NEW a \in Int, a > 0
  PROVE  k * a >= k
OBVIOUS

LEMMA QuotientUnique ==
  ASSUME NEW k \in Nat \ {0}, NEW q \in Int, NEW r \in 0 .. k - 1, NEW p \in Int,
         NEW s \in 0 .. k - 1, k * q + r = k * p + s
  PROVE  r = s
<1>1. k * (q - p) = s - r
  OBVIOUS
<1>2. CASE q = p
  BY <1>1, <1>2
<1>3. CASE q > p
  BY <1>1, <1>3, k * (q - p) >= k, Strictly
<1>4. CASE q < p
  <2>1. k * (p - q) = r - s
    OBVIOUS
  <2> QED BY <2>1, <1>4, k * (p - q) >= k, Strictly
<1> QED
  BY <1>2, <1>3, <1>4

\* A word is read back from the int that it was written as.
LEMMA UnsignedOfSigned ==
  ASSUME NEW w \in Word
  PROVE  Signed(w) \in Int /\ Unsigned(Signed(w)) = w
<1> DEFINE M == WordModulus
           v == Signed(w)
<1>1. M \in Nat \ {0} /\ w \in 0 .. M - 1
  BY ModulusType DEF Word
<1>2. v \in Int /\ (v = M * 0 + w \/ v = M * (-1) + w)
  BY <1>1 DEF Signed
<1>3. v % M \in 0 .. M - 1 /\ v = M * (v \div M) + (v % M) /\ v \div M \in Int
  BY <1>1, <1>2, ModRange
<1> HIDE DEF M, v
<1>4. v % M = w
  <2>1. CASE v = M * 0 + w
    BY <2>1, <1>1, <1>3, QuotientUnique
  <2>2. CASE v = M * (-1) + w
    BY <2>2, <1>1, <1>3, QuotientUnique
  <2> QED BY <1>2, <2>1, <2>2
<1> QED
  BY <1>2, <1>4 DEF Unsigned, M, v

LEMMA UnsignedType ==
  ASSUME NEW v \in Int
  PROVE  Unsigned(v) \in Word
BY ModulusType, ModRange DEF Unsigned, Word

LEMMA ZeroWord == 0 \in Word /\ Unsigned(0) = 0
<1>1. 0 \in Word
  BY ModulusType DEF Word
<1>2. Signed(0) = 0
  BY PersistenceAssumption DEF Signed, Half
<1> QED
  BY <1>1, <1>2, UnsignedOfSigned

LEMMA Harms == Lost \notin Word /\ Spoilt \notin Word /\ Lost # Spoilt
BY ModulusType DEF Lost, Spoilt, Word

LEMMA PartsFacts ==
  ASSUME runtime \in {"applet", "app"}
  PROVE  /\ Parts(runtime) \subseteq MemberNames /\ Known(runtime) \subseteq MemberNames
         /\ Parts(runtime) \subseteq Known(runtime)
         /\ Known(runtime) \subseteq Parts(runtime) \cup OtherWords
         /\ Parts(runtime) \cap OtherWords = {}
         /\ oc_len \notin Known(runtime) /\ oc_len \notin OtherWords
         /\ Foreign \notin Known(runtime) /\ Foreign # oc_len
         /\ Foreign \notin OtherWords
BY PersistenceAssumption DEF Parts, Known, MemberNames

-----------------------------------------------------------------------------
(***************************************************************************)
(* Sequences.                                                              *)
(***************************************************************************)

LEMMA RemoveAtIs ==
  ASSUME NEW s \in Seq(Member), NEW i \in DOMAIN s
  PROVE  /\ RemoveAt(s, i) \in Seq(Member)
         /\ Len(RemoveAt(s, i)) = Len(s) - 1
         /\ \A j \in 1 .. Len(s) - 1 :
              RemoveAt(s, i)[j] = IF j < i THEN s[j] ELSE s[j + 1]
<1> DEFINE a == SubSeq(s, 1, i - 1)
           b == SubSeq(s, i + 1, Len(s))
<1>1. i \in 1 .. Len(s) /\ Len(s) \in Nat /\ \A j \in 1 .. Len(s) : s[j] \in Member
  OBVIOUS
<1>2. /\ a \in Seq(Member) /\ Len(a) = i - 1
      /\ \A j \in 1 .. i - 1 : a[j] = s[j]
  <2>1. \A j \in 1 .. i - 1 : s[j] \in Member
    BY <1>1
  <2> QED BY <2>1, <1>1, SubSeqProperties
<1>3. /\ b \in Seq(Member) /\ Len(b) = Len(s) - i
      /\ \A j \in 1 .. Len(s) - i : b[j] = s[i + j]
  <2>1. \A j \in i + 1 .. Len(s) : s[j] \in Member
    BY <1>1
  <2>2. /\ b \in Seq(Member) /\ Len(b) = IF i + 1 <= Len(s) THEN Len(s) - (i + 1) + 1 ELSE 0
        /\ \A j \in 1 .. Len(s) - (i + 1) + 1 : b[j] = s[(i + 1) + j - 1]
    BY <2>1, <1>1, SubSeqProperties
  <2> HIDE DEF b
  <2> QED BY <2>2, <1>1
<1>4. RemoveAt(s, i) = a \o b
  BY DEF RemoveAt
<1> HIDE DEF a, b
<1>5. /\ a \o b \in Seq(Member) /\ Len(a \o b) = Len(a) + Len(b)
      /\ \A j \in 1 .. Len(a) + Len(b) :
           (a \o b)[j] = IF j <= Len(a) THEN a[j] ELSE b[j - Len(a)]
  BY <1>2, <1>3, ConcatProperties
<1> DEFINE e == a \o b
<1>6. e \in Seq(Member) /\ Len(e) = Len(s) - 1
  BY <1>1, <1>2, <1>3, <1>5
<1>7. ASSUME NEW j \in 1 .. Len(s) - 1
      PROVE  e[j] = IF j < i THEN s[j] ELSE s[j + 1]
  <2>0. j \in 1 .. Len(a) + Len(b)
    BY <1>1, <1>2, <1>3
  <2>1. j \in Int /\ e[j] = IF j <= i - 1 THEN a[j] ELSE b[j - (i - 1)]
    BY <2>0, <1>2, <1>5
  <2> HIDE DEF e
  <2>2. CASE j < i
    BY <2>1, <2>2, <1>1, <1>2
  <2>3. CASE j >= i
    <3>1. j - (i - 1) \in 1 .. Len(s) - i /\ i + (j - (i - 1)) = j + 1
      BY <2>3, <2>1, <1>1
    <3>2. b[j - (i - 1)] = s[j + 1]
      BY <3>1, <1>3
    <3> QED BY <3>2, <2>1, <2>3, <1>1
  <2> QED BY <2>1, <2>2, <2>3, <1>1
<1> QED
  BY <1>4, <1>6, <1>7

LEMMA InsertAtIs ==
  ASSUME NEW s \in Seq(Member), NEW i \in 1 .. Len(s) + 1, NEW m \in Member
  PROVE  /\ InsertAt(s, i, m) \in Seq(Member)
         /\ Len(InsertAt(s, i, m)) = Len(s) + 1
         /\ \A j \in 1 .. Len(s) + 1 :
              InsertAt(s, i, m)[j] = IF j < i THEN s[j] ELSE IF j = i THEN m ELSE s[j - 1]
<1> DEFINE a == SubSeq(s, 1, i - 1)
           b == SubSeq(s, i, Len(s))
           c == a \o <<m>>
<1>1. i \in 1 .. Len(s) + 1 /\ Len(s) \in Nat /\ \A j \in 1 .. Len(s) : s[j] \in Member
  OBVIOUS
<1>2. /\ a \in Seq(Member) /\ Len(a) = i - 1
      /\ \A j \in 1 .. i - 1 : a[j] = s[j]
  <2>1. \A j \in 1 .. i - 1 : s[j] \in Member
    BY <1>1
  <2> QED BY <2>1, <1>1, SubSeqProperties
<1>3. /\ b \in Seq(Member) /\ Len(b) = Len(s) - i + 1
      /\ \A j \in 1 .. Len(s) - i + 1 : b[j] = s[i + j - 1]
  <2>1. \A j \in i .. Len(s) : s[j] \in Member
    BY <1>1
  <2>2. /\ b \in Seq(Member) /\ Len(b) = IF i <= Len(s) THEN Len(s) - i + 1 ELSE 0
        /\ \A j \in 1 .. Len(s) - i + 1 : b[j] = s[i + j - 1]
    BY <2>1, <1>1, SubSeqProperties
  <2> HIDE DEF b
  <2> QED BY <2>2, <1>1
<1> HIDE DEF a, b
<1>4. c \in Seq(Member) /\ Len(c) = i /\ \A j \in 1 .. i : c[j] = IF j < i THEN s[j] ELSE m
  BY <1>1, <1>2
<1>5. InsertAt(s, i, m) = c \o b
  BY DEF InsertAt, a, b
<1> HIDE DEF c
<1>6. /\ c \o b \in Seq(Member) /\ Len(c \o b) = Len(c) + Len(b)
      /\ \A j \in 1 .. Len(c) + Len(b) :
           (c \o b)[j] = IF j <= Len(c) THEN c[j] ELSE b[j - Len(c)]
  BY <1>3, <1>4, ConcatProperties
<1> DEFINE e == c \o b
<1>7. e \in Seq(Member) /\ Len(e) = Len(s) + 1
  BY <1>1, <1>3, <1>4, <1>6
<1>8. ASSUME NEW j \in 1 .. Len(s) + 1
      PROVE  e[j] = IF j < i THEN s[j] ELSE IF j = i THEN m ELSE s[j - 1]
  <2>1. j \in Int /\ e[j] = IF j <= i THEN c[j] ELSE b[j - i]
    BY <1>1, <1>3, <1>4, <1>6
  <2> HIDE DEF e
  <2>2. CASE j <= i
    BY <2>1, <2>2, <1>1, <1>4
  <2>3. CASE j > i
    <3>1. j - i \in 1 .. Len(s) - i + 1 /\ i + (j - i) - 1 = j - 1
      BY <2>3, <2>1, <1>1
    <3>2. b[j - i] = s[j - 1]
      BY <3>1, <1>3
    <3> QED BY <3>2, <2>1, <2>3, <1>1
  <2> QED BY <2>1, <2>2, <2>3, <1>1
<1> QED
  BY <1>5, <1>7, <1>8

-----------------------------------------------------------------------------
(***************************************************************************)
(* The object, from a save through its edits.                              *)
(***************************************************************************)

Kept == [Parts(runtime) -> Word \cup {Lost, Spoilt}]

LEMMA HarmedIs ==
  ASSUME kept \in Kept, NEW name, NEW harm \in {Lost, Spoilt}
  PROVE  /\ Harmed(name, harm) \in Kept
         /\ \A p \in Parts(runtime) :
              Harmed(name, harm)[p] = IF p = name THEN harm ELSE kept[p]
BY DEF Harmed, Kept

LEMMA LoseKeeps ==
  ASSUME object \in Seq(Member), kept \in Kept, ObjectKept(object, kept),
         runtime \in {"applet", "app"}, NEW i \in DOMAIN object
  PROVE  /\ RemoveAt(object, i) \in Seq(Member)
         /\ ObjectKept(RemoveAt(object, i), Harmed(object[i].name, Lost))
<1> DEFINE o == RemoveAt(object, i)
           k == Harmed(object[i].name, Lost)
           n == Len(object)
           old(j) == IF j < i THEN j ELSE j + 1
<1>1. i \in 1 .. n /\ n \in Nat /\ DOMAIN object = 1 .. n
  OBVIOUS
<1>2. o \in Seq(Member) /\ Len(o) = n - 1 /\ DOMAIN o = 1 .. n - 1
  <2>1. o \in Seq(Member) /\ Len(o) = n - 1
    BY RemoveAtIs, SMTT(40)
  <2> HIDE DEF o, n
  <2> QED BY <2>1
<1>3. \A j \in 1 .. n - 1 : old(j) \in 1 .. n /\ old(j) # i /\ o[j] = object[old(j)]
  BY <1>1, RemoveAtIs, SMTT(40)
<1>4. \A x \in 1 .. n : x # i => \E j \in 1 .. n - 1 : old(j) = x
  <2> SUFFICES ASSUME NEW x \in 1 .. n, x # i PROVE \E j \in 1 .. n - 1 : old(j) = x
    OBVIOUS
  <2>1. CASE x < i
    <3>1. x \in 1 .. n - 1 /\ old(x) = x
      BY <2>1, <1>1
    <3> QED BY <3>1
  <2>2. CASE x > i
    <3>1. x - 1 \in 1 .. n - 1 /\ old(x - 1) = x
      BY <2>2, <1>1
    <3> QED BY <3>1
  <2> QED BY <2>1, <2>2, <1>1
<1>5. \A j, l \in 1 .. n - 1 : old(j) = old(l) => j = l
  BY <1>1
<1>6. \A p \in Parts(runtime) : k[p] = IF p = object[i].name THEN Lost ELSE kept[p]
  BY HarmedIs
<1> HIDE DEF o, k, n, old
<1>7. Unique(o)
  BY <1>1, <1>2, <1>3, <1>5 DEF Unique, ObjectKept
<1>8. Holds(o, k)
  <2> SUFFICES ASSUME NEW j \in 1 .. n - 1, o[j].name \in Parts(runtime)
               PROVE  /\ k[o[j].name] # Lost
                      /\ o[j].value = IF k[o[j].name] = Spoilt THEN NotANumber
                                      ELSE Signed(k[o[j].name])
    BY <1>2 DEF Holds
  <2>1. o[j].name # object[i].name
    BY <1>1, <1>3 DEF ObjectKept, Unique
  <2>2. k[o[j].name] = kept[o[j].name]
    BY <2>1, <1>6
  <2> QED
    BY <2>2, <1>1, <1>3 DEF ObjectKept, Holds
<1>9. Others(o)
  BY <1>1, <1>2, <1>3 DEF ObjectKept, Others
<1>10. Complete(o, k)
  <2> SUFFICES ASSUME NEW p \in Parts(runtime), k[p] # Lost
               PROVE  \E j \in 1 .. n - 1 : o[j].name = p
    BY <1>2 DEF Complete
  <2>1. p # object[i].name /\ kept[p] # Lost
    BY <1>6
  <2>2. PICK x \in 1 .. n : object[x].name = p
    BY <2>1, <1>1 DEF ObjectKept, Complete
  <2> QED
    BY <2>1, <2>2, <1>3, <1>4
<1> QED
  BY <1>2, <1>7, <1>8, <1>9, <1>10 DEF ObjectKept, o, k

LEMMA SpoilKeeps ==
  ASSUME object \in Seq(Member), kept \in Kept, ObjectKept(object, kept),
         runtime \in {"applet", "app"}, NEW i \in DOMAIN object,
         NEW v \in {NotANumber, MaxBlobBytes + 1}, Spoil(i, v)
  PROVE  object' \in Seq(Member) /\ ObjectKept(object', kept')
<1> DEFINE n == Len(object)
           name == object[i].name
<1>1. i \in 1 .. n /\ n \in Nat /\ DOMAIN object = 1 .. n
      /\ \A j \in 1 .. n : object[j] \in Member
  OBVIOUS
<1>2. v \in Int \cup {NotANumber}
  BY PersistenceAssumption
<1>3. /\ object' \in Seq(Member) /\ Len(object') = n /\ DOMAIN object' = 1 .. n
      /\ \A j \in 1 .. n : /\ object'[j].name = object[j].name
                           /\ object'[j].value = IF j = i THEN v ELSE object[j].value
  <2>1. object' = [object EXCEPT ![i].value = v]
    BY DEF Spoil
  <2>2. [object[i] EXCEPT !.value = v] \in Member
    BY <1>1, <1>2 DEF Member
  <2> QED
    BY <2>1, <2>2, <1>1 DEF Member
<1>4. \A p \in Parts(runtime) : kept'[p] = IF p = name THEN Spoilt ELSE kept[p]
  BY HarmedIs DEF Spoil
<1>5. (name \in Parts(runtime) /\ v = NotANumber) \/ name = oc_len
  BY DEF Spoil
<1> HIDE DEF n, name
<1>6. Unique(object')
  BY <1>1, <1>3 DEF Unique, ObjectKept
<1>7. Holds(object', kept')
  <2> SUFFICES ASSUME NEW j \in 1 .. n, object[j].name \in Parts(runtime)
               PROVE  /\ kept'[object[j].name] # Lost
                      /\ object'[j].value = IF kept'[object[j].name] = Spoilt THEN NotANumber
                                            ELSE Signed(kept'[object[j].name])
    BY <1>3 DEF Holds
  <2>1. CASE j = i
    BY <2>1, <1>3, <1>4, <1>5, PartsFacts, Harms DEF name
  <2>2. CASE j # i
    <3>1. object[j].name # name
      BY <2>2, <1>1 DEF name, ObjectKept, Unique
    <3> QED
      BY <3>1, <2>2, <1>1, <1>3, <1>4 DEF ObjectKept, Holds
  <2> QED BY <2>1, <2>2
<1>8. Others(object')
  <2>1. name \notin OtherWords
    BY <1>5, PartsFacts
  <2> QED
    BY <2>1, <1>1, <1>3 DEF name, ObjectKept, Others
<1>9. Complete(object', kept')
  <2> SUFFICES ASSUME NEW p \in Parts(runtime), kept'[p] # Lost
               PROVE  \E j \in 1 .. n : object'[j].name = p
    BY <1>3 DEF Complete
  <2>1. kept[p] # Lost \/ p = object[i].name
    BY <1>4 DEF name
  <2>2. \E j \in 1 .. n : object[j].name = p
    BY <2>1, <1>1 DEF ObjectKept, Complete
  <2> QED
    BY <2>2, <1>3
<1> QED
  BY <1>3, <1>6, <1>7, <1>8, <1>9 DEF ObjectKept

LEMMA SwapKeeps ==
  ASSUME object \in Seq(Member), ObjectKept(object, kept),
         NEW i \in DOMAIN object, NEW j \in DOMAIN object, Swap(i, j)
  PROVE  object' \in Seq(Member) /\ ObjectKept(object', kept')
<1> DEFINE n == Len(object)
           old(l) == IF l = j THEN i ELSE IF l = i THEN j ELSE l
<1>1. i \in 1 .. n /\ j \in 1 .. n /\ n \in Nat /\ DOMAIN object = 1 .. n
      /\ \A l \in 1 .. n : object[l] \in Member
  OBVIOUS
<1>2. /\ object' \in Seq(Member) /\ DOMAIN object' = 1 .. n
      /\ \A l \in 1 .. n : old(l) \in 1 .. n /\ object'[l] = object[old(l)]
  <2>1. object' = [object EXCEPT ![i] = object[j], ![j] = object[i]]
    BY DEF Swap
  <2> QED BY <2>1, <1>1
<1>3. \A l, m \in 1 .. n : old(l) = old(m) => l = m
  OBVIOUS
<1>4. \A l \in 1 .. n : old(old(l)) = l
  OBVIOUS
<1> HIDE DEF n, old
<1>5. kept' = kept
  BY DEF Swap
<1>6. Unique(object')
  BY <1>1, <1>2, <1>3 DEF Unique, ObjectKept
<1>7. Holds(object', kept) /\ Others(object')
  <2>1. ASSUME NEW l \in 1 .. n
        PROVE  \E x \in DOMAIN object : object'[l] = object[x]
    BY <1>1, <1>2
  <2>2. Holds(object', kept)
    BY <2>1, <1>2 DEF ObjectKept, Holds
  <2>3. Others(object')
    BY <2>1, <1>2 DEF ObjectKept, Others
  <2> QED BY <2>2, <2>3
<1>8. Complete(object', kept)
  <2> SUFFICES ASSUME NEW p \in Parts(runtime), kept[p] # Lost
               PROVE  \E l \in 1 .. n : object'[l].name = p
    BY <1>2 DEF Complete
  <2>1. PICK l \in 1 .. n : object[l].name = p
    BY <1>1 DEF ObjectKept, Complete
  <2> QED
    BY <2>1, <1>2, <1>4
<1> QED
  BY <1>2, <1>5, <1>6, <1>7, <1>8 DEF ObjectKept

LEMMA MemberInserted ==
  ASSUME object \in Seq(Member), NEW i \in 1 .. Len(object) + 1, NEW m \in Member,
         AddMember(i, m)
  PROVE  /\ object' \in Seq(Member)
         /\ Len(object') = Len(object) + 1
         /\ \A l \in 1 .. Len(object) + 1 : object'[l] =
              IF l < i THEN object[l] ELSE IF l = i THEN m ELSE object[l - 1]
<1>1. object' = InsertAt(object, i, m)
  BY DEF AddMember
<1> QED
  BY <1>1, InsertAtIs, SMTT(40)

LEMMA AddKeeps ==
  ASSUME object \in Seq(Member), ObjectKept(object, kept), runtime \in {"applet", "app"},
         NEW i \in 1 .. Len(object) + 1, NEW m \in Member,
         m.name \notin Parts(runtime) \cup {oc_len},
         m.name \in OtherWords => m.value \in Int, AddMember(i, m)
  PROVE  object' \in Seq(Member) /\ ObjectKept(object', kept')
<1> DEFINE n == Len(object)
           moved(l) == IF l < i THEN l ELSE l + 1
<1>1. i \in 1 .. n + 1 /\ n \in Nat /\ DOMAIN object = 1 .. n
  OBVIOUS
<1>2. /\ object' \in Seq(Member) /\ DOMAIN object' = 1 .. n + 1
      /\ \A l \in 1 .. n + 1 :
           object'[l] = IF l < i THEN object[l] ELSE IF l = i THEN m ELSE object[l - 1]
  <2>1. object' \in Seq(Member) /\ Len(object') = n + 1
      /\ \A l \in 1 .. n + 1 :
           object'[l] = IF l < i THEN object[l] ELSE IF l = i THEN m ELSE object[l - 1]
    BY MemberInserted, SMTT(40)
  <2> HIDE DEF n
  <2> QED BY <2>1
<1>3. \A l \in 1 .. n : moved(l) \in 1 .. n + 1 /\ moved(l) # i /\ object'[moved(l)] = object[l]
  BY <1>1, <1>2
<1>4. \A x \in 1 .. n + 1 : x # i => \E l \in 1 .. n : moved(l) = x
  <2> SUFFICES ASSUME NEW x \in 1 .. n + 1, x # i PROVE \E l \in 1 .. n : moved(l) = x
    OBVIOUS
  <2>1. CASE x < i
    <3>1. x \in 1 .. n /\ moved(x) = x
      BY <2>1, <1>1
    <3> QED BY <3>1
  <2>2. CASE x > i
    <3>1. x - 1 \in 1 .. n /\ moved(x - 1) = x
      BY <2>2, <1>1
    <3> QED BY <3>1
  <2> QED BY <2>1, <2>2, <1>1
<1>5. object'[i] = m
  BY <1>1, <1>2
<1>6. kept' = kept
  BY DEF AddMember
<1> HIDE DEF n, moved
<1>7. Unique(object')
  <2> SUFFICES ASSUME NEW x \in 1 .. n + 1, NEW y \in 1 .. n + 1,
                      object'[x].name = object'[y].name,
                      object'[x].name \in Parts(runtime) \cup {oc_len}
               PROVE  x = y
    BY <1>2 DEF Unique
  <2>1. x # i /\ y # i
    BY <1>5
  <2>2. PICK l \in 1 .. n : moved(l) = x
    BY <2>1, <1>4
  <2>3. PICK o \in 1 .. n : moved(o) = y
    BY <2>1, <1>4
  <2>4. object[l].name = object[o].name /\ object[l].name \in Parts(runtime) \cup {oc_len}
    BY <2>2, <2>3, <1>3
  <2>5. l = o
    BY <2>4, <1>1 DEF ObjectKept, Unique
  <2> QED BY <2>2, <2>3, <2>5
<1>8. Holds(object', kept)
  <2> SUFFICES ASSUME NEW x \in 1 .. n + 1, object'[x].name \in Parts(runtime)
               PROVE  /\ kept[object'[x].name] # Lost
                      /\ object'[x].value = IF kept[object'[x].name] = Spoilt THEN NotANumber
                                            ELSE Signed(kept[object'[x].name])
    BY <1>2 DEF Holds
  <2>1. PICK l \in 1 .. n : moved(l) = x
    BY <1>4, <1>5
  <2>2. object'[x] = object[l]
    BY <2>1, <1>3
  <2> QED BY <2>2, <1>1 DEF ObjectKept, Holds
<1>9. Others(object')
  <2> SUFFICES ASSUME NEW x \in 1 .. n + 1, object'[x].name \in OtherWords
               PROVE  object'[x].value \in Int
    BY <1>2 DEF Others
  <2>1. CASE x = i
    BY <2>1, <1>5
  <2>2. CASE x # i
    <3>1. PICK l \in 1 .. n : moved(l) = x
      BY <2>2, <1>4
    <3> QED BY <3>1, <1>1, <1>3 DEF ObjectKept, Others
  <2> QED BY <2>1, <2>2
<1>10. Complete(object', kept)
  <2> SUFFICES ASSUME NEW p \in Parts(runtime), kept[p] # Lost
               PROVE  \E x \in 1 .. n + 1 : object'[x].name = p
    BY <1>2 DEF Complete
  <2>1. PICK l \in 1 .. n : object[l].name = p
    BY <1>1 DEF ObjectKept, Complete
  <2> QED
    BY <2>1, <1>3
<1> QED
  BY <1>2, <1>6, <1>7, <1>8, <1>9, <1>10 DEF ObjectKept

LEMMA OrderIs ==
  ASSUME runtime \in {"applet", "app"}
  PROVE  LET o == Order(runtime) IN
         /\ o \in Seq(MemberNames)
         /\ \A i \in DOMAIN o : o[i] \in Parts(runtime) \cup {oc_len}
         /\ \A i, j \in DOMAIN o : o[i] = o[j] => i = j
         /\ \A p \in Parts(runtime) : \E i \in DOMAIN o : o[i] = p
<1>1. CASE runtime = "applet"
  <2>1. Order(runtime) = <<hemi_hi, hemi_lo>> /\ Parts(runtime) = {hemi_hi, hemi_lo}
    BY <1>1 DEF Order, Parts, AppletWords
  <2>2. hemi_hi \in MemberNames /\ hemi_lo \in MemberNames /\ hemi_hi # hemi_lo
    BY PersistenceAssumption DEF MemberNames, AppletWords
  <2> QED
    BY <2>1, <2>2
<1>2. CASE runtime = "app"
  <2> DEFINE b == BlobWords
             o == <<oc_len>> \o b
             n == Len(b)
  <2>1. b \in Seq(MemberNames) /\ oc_len \in MemberNames /\ n \in Nat /\ DOMAIN b = 1 .. n
    BY PersistenceAssumption DEF MemberNames
  <2>2. o \in Seq(MemberNames) /\ DOMAIN o = 1 .. n + 1
        /\ \A i \in 1 .. n + 1 : o[i] = IF i = 1 THEN oc_len ELSE b[i - 1]
    BY <2>1
  <2>3. Order(runtime) = o /\ Parts(runtime) = {b[i] : i \in 1 .. n}
    BY <1>2, <2>1 DEF Order, Parts, AppWords, Range
  <2>4. \A i \in 1 .. n : b[i] # oc_len
    BY <1>2, <2>3, PartsFacts
  <2>5. \A i, j \in 1 .. n : b[i] = b[j] => i = j
    BY <2>1, PersistenceAssumption
  <2> HIDE DEF b, o, n
  <2>6. \A i \in 2 .. n + 1 : i - 1 \in 1 .. n /\ o[i] = b[i - 1]
    BY <2>1, <2>2
  <2>7. o[1] = oc_len
    BY <2>1, <2>2
  <2>8. \A i \in 1 .. n + 1 : o[i] \in Parts(runtime) \cup {oc_len}
    BY <2>1, <2>3, <2>6, <2>7
  <2>9. \A i, j \in 1 .. n + 1 : o[i] = o[j] => i = j
    <3> SUFFICES ASSUME NEW i \in 1 .. n + 1, NEW j \in 1 .. n + 1, o[i] = o[j] PROVE i = j
      OBVIOUS
    <3>1. CASE i = 1 \/ j = 1
      BY <3>1, <2>1, <2>4, <2>6, <2>7
    <3>2. CASE i # 1 /\ j # 1
      <4>1. b[i - 1] = b[j - 1] /\ i - 1 \in 1 .. n /\ j - 1 \in 1 .. n
        BY <3>2, <2>1, <2>6
      <4> QED BY <4>1, <2>5
    <3> QED BY <3>1, <3>2
  <2>10. \A p \in Parts(runtime) : \E i \in 1 .. n + 1 : o[i] = p
    <3> SUFFICES ASSUME NEW i \in 1 .. n PROVE \E j \in 1 .. n + 1 : o[j] = b[i]
      BY <2>3
    <3>1. i + 1 \in 2 .. n + 1 /\ (i + 1) - 1 = i /\ i + 1 \in 1 .. n + 1
      BY <2>1
    <3>2. o[i + 1] = b[i]
      BY <3>1, <2>6
    <3> QED BY <3>1, <3>2
  <2> QED
    BY <2>2, <2>3, <2>8, <2>9, <2>10
<1> QED
  BY <1>1, <1>2

\* An object just saved holds all of the state.
LEMMA SavedKept ==
  ASSUME runtime \in {"applet", "app"}, state \in [Parts(runtime) -> Word]
  PROVE  Saved \in Seq(Member) /\ ObjectKept(Saved, state)
<1> DEFINE o == Order(runtime)
           n == Len(o)
           value(name) == IF name = oc_len THEN StorageBytes ELSE Signed(state[name])
<1>1. /\ o \in Seq(MemberNames)
      /\ \A i \in DOMAIN o : o[i] \in Parts(runtime) \cup {oc_len}
      /\ \A i, j \in DOMAIN o : o[i] = o[j] => i = j
      /\ \A p \in Parts(runtime) : \E i \in DOMAIN o : o[i] = p
  BY OrderIs
<1>2. n \in Nat /\ DOMAIN o = 1 .. n /\ \A i \in 1 .. n : o[i] \in MemberNames
  BY <1>1
<1>3. Saved = [i \in 1 .. n |-> [name |-> o[i], value |-> value(o[i])]]
  BY <1>2 DEF Saved
<1>4. \A p \in Parts(runtime) :
        /\ p # oc_len /\ state[p] # Lost /\ state[p] # Spoilt
        /\ value(p) = Signed(state[p]) /\ Signed(state[p]) \in Int
  BY PartsFacts, Harms, UnsignedOfSigned
<1>5. value(oc_len) = StorageBytes /\ StorageBytes \in Int
  BY PersistenceAssumption
<1> HIDE DEF o, n, value
<1>6. /\ DOMAIN Saved = 1 .. n
      /\ \A i \in 1 .. n : Saved[i] = [name |-> o[i], value |-> value(o[i])]
  BY <1>3
<1>7. \A i \in 1 .. n : Saved[i] \in Member
  <2> SUFFICES ASSUME NEW i \in 1 .. n PROVE Saved[i] \in Member
    OBVIOUS
  <2>1. o[i] \in MemberNames /\ o[i] \in Parts(runtime) \cup {oc_len}
    BY <1>1, <1>2
  <2>2. value(o[i]) \in Int
    BY <2>1, <1>4, <1>5
  <2> QED BY <2>1, <2>2, <1>6 DEF Member
<1>8. Saved \in Seq(Member)
  <2>1. Saved \in [1 .. n -> Member]
    BY <1>3, <1>6, <1>7
  <2> QED BY <2>1, <1>2
<1>9. Unique(Saved)
  BY <1>1, <1>2, <1>6 DEF Unique
<1>10. Holds(Saved, state)
  BY <1>4, <1>6 DEF Holds
<1>11. Others(Saved)
  BY <1>1, <1>2, <1>6, PartsFacts DEF Others
<1>12. Complete(Saved, state)
  BY <1>1, <1>2, <1>6 DEF Complete
<1> QED
  BY <1>8, <1>9, <1>10, <1>11, <1>12 DEF ObjectKept

-----------------------------------------------------------------------------
(***************************************************************************)
(* The steps.                                                              *)
(***************************************************************************)

LEMMA NoWordsType ==
  /\ NoWords \in [AppletWords \cup AppWords \cup OtherWords -> Int]
  /\ \A p \in AppletWords \cup AppWords : NoWords[p] = 0
BY DEF NoWords

LEMMA InitInv == Init => IInv
<1> SUFFICES ASSUME Init PROVE IInv
  OBVIOUS
<1>1. runtime \in {"applet", "app"} /\ Rested /\ object = <<>>
      /\ kept = [p \in Parts(runtime) |-> Lost] /\ ~loading
  BY DEF Init, Rested
<1>2. TypeOK
  <2>1. MaxEdits \in Nat
    BY PersistenceAssumption
  <2>2. state \in [Parts(runtime) -> Word]
    BY ZeroWord DEF Init
  <2>3. at \in 1 .. Len(object) + 1 /\ object \in Seq(Member)
    BY <1>1 DEF Rested
  <2>4. word \in [AppletWords \cup AppWords \cup OtherWords -> Int]
    BY <1>1, NoWordsType DEF Rested
  <2>5. kept \in [Parts(runtime) -> Word \cup {Lost, Spoilt}]
    BY <1>1
  <2>6. edits \in 0 .. MaxEdits /\ len \in Int
    BY <2>1 DEF Init
  <2>7. loading \in BOOLEAN /\ got \in SUBSET AppletWords
    BY DEF Init
  <2> QED
    BY <1>1, <2>2, <2>3, <2>4, <2>5, <2>6, <2>7 DEF TypeOK
<1>3. ObjectKept(object, kept)
  BY <1>1 DEF ObjectKept, Unique, Holds, Others, Complete
<1>4. ReadSoFar
  BY <1>1, NoWordsType DEF Rested, ReadSoFar, Seen, Parts
<1> QED
  BY <1>1, <1>2, <1>3, <1>4 DEF IInv

\* Nothing has been read when a load begins.
LEMMA NothingRead ==
  ASSUME runtime' \in {"applet", "app"}, Rested'
  PROVE  ReadSoFar'
BY NoWordsType DEF Rested, ReadSoFar, Seen, Parts

\* What a step between loads has to show.
LEMMA AtRest ==
  ASSUME IInv, runtime' = runtime, ~loading, UNCHANGED locals,
         state' \in [Parts(runtime) -> Word], object' \in Seq(Member),
         kept' \in Kept, edits' \in 0 .. MaxEdits, ObjectKept(object', kept')
  PROVE  IInv'
<1>1. TypeOK /\ Rested
  BY DEF IInv
<1>2. Rested' /\ ~loading'
  BY <1>1 DEF Rested, locals
<1>3. at' \in 1 .. Len(object') + 1
  <2>1. at' = 1 /\ Len(object') \in Nat
    BY <1>2 DEF Rested
  <2> QED BY <2>1
<1>4. TypeOK'
  BY <1>1, <1>3 DEF TypeOK, locals, Kept
<1>5. ReadSoFar'
  BY <1>1, <1>2, NothingRead DEF TypeOK
<1>6. ObjectKept(object, kept)'
  BY DEF ObjectKept, Unique, Holds, Others, Complete
<1> QED
  BY <1>2, <1>4, <1>5, <1>6 DEF IInv

LEMMA SaveInv ==
  ASSUME IInv, Save PROVE IInv'
<1>1. TypeOK /\ runtime' = runtime /\ ~loading /\ UNCHANGED locals /\ edits' = edits
      /\ state' = state /\ object' = Saved /\ kept' = state
  BY DEF IInv, Save
<1>2. state \in [Parts(runtime) -> Word] /\ edits \in 0 .. MaxEdits
      /\ runtime \in {"applet", "app"}
  BY <1>1 DEF TypeOK
<1>3. Saved \in Seq(Member) /\ ObjectKept(Saved, state)
  BY <1>2, SavedKept
<1>4. state \in Kept
  BY <1>2 DEF Kept
<1> QED
  BY <1>1, <1>2, <1>3, <1>4, AtRest

LEMMA ChangeInv ==
  ASSUME IInv, Change PROVE IInv'
<1>1. TypeOK /\ ObjectKept(object, kept)
  BY DEF IInv
<1>2. runtime' = runtime /\ ~loading /\ UNCHANGED locals /\ edits' = edits
      /\ state' \in [Parts(runtime) -> Word] /\ object' = object /\ kept' = kept
  BY DEF Change
<1>3. object \in Seq(Member) /\ kept \in Kept /\ edits \in 0 .. MaxEdits
  BY <1>1 DEF TypeOK, Kept
<1> QED
  BY <1>1, <1>2, <1>3, AtRest

LEMMA EditObject ==
  ASSUME IInv, Edit
  PROVE  object' \in Seq(Member) /\ kept' \in Kept /\ ObjectKept(object', kept')
<1>1. /\ object \in Seq(Member) /\ kept \in Kept /\ ObjectKept(object, kept)
      /\ runtime \in {"applet", "app"}
  BY DEF IInv, TypeOK, Kept
<1>2. ASSUME NEW i \in DOMAIN object, Lose(i)
      PROVE  object' \in Seq(Member) /\ kept' \in Kept /\ ObjectKept(object', kept')
  BY <1>1, <1>2, LoseKeeps, HarmedIs DEF Lose
<1>3. ASSUME NEW i \in DOMAIN object, NEW v \in {NotANumber, MaxBlobBytes + 1}, Spoil(i, v)
      PROVE  object' \in Seq(Member) /\ kept' \in Kept /\ ObjectKept(object', kept')
  <2>1. kept' \in Kept
    BY <1>1, <1>3, HarmedIs DEF Spoil
  <2> QED BY <2>1, <1>1, <1>3, SpoilKeeps
<1>4. ASSUME NEW i \in DOMAIN object, NEW j \in DOMAIN object, Swap(i, j)
      PROVE  object' \in Seq(Member) /\ kept' \in Kept /\ ObjectKept(object', kept')
  <2>1. kept' \in Kept
    BY <1>1, <1>4 DEF Swap
  <2> QED BY <2>1, <1>1, <1>4, SwapKeeps
<1>5. ASSUME NEW i \in 1 .. Len(object) + 1, NEW m \in Member, AddMember(i, m),
             m.name \notin Parts(runtime) \cup {oc_len},
             m.name \in OtherWords => m.value \in Int
      PROVE  object' \in Seq(Member) /\ kept' \in Kept /\ ObjectKept(object', kept')
  <2>1. kept' \in Kept
    BY <1>1, <1>5 DEF AddMember
  <2> QED BY <2>1, <1>1, <1>5, AddKeeps
<1>6. ASSUME NEW i \in 1 .. Len(object) + 1,
             AddMember(i, [name |-> Foreign, value |-> NotANumber])
      PROVE  object' \in Seq(Member) /\ kept' \in Kept /\ ObjectKept(object', kept')
  <2> DEFINE m == [name |-> Foreign, value |-> NotANumber]
  <2>1. m \in Member /\ m.name = Foreign
    BY DEF Member, MemberNames
  <2>2. Foreign \notin Parts(runtime) \cup {oc_len} /\ Foreign \notin OtherWords
    BY <1>1, PartsFacts
  <2> HIDE DEF m
  <2>3. AddMember(i, m)
    BY <1>6 DEF m
  <2> QED BY <1>5, <2>1, <2>2, <2>3
<1>7. ASSUME NEW i \in 1 .. Len(object) + 1, NEW name \in OtherWords,
             AddMember(i, [name |-> name, value |-> 1])
      PROVE  object' \in Seq(Member) /\ kept' \in Kept /\ ObjectKept(object', kept')
  <2> DEFINE m == [name |-> name, value |-> 1]
  <2>1. m \in Member /\ m.name = name /\ m.value \in Int
    BY DEF Member, MemberNames
  <2>2. name \notin Parts(runtime) \cup {oc_len}
    BY <1>1, PartsFacts
  <2> HIDE DEF m
  <2>3. AddMember(i, m)
    BY <1>7 DEF m
  <2> QED BY <1>5, <2>1, <2>2, <2>3
<1> QED
  BY <1>2, <1>3, <1>4, <1>6, <1>7 DEF Edit

LEMMA EditInv ==
  ASSUME IInv, Edit PROVE IInv'
<1>1. TypeOK
  BY DEF IInv
<1>2. runtime' = runtime /\ ~loading /\ UNCHANGED locals /\ state' = state
      /\ edits < MaxEdits /\ edits' = edits + 1
  BY DEF Edit
<1>3. state \in [Parts(runtime) -> Word] /\ edits' \in 0 .. MaxEdits
  BY <1>1, <1>2, PersistenceAssumption DEF TypeOK
<1>4. object' \in Seq(Member) /\ kept' \in Kept /\ ObjectKept(object', kept')
  BY EditObject
<1> QED
  BY <1>2, <1>3, <1>4, AtRest

LEMMA BeginInv ==
  ASSUME IInv, Begin PROVE IInv'
<1>1. TypeOK /\ ObjectKept(object, kept) /\ ReadSoFar /\ Rested
  BY DEF IInv, Begin
<1>2. at' = at
  BY <1>1 DEF Begin, Rested
<1>3. loading' = TRUE /\ UNCHANGED <<runtime, state, object, word, got, len, kept, edits>>
  BY DEF Begin
<1>4. TypeOK'
  BY <1>1, <1>2, <1>3 DEF TypeOK
<1>5. ObjectKept(object, kept)'
  BY <1>1, <1>3 DEF ObjectKept, Unique, Holds, Others, Complete
<1>6. ReadSoFar'
  BY <1>1, <1>2, <1>3 DEF ReadSoFar, Seen
<1> QED
  BY <1>3, <1>4, <1>5, <1>6 DEF IInv

LEMMA ReturnInv ==
  ASSUME IInv, Return, UNCHANGED <<runtime, object, kept, edits>>,
         state' \in [Parts(runtime) -> Word]
  PROVE  IInv'
<1>1. TypeOK /\ ObjectKept(object, kept)
  BY DEF IInv
<1>2. Rested' /\ ~loading' /\ loading' \in BOOLEAN
  BY DEF Return, Rested
<1>3. at' \in 1 .. Len(object') + 1
  <2>1. at' = 1 /\ Len(object') \in Nat
    BY <1>1, <1>2 DEF Rested, TypeOK
  <2> QED BY <2>1
<1>4. /\ word' \in [AppletWords \cup AppWords \cup OtherWords -> Int]
      /\ got' \in SUBSET AppletWords /\ len' \in Int
  BY <1>2, NoWordsType DEF Rested
<1>5. TypeOK'
  BY <1>1, <1>2, <1>3, <1>4 DEF TypeOK
<1>6. ReadSoFar'
  BY <1>1, <1>2, NothingRead DEF TypeOK
<1>7. ObjectKept(object, kept)'
  BY <1>1 DEF ObjectKept, Unique, Holds, Others, Complete
<1> QED
  BY <1>2, <1>5, <1>6, <1>7 DEF IInv

\* One more member read.
LEMMA ReadOnInv ==
  ASSUME IInv, loading, at <= Len(object), at' = at + 1, NEW m, m = object[at],
         UNCHANGED <<loading, runtime, state, object, kept, edits>>,
         \/ /\ ~Matched(m.name)
            /\ UNCHANGED <<word, got, len>>
         \/ /\ m.name \in Known(runtime) /\ m.value # NotANumber
            /\ word' = [word EXCEPT ![m.name] = m.value]
            /\ got' = IF runtime = "applet" THEN got \cup {m.name} ELSE got
            /\ len' = len
         \/ /\ m.name = oc_len /\ runtime = "app" /\ m.value # NotANumber
            /\ len' = m.value
            /\ UNCHANGED <<word, got>>
  PROVE  IInv'
<1> DEFINE n == Len(object)
           W == AppletWords \cup AppWords \cup OtherWords
<1>1. TypeOK /\ ObjectKept(object, kept) /\ ReadSoFar
  BY DEF IInv
<1>2. /\ runtime \in {"applet", "app"} /\ n \in Nat /\ DOMAIN object = 1 .. n
      /\ at \in 1 .. n /\ m \in Member /\ word \in [W -> Int]
      /\ got \in SUBSET AppletWords /\ len \in Int
  BY <1>1 DEF TypeOK
<1>3. m.name \in MemberNames /\ (m.value # NotANumber => m.value \in Int)
  BY <1>2 DEF Member
<1>4. \A i \in 1 .. at - 1 : i \in DOMAIN object /\ i # at
  BY <1>2
<1>5. \A i \in 1 .. at - 1 :
        object[i].name = m.name => m.name \notin Parts(runtime) \cup {oc_len}
  BY <1>1, <1>2, <1>4 DEF ObjectKept, Unique
<1>6. Known(runtime) \subseteq W /\ Parts(runtime) \subseteq W
      /\ Parts(runtime) \subseteq Known(runtime)
      /\ (runtime = "applet" => Known(runtime) = AppletWords)
  BY <1>2 DEF Known, Parts
<1>7. oc_len \notin Known(runtime)
  BY <1>2, PartsFacts
<1>8. 1 .. at' - 1 = (1 .. at - 1) \cup {at}
  BY <1>2
<1>9. Seen' = Seen \cup {m.name}
  BY <1>8 DEF Seen
<1>10. at' \in 1 .. Len(object') + 1
  BY <1>2
<1> HIDE DEF n, W
<1>11. word' \in [W -> Int]
  BY <1>2, <1>3, <1>6
<1>12. got' \in SUBSET AppletWords
  BY <1>2, <1>6
<1>13. len' \in Int
  BY <1>2, <1>3
<1>14. TypeOK'
  BY <1>1, <1>10, <1>11, <1>12, <1>13 DEF TypeOK, W
<1>15. ObjectKept(object, kept)'
  BY <1>1 DEF ObjectKept, Unique, Holds, Others, Complete
<1>16. \A p \in Parts(runtime) :
         word'[p] = IF p = m.name THEN m.value ELSE word[p]
  <2> SUFFICES ASSUME NEW p \in Parts(runtime)
               PROVE  word'[p] = IF p = m.name THEN m.value ELSE word[p]
    OBVIOUS
  <2>1. CASE m.name \in Known(runtime) /\ word' = [word EXCEPT ![m.name] = m.value]
    BY <2>1, <1>2, <1>6
  <2>2. CASE m.name \notin Known(runtime) /\ word' = word
    BY <2>2, <1>6
  <2> QED
    BY <2>1, <2>2, <1>7 DEF Matched
<1>17. m.name \in Parts(runtime) => m.value \in Int
  BY <1>3, <1>6, <1>7 DEF Matched
<1>18. runtime = "app" /\ m.name = oc_len => len' = m.value
  BY <1>7 DEF Matched
<1>19. m.name # oc_len => len' = len
  OBVIOUS
<1>20. runtime = "applet" => got' = (Seen \cup {m.name}) \cap AppletWords
  <2> SUFFICES ASSUME runtime = "applet"
               PROVE  got' = (Seen \cup {m.name}) \cap AppletWords
    OBVIOUS
  <2>1. got = Seen \cap AppletWords
    BY <1>1 DEF ReadSoFar
  <2>2. CASE m.name \in Known(runtime)
    BY <2>1, <2>2, <1>6, <1>7 DEF Matched
  <2>3. CASE m.name \notin Known(runtime)
    BY <2>1, <2>3, <1>6
  <2> QED BY <2>2, <2>3
<1>21. ASSUME NEW i \in 1 .. at' - 1
       PROVE  /\ object'[i].name \in Parts(runtime') =>
                   object'[i].value \in Int /\ word'[object'[i].name] = object'[i].value
              /\ runtime' = "app" /\ object'[i].name = oc_len => len' = object'[i].value
  <2>1. CASE i = at
    BY <2>1, <1>16, <1>17, <1>18
  <2>2. CASE i \in 1 .. at - 1
    <3>1. /\ object[i].name \in Parts(runtime) =>
               object[i].value \in Int /\ word[object[i].name] = object[i].value
          /\ runtime = "app" /\ object[i].name = oc_len => len = object[i].value
      BY <2>2, <1>1 DEF ReadSoFar
    <3>2. object[i].name \in Parts(runtime) \cup {oc_len} => object[i].name # m.name
      BY <2>2, <1>5
    <3> QED
      BY <3>1, <3>2, <1>16, <1>19
  <2> QED BY <2>1, <2>2, <1>8
<1>22. \A p \in Parts(runtime) : p \notin Seen' => word'[p] = 0
  BY <1>1, <1>9, <1>16 DEF ReadSoFar
<1>23. ReadSoFar'
  BY <1>9, <1>20, <1>21, <1>22 DEF ReadSoFar
<1> QED
  BY <1>14, <1>15, <1>23 DEF IInv

LEMMA ReadMemberInv ==
  ASSUME IInv, ReadMember PROVE IInv'
<1> DEFINE m == object[at]
<1>1. TypeOK /\ loading /\ at <= Len(object)
      /\ UNCHANGED <<runtime, state, object, kept, edits>>
  BY DEF IInv, ReadMember
<1>2. oc_len \notin Known(runtime)
  BY <1>1, PartsFacts DEF TypeOK
<1>3. CASE ~Matched(m.name)
  <2>1. at' = at + 1 /\ UNCHANGED <<loading, word, got, len>>
    BY <1>3 DEF ReadMember, Matched
  <2> HIDE DEF m
  <2> QED BY <1>1, <1>3, <2>1, ReadOnInv DEF m
<1>4. CASE Matched(m.name) /\ m.value = NotANumber
  <2>1. Return
    BY <1>4 DEF ReadMember
  <2>2. state' \in [Parts(runtime) -> Word]
    BY <1>1 DEF TypeOK
  <2> QED BY <1>1, <2>1, <2>2, ReturnInv
<1>5. CASE m.name \in Known(runtime) /\ m.value # NotANumber
  <2>1. /\ at' = at + 1 /\ word' = [word EXCEPT ![m.name] = m.value]
        /\ got' = IF runtime = "applet" THEN got \cup {m.name} ELSE got
        /\ UNCHANGED <<loading, len>>
    BY <1>2, <1>5 DEF ReadMember, Matched
  <2> HIDE DEF m
  <2> QED BY <1>1, <1>5, <2>1, ReadOnInv DEF m
<1>6. CASE m.name = oc_len /\ runtime = "app" /\ m.value # NotANumber
  <2>1. at' = at + 1 /\ len' = m.value /\ UNCHANGED <<loading, word, got>>
    BY <1>2, <1>6 DEF ReadMember, Matched
  <2> HIDE DEF m
  <2> QED BY <1>1, <1>6, <2>1, ReadOnInv DEF m
<1> QED
  BY <1>3, <1>4, <1>5, <1>6 DEF Matched

\* A load that read every member has every part that is left of the state.
LEMMA AllRead ==
  ASSUME IInv, loading, at > Len(object)
  PROVE  /\ Seen = {object[i].name : i \in DOMAIN object}
         /\ \A p \in Parts(runtime) :
              IF p \in Seen
              THEN kept[p] \in Word /\ word[p] = Signed(kept[p])
              ELSE kept[p] = Lost /\ word[p] = 0
<1>1. /\ object \in Seq(Member) /\ kept \in Kept /\ at \in 1 .. Len(object) + 1
      /\ ObjectKept(object, kept) /\ ReadSoFar
  BY DEF IInv, TypeOK, Kept
<1>2. 1 .. at - 1 = DOMAIN object
  BY <1>1
<1>3. Seen = {object[i].name : i \in DOMAIN object}
  BY <1>2 DEF Seen
<1>4. ASSUME NEW p \in Parts(runtime), p \in Seen
      PROVE  kept[p] \in Word /\ word[p] = Signed(kept[p])
  <2>1. PICK i \in DOMAIN object : object[i].name = p
    BY <1>3, <1>4
  <2>2. object[i].value \in Int /\ word[p] = object[i].value
    BY <1>1, <1>2, <2>1 DEF ReadSoFar
  <2>3. kept[p] # Lost /\ object[i].value = IF kept[p] = Spoilt THEN NotANumber
                                            ELSE Signed(kept[p])
    BY <1>1, <2>1 DEF ObjectKept, Holds
  <2>4. NotANumber \notin Int
    BY PersistenceAssumption
  <2> QED
    BY <1>1, <2>2, <2>3, <2>4 DEF Kept
<1>5. ASSUME NEW p \in Parts(runtime), p \notin Seen
      PROVE  kept[p] = Lost /\ word[p] = 0
  BY <1>1, <1>3, <1>5 DEF ObjectKept, Complete, ReadSoFar
<1> QED
  BY <1>3, <1>4, <1>5

\* What Finish restores is what is kept, 0 for what is lost, which an applet
\* does not accept.
LEMMA FinishRestores ==
  ASSUME IInv, loading, at > Len(object)
  PROVE  /\ Restored \in [Parts(runtime) -> Word]
         /\ Restored = [p \in Parts(runtime) |-> IF kept[p] = Lost THEN 0 ELSE kept[p]]
         /\ \A p \in Parts(runtime) : kept[p] # Spoilt
         /\ Accepts => \A p \in Parts(runtime) : kept[p] = Lost => runtime = "app"
<1>1. ASSUME NEW p \in Parts(runtime)
      PROVE  /\ kept[p] # Spoilt
             /\ Unsigned(word[p]) = IF kept[p] = Lost THEN 0 ELSE kept[p]
             /\ Unsigned(word[p]) \in Word
             /\ p \in Seen => kept[p] # Lost
  <2>1. CASE p \in Seen
    <3>1. kept[p] \in Word /\ word[p] = Signed(kept[p])
      BY <2>1, AllRead
    <3> QED BY <3>1, UnsignedOfSigned, Harms
  <2>2. CASE p \notin Seen
    <3>1. kept[p] = Lost /\ word[p] = 0
      BY <2>2, AllRead
    <3> QED BY <3>1, <2>2, ZeroWord, Harms
  <2> QED BY <2>1, <2>2
<1>2. Accepts => \A p \in Parts(runtime) : kept[p] = Lost => runtime = "app"
  <2> SUFFICES ASSUME Accepts, NEW p \in Parts(runtime), kept[p] = Lost, runtime # "app"
               PROVE  FALSE
    OBVIOUS
  <2>1. runtime = "applet" /\ ReadSoFar
    BY DEF IInv, TypeOK
  <2>2. got = AppletWords /\ got = Seen \cap AppletWords
    BY <2>1 DEF Accepts, ReadSoFar
  <2>3. p \in Seen
    BY <2>1, <2>2 DEF Parts
  <2> QED BY <2>3, <1>1
<1> QED
  BY <1>1, <1>2 DEF Restored

LEMMA FinishInv ==
  ASSUME IInv, Finish PROVE IInv'
<1>1. TypeOK /\ Return /\ UNCHANGED <<runtime, object, kept, edits>>
      /\ state' = IF Accepts THEN Restored ELSE state
  BY DEF IInv, Finish
<1>2. Restored \in [Parts(runtime) -> Word]
  BY FinishRestores DEF Finish
<1>3. state' \in [Parts(runtime) -> Word]
  BY <1>1, <1>2 DEF TypeOK
<1> QED
  BY <1>1, <1>3, ReturnInv

LEMMA NextInv ==
  ASSUME IInv, [Next]_vars PROVE IInv'
<1>1. CASE UNCHANGED vars
  BY <1>1 DEF vars, locals, IInv, TypeOK, ObjectKept, Unique, Holds, Others, Complete,
              ReadSoFar, Seen, Rested
<1> QED
  BY <1>1, SaveInv, ChangeInv, EditInv, BeginInv, ReadMemberInv, FinishInv DEF Next

THEOREM Invariance == Spec => []IInv
BY InitInv, NextInv, PTL DEF Spec

\* Types of a save and of a load, for any words, blobs and edits.
THEOREM TypeCorrect == Spec => []TypeOK
<1>1. IInv => TypeOK
  BY DEF IInv
<1> QED
  BY <1>1, Invariance, PTL

-----------------------------------------------------------------------------
(***************************************************************************)
(* The refinement.                                                         *)
(***************************************************************************)

LEMMA PromiseInit == Init => Promise!Init
<1> SUFFICES ASSUME Init PROVE Promise!Init
  OBVIOUS
<1>1. state = [p \in Parts(runtime) |-> 0] /\ DOMAIN state = Parts(runtime)
  BY DEF Init
<1>2. state \in [DOMAIN state -> Word]
  BY <1>1, ZeroWord
<1>3. kept = [p \in DOMAIN state |-> Lost]
  BY <1>1 DEF Init
<1>4. (runtime = "app") \in BOOLEAN /\ loading = FALSE
  BY DEF Init
<1> QED
  BY <1>2, <1>3, <1>4 DEF Promise!Init, Promise!Parts, Promise!Lost, Lost

\* An edit takes a part away, spoils it, or is none that a load could see.
LEMMA EditDamages ==
  ASSUME IInv, Edit
  PROVE  Promise!Damage \/ UNCHANGED Promise!vars
<1>1. TypeOK /\ UNCHANGED <<runtime, state, loading>> /\ ~loading
  BY DEF IInv, Edit, locals
<1>2. DOMAIN state = Parts(runtime)
  BY <1>1 DEF TypeOK
<1>3. ASSUME NEW name, NEW harm \in {Lost, Spoilt}, kept' = Harmed(name, harm)
      PROVE  Promise!Damage \/ UNCHANGED Promise!vars
  <2>1. CASE name \in Parts(runtime)
    <3>1. kept' = [kept EXCEPT ![name] = harm]
      BY <1>3, <2>1 DEF Harmed
    <3> QED
      BY <3>1, <2>1, <1>1, <1>2
      DEF Promise!Damage, Promise!Parts, Promise!Lost, Promise!Spoilt, Lost, Spoilt
  <2>2. CASE name \notin Parts(runtime)
    BY <2>2, <1>1, <1>3 DEF Harmed, Promise!vars
  <2> QED BY <2>1, <2>2
<1>4. CASE kept' = kept
  BY <1>1, <1>4 DEF Promise!vars
<1> QED
  BY <1>3, <1>4 DEF Edit, Lose, Spoil, Swap, AddMember

LEMMA ReadMemberRefuses ==
  ASSUME IInv, ReadMember
  PROVE  Promise!Refuse \/ UNCHANGED Promise!vars
<1>1. loading \in BOOLEAN /\ loading /\ UNCHANGED <<runtime, state, kept>>
  BY DEF IInv, TypeOK, ReadMember
<1>2. loading' = FALSE \/ loading' = loading
  <2>1. Matched(object[at].name) =>
          \/ object[at].name \in Known(runtime)
          \/ object[at].name = oc_len /\ runtime = "app"
    BY DEF Matched
  <2> QED
    BY <2>1, PartsFacts DEF ReadMember, Return, IInv, TypeOK
<1> QED
  BY <1>1, <1>2 DEF Promise!Refuse, Promise!vars

LEMMA FinishLoads ==
  ASSUME IInv, Finish
  PROVE  Promise!Restore \/ Promise!Refuse
<1>1. TypeOK /\ loading /\ at > Len(object) /\ UNCHANGED <<runtime, kept>>
      /\ loading' = FALSE /\ state' = IF Accepts THEN Restored ELSE state
  BY DEF IInv, Finish, Return
<1>2. DOMAIN state = Parts(runtime)
  BY <1>1 DEF TypeOK
<1>3. CASE Accepts
  <2>1. /\ \A p \in DOMAIN state : kept[p] # Spoilt /\ (kept[p] = Lost => runtime = "app")
        /\ state' = [p \in DOMAIN state |-> IF kept[p] = Lost THEN 0 ELSE kept[p]]
    BY <1>1, <1>2, <1>3, FinishRestores
  <2> QED
    BY <2>1, <1>1 DEF Promise!Restore, Promise!Parts, Promise!Lost, Promise!Spoilt, Lost, Spoilt
<1>4. CASE ~Accepts
  BY <1>1, <1>4 DEF Promise!Refuse
<1> QED
  BY <1>3, <1>4

LEMMA PromiseNext == IInv /\ [Next]_vars => [Promise!Next]_(Promise!vars)
<1> SUFFICES ASSUME IInv, [Next]_vars PROVE Promise!Next \/ UNCHANGED Promise!vars
  OBVIOUS
<1>1. TypeOK /\ DOMAIN state = Parts(runtime)
  BY DEF IInv, TypeOK
<1>2. CASE Save
  BY <1>2, <1>1 DEF Save, locals, Promise!Next, Promise!Save
<1>3. CASE Change
  BY <1>3, <1>1 DEF Change, locals, Promise!Next, Promise!Change, Promise!Parts
<1>4. CASE Edit
  BY <1>4, EditDamages DEF Promise!Next
<1>5. CASE Begin
  BY <1>5 DEF Begin, Promise!Next, Promise!Load
<1>6. CASE ReadMember
  BY <1>6, ReadMemberRefuses DEF Promise!Next
<1>7. CASE Finish
  BY <1>7, FinishLoads DEF Promise!Next
<1>8. CASE UNCHANGED vars
  BY <1>8 DEF vars, locals, Promise!vars
<1> QED
  BY <1>2, <1>3, <1>4, <1>5, <1>6, <1>7, <1>8 DEF Next

\* Saving and loading keep the promise of SavedState: a load that is not refused
\* brings back, as last saved, each part the object still has, and none of them is
\* spoilt; lost words of an app are then 0, and with a lost half an applet's load
\* is refused. A refused load leaves the state as it was.
THEOREM KeepsPromise == Spec => LoadsWhatIsKept
<1>1. Spec => Promise!Init /\ [][Promise!Next]_(Promise!vars)
  BY PromiseInit, PromiseNext, Invariance, PTL DEF Spec
<1> QED
  BY <1>1 DEF LoadsWhatIsKept, Promise!Spec

LEMMA AppletStep ==
  ASSUME IInv, [Next]_vars, loading, ~loading', runtime = "applet"
  PROVE  state' \in {state, kept}
<1>1. CASE ReadMember
  BY <1>1 DEF ReadMember
<1>2. CASE Finish
  <2>1. CASE Accepts
    <3>1. state' = Restored /\ at > Len(object)
      BY <1>2, <2>1 DEF Finish
    <3>2. Restored = [p \in Parts(runtime) |-> kept[p]]
      BY <3>1, <2>1, FinishRestores
    <3>3. kept = [p \in Parts(runtime) |-> kept[p]]
      BY DEF IInv, TypeOK
    <3> QED BY <3>1, <3>2, <3>3
  <2>2. CASE ~Accepts
    BY <1>2, <2>2 DEF Finish
  <2> QED BY <2>1, <2>2
<1> QED
  BY <1>1, <1>2 DEF Next, vars, locals, Save, Change, Edit, Begin

\* An applet is never given a mixture: after a load its state is the one that was
\* saved, with both halves, or the one from before the load (read_data_receive
\* calls OnDataReceive only with got_hi and got_lo).
THEOREM AppletsWholeOrUntouched == Spec => AppletAllOrNothing
<1>1. IInv /\ [Next]_vars =>
        [loading /\ ~loading' /\ runtime = "applet" => state' \in {state, kept}]_vars
  BY AppletStep
<1> QED
  BY <1>1, Invariance, PTL DEF Spec, AppletAllOrNothing

-----------------------------------------------------------------------------
\* A load that finds every part as it was saved, and the length of the blob,
\* restores the state: it meets nothing it would return at.
LEMMA WholeStep ==
  ASSUME IInv, [Next]_vars, loading, ~loading',
         \A p \in Parts(runtime) : kept[p] \in Word,
         runtime = "app" => [name |-> oc_len, value |-> StorageBytes] \in Range(object)
  PROVE  state' = kept
<1>1. /\ TypeOK /\ object \in Seq(Member) /\ kept \in Kept /\ ObjectKept(object, kept)
      /\ runtime \in {"applet", "app"} /\ ReadSoFar /\ at \in 1 .. Len(object) + 1
  BY DEF IInv, TypeOK, Kept
<1>2. NotANumber \notin Int /\ StorageBytes \in Nat /\ StorageBytes <= MaxBlobBytes
      /\ MaxBlobBytes \in Nat
  BY PersistenceAssumption
<1>3. ASSUME NEW i \in DOMAIN object, runtime = "app", object[i].name = oc_len
      PROVE  object[i].value = StorageBytes
  <2>1. PICK j \in DOMAIN object : object[j] = [name |-> oc_len, value |-> StorageBytes]
    BY <1>3 DEF Range
  <2>2. i = j
    BY <2>1, <1>1, <1>3 DEF ObjectKept, Unique
  <2> QED BY <2>1, <2>2
<1>4. ASSUME NEW i \in DOMAIN object, Matched(object[i].name)
      PROVE  object[i].value # NotANumber
  <2>1. CASE object[i].name \in Parts(runtime)
    <3>1. object[i].value = Signed(kept[object[i].name])
      BY <2>1, <1>1, Harms DEF ObjectKept, Holds
    <3> QED BY <3>1, <2>1, <1>2, UnsignedOfSigned
  <2>2. CASE object[i].name \in OtherWords
    BY <2>2, <1>1, <1>2 DEF ObjectKept, Others
  <2>3. CASE runtime = "app" /\ object[i].name = oc_len
    BY <2>3, <1>2, <1>3
  <2> QED
    BY <1>1, <1>4, <2>1, <2>2, <2>3, PartsFacts DEF Matched
<1>5. ~ReadMember
  <2> SUFFICES ASSUME ReadMember PROVE FALSE
    OBVIOUS
  <2>1. at \in DOMAIN object
    BY <1>1 DEF ReadMember
  <2>2. object[at].value # NotANumber \/ ~Matched(object[at].name)
    BY <1>4, <2>1
  <2>3. oc_len \notin Known(runtime)
    BY <1>1, PartsFacts
  <2>4. loading' = loading
    BY <2>2, <2>3 DEF ReadMember, Matched
  <2> QED BY <2>4
<1>6. Finish
  BY <1>5 DEF Next, vars, locals, Save, Change, Edit, Begin
<1>7. at > Len(object) /\ state' = IF Accepts THEN Restored ELSE state
  BY <1>6 DEF Finish
<1>8. Restored = kept
  <2>1. Restored = [p \in Parts(runtime) |-> kept[p]]
    BY <1>7, FinishRestores, Harms
  <2> QED BY <2>1, <1>1 DEF Kept
<1>9. Accepts
  <2>1. CASE runtime = "applet"
    <3>1. got = Seen \cap AppletWords
      BY <1>1, <2>1 DEF ReadSoFar
    <3>2. \A p \in AppletWords : p \in Seen
      BY <1>7, <2>1, AllRead, Harms DEF Parts
    <3> QED BY <3>1, <3>2, <2>1 DEF Accepts
  <2>2. CASE runtime = "app"
    <3>1. PICK i \in DOMAIN object : object[i].name = oc_len
      BY <2>2 DEF Range
    <3>2. i \in 1 .. at - 1
      BY <1>1, <1>7
    <3>3. len = StorageBytes
      BY <3>1, <3>2, <1>1, <1>3, <2>2 DEF ReadSoFar
    <3> QED BY <3>3, <1>2, <2>2 DEF Accepts
  <2> QED BY <2>1, <2>2, <1>1
<1> QED
  BY <1>7, <1>8, <1>9

\* An object with all its members is never refused, in whatever order they
\* come and whatever is between them.
THEOREM RestoresWhole == Spec => WholeRestored
<1> DEFINE Whole == /\ loading /\ ~loading'
                    /\ \A p \in Parts(runtime) : kept[p] \in Word
                    /\ runtime = "app" =>
                         [name |-> oc_len, value |-> StorageBytes] \in Range(object)
<1>1. IInv /\ [Next]_vars => [Whole => state' = kept]_vars
  BY WholeStep
<1>2. Spec => [][Whole => state' = kept]_vars
  BY <1>1, Invariance, PTL DEF Spec
<1> QED
  BY <1>2 DEF WholeRestored

-----------------------------------------------------------------------------
(***************************************************************************)
(* The reader that a load goes through. A stack of frames is a position in *)
(* the document: the next value of a frame is what comes after all that is *)
(* in the frame above it, and only the last frame may have no next value.  *)
(***************************************************************************)

BelowIn(d, p) == {q \in p + 1 .. Len(d) : \A r \in p + 1 .. q : d[r].depth > d[p].depth}
HeldIn(d, p) == {q \in BelowIn(d, p) : d[q].depth = d[p].depth + 1}
AfterIn(d, p) == p + 1 + Cardinality(BelowIn(d, p))

\* Of a document, its depths.
Nested(d) ==
  /\ d \in Seq(Item) /\ d # <<>>
  /\ d[1].depth = 0
  /\ \A p \in DOMAIN d : p > 1 => d[p].depth \in 1 .. d[p - 1].depth + 1

\* The least of some numbers, found by the well-founded inclusion of what is
\* up to each.
LEMMA LeastExists ==
  ASSUME NEW n \in Nat, NEW S \in SUBSET (1 .. n), S # {}
  PROVE  \E x \in S : \A y \in S : x <= y
<1> DEFINE Upto(k) == S \cap (1 .. k)
           Initials == {Upto(k) : k \in S}
<1>1. IsFiniteSet(S)
  <2>1. IsFiniteSet(1 .. n)
    BY FS_Interval
  <2> QED
    BY <2>1, FS_Subset
<1>2. \A k \in S : Upto(k) \in FiniteSubsetsOf(S)
  BY <1>1, FS_Subset DEF FiniteSubsetsOf
<1>3. PICK B \in Initials : \A C \in Initials : ~ (<<C, B>> \in StrictSubsetOrdering(S))
  <2>1. Initials \subseteq FiniteSubsetsOf(S) /\ Initials # {}
    BY <1>2
  <2> HIDE DEF Initials
  <2> QED
    BY <2>1, FS_StrictSubsetOrderingWellFounded, WFMin
<1>4. PICK x \in S : B = Upto(x)
  OBVIOUS
<1>5. ASSUME NEW y \in S, y < x PROVE FALSE
  <2>1. Upto(y) \subseteq Upto(x) /\ x \in Upto(x) /\ x \notin Upto(y)
    BY <1>5
  <2>2. Upto(y) \in SUBSET S /\ Upto(x) \in SUBSET S
    OBVIOUS
  <2> HIDE DEF Upto
  <2>3. <<Upto(y), Upto(x)>> \in StrictSubsetOrdering(S)
    BY <2>1, <2>2 DEF StrictSubsetOrdering
  <2> QED
    BY <1>3, <1>4, <2>3
<1> QED
  BY <1>5

LEMMA NestedDepths ==
  ASSUME NEW d, Nested(d)
  PROVE  /\ Len(d) \in Nat \ {0} /\ DOMAIN d = 1 .. Len(d)
         /\ \A p \in 1 .. Len(d) : d[p].depth \in Nat
         /\ d[1].depth = 0
         /\ \A p \in 2 .. Len(d) : d[p].depth >= 1 /\ d[p].depth <= d[p - 1].depth + 1
<1>1. Len(d) \in Nat \ {0} /\ DOMAIN d = 1 .. Len(d) /\ \A p \in 1 .. Len(d) : d[p] \in Item
  BY EmptySeq, LenProperties DEF Nested
<1>2. \A p \in 1 .. Len(d) : d[p].depth \in Nat
  BY <1>1 DEF Item
<1>3. \A p \in 2 .. Len(d) : d[p].depth >= 1 /\ d[p].depth <= d[p - 1].depth + 1
  <2> TAKE p \in 2 .. Len(d)
  <2>1. d[p].depth \in 1 .. d[p - 1].depth + 1 /\ p - 1 \in 1 .. Len(d)
    BY <1>1 DEF Nested
  <2> QED
    BY <1>2, <2>1
<1> QED
  BY <1>1, <1>2, <1>3 DEF Nested

\* What is below a value is what follows it, up to the first value that is no
\* deeper.
LEMMA Span ==
  ASSUME NEW d, Nested(d), NEW p \in 1 .. Len(d)
  PROVE  /\ AfterIn(d, p) \in p + 1 .. Len(d) + 1
         /\ BelowIn(d, p) = p + 1 .. AfterIn(d, p) - 1
         /\ AfterIn(d, p) <= Len(d) => d[AfterIn(d, p)].depth <= d[p].depth
         /\ \A q \in p + 1 .. AfterIn(d, p) - 1 : d[q].depth > d[p].depth
<1> DEFINE n == Len(d)
           S == {q \in 1 .. n + 1 : q > p /\ (q = n + 1 \/ d[q].depth <= d[p].depth)}
<1>1. n \in Nat /\ \A q \in 1 .. n : d[q].depth \in Nat
  BY NestedDepths
<1>2. S \in SUBSET (1 .. n + 1) /\ n + 1 \in S /\ n + 1 \in Nat
  BY <1>1
<1> HIDE DEF n
<1>3. PICK m \in S : \A y \in S : m <= y
  <2> HIDE DEF S
  <2> QED
    BY <1>2, LeastExists
<1>4. m \in p + 1 .. n + 1 /\ p \in 1 .. n
  BY <1>1 DEF n
<1>5. \A q \in p + 1 .. m - 1 : d[q].depth > d[p].depth
  <2> SUFFICES ASSUME NEW q \in p + 1 .. m - 1, ~ (d[q].depth > d[p].depth) PROVE FALSE
    OBVIOUS
  <2>1. q \in 1 .. n /\ q > p /\ q < m
    BY <1>1, <1>4
  <2>2. d[q].depth <= d[p].depth
    BY <1>1, <1>4, <2>1
  <2>3. q \in S
    BY <1>1, <2>1, <2>2
  <2> QED
    BY <1>3, <1>4, <2>1, <2>3
<1>6. m <= n => d[m].depth <= d[p].depth
  BY <1>1, <1>4
<1>7. BelowIn(d, p) = p + 1 .. m - 1
  <2>1. ASSUME NEW q \in BelowIn(d, p) PROVE q \in p + 1 .. m - 1
    <3>1. q \in p + 1 .. n /\ \A r \in p + 1 .. q : d[r].depth > d[p].depth
      BY DEF BelowIn, n
    <3>2. CASE m <= q
      <4>1. m \in p + 1 .. q /\ m <= n /\ m \in 1 .. n
        BY <1>1, <1>4, <3>1, <3>2
      <4>2. d[m].depth > d[p].depth /\ d[m].depth <= d[p].depth
        BY <1>6, <3>1, <4>1
      <4> QED
        BY <1>1, <1>4, <4>1, <4>2
    <3> QED
      BY <1>1, <1>4, <3>1, <3>2
  <2>2. ASSUME NEW q \in p + 1 .. m - 1 PROVE q \in BelowIn(d, p)
    <3>1. q \in p + 1 .. Len(d)
      BY <1>1, <1>4 DEF n
    <3>2. \A r \in p + 1 .. q : r \in p + 1 .. m - 1
      BY <1>1, <1>4
    <3> QED
      BY <1>5, <3>1, <3>2 DEF BelowIn
  <2> QED
    BY <2>1, <2>2
<1>8. Cardinality(p + 1 .. m - 1) = m - 1 - p
  BY <1>1, <1>4, FS_Interval
<1>9. AfterIn(d, p) = m
  BY <1>1, <1>4, <1>7, <1>8 DEF AfterIn
<1> QED
  BY <1>4, <1>5, <1>6, <1>7, <1>9 DEF n

\* Everything is below the root.
LEMMA RootSpans ==
  ASSUME NEW d, Nested(d)
  PROVE  AfterIn(d, 1) = Len(d) + 1
<1>1. 1 \in 1 .. Len(d) /\ Len(d) \in Nat
  BY NestedDepths
<1>2. AfterIn(d, 1) \in 2 .. Len(d) + 1 /\ (AfterIn(d, 1) <= Len(d) => d[AfterIn(d, 1)].depth <= d[1].depth)
  BY <1>1, Span
<1>3. AfterIn(d, 1) <= Len(d) => AfterIn(d, 1) \in 2 .. Len(d)
  BY <1>1, <1>2
<1>4. ~ (AfterIn(d, 1) <= Len(d))
  BY <1>2, <1>3, NestedDepths
<1> QED
  BY <1>1, <1>2, <1>4

\* The children of a value in their order: the first comes right after it, each
\* next one after all that is below the one before, and after the last comes
\* what comes after the value itself.
LEMMA ChildrenFollow ==
  ASSUME NEW d, Nested(d), NEW p \in 1 .. Len(d),
         NEW c \in Seq(Nat), Enumerates(c, HeldIn(d, p))
  PROVE  /\ \A i \in 1 .. Len(c) : c[i] \in p + 1 .. Len(d)
         /\ Len(c) = 0 => AfterIn(d, p) = p + 1
         /\ Len(c) > 0 => c[1] = p + 1 /\ AfterIn(d, c[Len(c)]) = AfterIn(d, p)
         /\ \A i \in 1 .. Len(c) - 1 : AfterIn(d, c[i]) = c[i + 1]
         /\ Cardinality(HeldIn(d, p)) = Len(c)
<1> DEFINE n == Len(d)
           m == AfterIn(d, p)
           H == HeldIn(d, p)
<1>1. /\ n \in Nat \ {0} /\ \A q \in 1 .. n : d[q].depth \in Nat
      /\ \A q \in 2 .. n : d[q].depth <= d[q - 1].depth + 1
  BY NestedDepths
<1>2. /\ m \in p + 1 .. n + 1 /\ BelowIn(d, p) = p + 1 .. m - 1
      /\ m <= n => d[m].depth <= d[p].depth
      /\ \A q \in p + 1 .. m - 1 : d[q].depth > d[p].depth
  BY Span
<1>3. /\ Len(c) \in Nat /\ DOMAIN c = 1 .. Len(c) /\ \A i \in 1 .. Len(c) : c[i] \in Nat
      /\ \A i \in 1 .. Len(c) : c[i] \in H
      /\ \A x \in H : \E i \in 1 .. Len(c) : c[i] = x
      /\ \A i, j \in 1 .. Len(c) : i < j => c[i] < c[j]
  BY LenProperties DEF Enumerates
<1>4. p \in 1 .. n /\ p \in Nat
  BY <1>1 DEF n
<1>5. \A q : q \in H <=> q \in p + 1 .. m - 1 /\ d[q].depth = d[p].depth + 1
  BY <1>2 DEF HeldIn
<1> HIDE DEF n, m, H
<1>6. \A i \in 1 .. Len(c) : c[i] \in p + 1 .. m - 1 /\ d[c[i]].depth = d[p].depth + 1
  BY <1>3, <1>5
<1>7. \A i \in 1 .. Len(c) : c[i] \in p + 1 .. n /\ c[i] \in 1 .. n
  BY <1>1, <1>2, <1>4, <1>6
<1>8. m > p + 1 => p + 1 \in H
  <2> SUFFICES ASSUME m > p + 1 PROVE p + 1 \in H
    OBVIOUS
  <2>1. p + 1 \in p + 1 .. m - 1 /\ p + 1 \in 2 .. n /\ p + 1 \in 1 .. n /\ (p + 1) - 1 = p
    BY <1>1, <1>2, <1>4
  <2>2. d[p + 1].depth > d[p].depth
    BY <1>2, <2>1
  <2>3. d[p + 1].depth <= d[p].depth + 1
    BY <1>1, <2>1
  <2>4. d[p + 1].depth \in Nat /\ d[p].depth \in Nat
    BY <1>1, <1>4, <2>1
  <2> QED
    BY <1>5, <2>1, <2>2, <2>3, <2>4
<1>9. Len(c) = 0 => m = p + 1
  BY <1>1, <1>2, <1>3, <1>4, <1>8
<1>10. Len(c) > 0 => c[1] = p + 1
  <2> SUFFICES ASSUME Len(c) > 0 PROVE c[1] = p + 1
    OBVIOUS
  <2>1. 1 \in 1 .. Len(c)
    BY <1>3
  <2>2. c[1] \in p + 1 .. m - 1
    BY <1>6, <2>1
  <2>3. PICK i \in 1 .. Len(c) : c[i] = p + 1
    BY <1>1, <1>2, <1>3, <1>4, <1>8, <2>2
  <2>4. ~ (1 < i)
    BY <1>3, <1>4, <2>1, <2>2, <2>3
  <2> QED
    BY <1>3, <2>3, <2>4
<1>11. ASSUME NEW i \in 1 .. Len(c)
       PROVE  /\ i < Len(c) => AfterIn(d, c[i]) = c[i + 1]
              /\ i = Len(c) => AfterIn(d, c[i]) = m
  <2> DEFINE q == c[i]
             e == AfterIn(d, q)
  <2>1. /\ q \in p + 1 .. m - 1 /\ q \in 1 .. n /\ d[q].depth = d[p].depth + 1
    BY <1>6, <1>7
  <2>2. /\ e \in q + 1 .. n + 1
        /\ e <= n => d[e].depth <= d[q].depth
        /\ \A r \in q + 1 .. e - 1 : d[r].depth > d[q].depth
    BY <2>1, Span DEF n
  <2> HIDE DEF e
  <2>3. e <= m
    <3> SUFFICES ASSUME e > m PROVE FALSE
      BY <1>1, <1>2, <1>4, <2>1, <2>2
    <3>1. m \in q + 1 .. e - 1 /\ m \in 1 .. n
      BY <1>1, <1>2, <1>4, <2>1, <2>2
    <3>2. d[m].depth > d[q].depth /\ d[m].depth <= d[p].depth
      BY <1>1, <1>2, <2>2, <3>1
    <3>3. d[m].depth \in Nat /\ d[p].depth \in Nat
      BY <1>1, <1>4, <3>1
    <3> QED
      BY <2>1, <3>2, <3>3
  <2>4. e < m => e \in H
    <3> SUFFICES ASSUME e < m PROVE e \in H
      OBVIOUS
    <3>1. e \in p + 1 .. m - 1 /\ e \in 1 .. n /\ e <= n
      BY <1>1, <1>2, <1>4, <2>1, <2>2
    <3>2. d[e].depth > d[p].depth /\ d[e].depth <= d[p].depth + 1
      BY <1>2, <2>1, <2>2, <3>1
    <3>3. d[e].depth \in Nat /\ d[p].depth \in Nat
      BY <1>1, <1>4, <3>1
    <3>4. d[e].depth = d[p].depth + 1
      <4>1. \A x, y \in Nat : x > y /\ x <= y + 1 => x = y + 1
        OBVIOUS
      <4> QED
        BY <3>2, <3>3, <4>1
    <3> QED
      BY <1>5, <3>1, <3>4
  <2>5. \A j \in 1 .. Len(c) : j > i => c[j] >= e
    <3> SUFFICES ASSUME NEW j \in 1 .. Len(c), j > i, ~ (c[j] >= e) PROVE FALSE
      OBVIOUS
    <3>1. c[j] > q /\ c[j] \in 1 .. n /\ d[c[j]].depth = d[p].depth + 1
      BY <1>3, <1>6, <1>7
    <3>2. c[j] < e /\ q \in Nat /\ e \in Nat /\ c[j] \in Nat
      <4>1. c[j] \in Nat
        BY <1>3
      <4>2. q \in Nat /\ e \in Nat
        BY <1>1, <1>4, <2>1, <2>2
      <4> QED
        BY <4>1, <4>2
    <3>3. c[j] \in q + 1 .. e - 1
      BY <3>1, <3>2
    <3>4. d[c[j]].depth > d[q].depth
      BY <2>2, <3>3
    <3>5. d[p].depth \in Nat
      BY <1>1, <1>4
    <3> QED
      BY <2>1, <3>1, <3>4, <3>5
  <2>6. ASSUME e < m PROVE i < Len(c) /\ c[i + 1] = e
    <3>1. PICK j \in 1 .. Len(c) : c[j] = e
      BY <1>3, <2>4, <2>6
    <3>2. c[j] > c[i]
      BY <1>1, <1>4, <2>1, <2>2, <3>1
    <3>3. i < j
      BY <1>3, <3>2
    <3>4. i < Len(c) /\ i + 1 \in 1 .. Len(c)
      BY <1>3, <3>3
    <3>5. c[i + 1] >= e
      BY <2>5, <3>4, <1>3
    <3>6. ~ (i + 1 < j)
      BY <1>1, <1>3, <2>1, <2>2, <3>1, <3>4, <3>5
    <3> QED
      BY <1>3, <3>1, <3>3, <3>4, <3>6
  <2>7. ASSUME i < Len(c) PROVE e < m
    <3>1. i + 1 \in 1 .. Len(c) /\ i + 1 > i
      BY <1>3, <2>7
    <3>2. c[i + 1] >= e /\ c[i + 1] \in p + 1 .. m - 1
      BY <1>6, <2>5, <3>1
    <3> QED
      BY <1>1, <1>2, <1>4, <2>1, <2>2, <3>2
  <2>8. ASSUME i = Len(c) PROVE e = m
    <3>1. ~ (e < m)
      BY <1>3, <2>6, <2>8
    <3>2. e \in Nat /\ m \in Nat
      BY <1>1, <1>2, <1>4, <2>1, <2>2
    <3> QED
      BY <2>3, <3>1, <3>2
  <2> QED
    BY <2>6, <2>7, <2>8 DEF e
<1>12. Cardinality(H) = Len(c)
  <2>1. c \in [1 .. Len(c) -> H]
    BY <1>3, LenProperties
  <2>2. \A x, y \in 1 .. Len(c) : c[x] = c[y] => x = y
    BY <1>3
  <2>3. c \in Bijection(1 .. Len(c), H)
    <3>1. IsInjective(c)
      BY <1>3, <2>2 DEF IsInjective
    <3> QED
      BY <1>3, <2>1, <3>1 DEF Bijection, Injection, Surjection
  <2>4. IsFiniteSet(1 .. Len(c)) /\ Cardinality(1 .. Len(c)) = Len(c)
    <3>1. Len(c) \in Nat
      BY <1>3
    <3>2. \A k \in Nat : IsFiniteSet(1 .. k) /\ Cardinality(1 .. k) = k
      BY FS_Interval
    <3> QED
      BY <3>1, <3>2
  <2>5. ExistsBijection(1 .. Len(c), H)
    BY <2>3 DEF ExistsBijection
  <2> QED
    BY <2>4, <2>5, FS_Bijection
<1>13. \A i \in 1 .. Len(c) - 1 : i \in 1 .. Len(c) /\ i < Len(c)
  BY <1>3
<1>14. Len(c) > 0 => Len(c) \in 1 .. Len(c)
  BY <1>3
<1> QED
  BY <1>7, <1>9, <1>10, <1>11, <1>12, <1>13, <1>14 DEF n, m, H

-----------------------------------------------------------------------------
\* While a document is read, the positions of JsonReader are those in it.
LEMMA ReadersDocument ==
  ASSUME reading, NEW p
  PROVE  /\ Reader!Below(p) = BelowIn(written, p)
         /\ Reader!Held(p) = HeldIn(written, p)
         /\ Reader!After(p) = AfterIn(written, p)
<1>1. Reader!Below(p) = BelowIn(written, p)
  BY DEF Reader!Below, BelowIn
<1>2. Reader!Held(p) = HeldIn(written, p)
  BY <1>1 DEF Reader!Held, HeldIn
<1>3. Reader!After(p) = AfterIn(written, p)
  BY <1>1 DEF Reader!After, AfterIn, Reader!Cardinality, Cardinality
<1> QED
  BY <1>1, <1>2, <1>3

\* Where the values in a node end.
End(n) == IF n = Len(nodes) THEN Len(written) + 1 ELSE AfterIn(written, n)

Ready == reading /\ Document /\ Tree

LEMMA ReadyFacts ==
  ASSUME Ready
  PROVE  /\ Nested(written)
         /\ Len(written) \in Nat \ {0} /\ DOMAIN written = 1 .. Len(written)
         /\ Len(nodes) = Len(written) + 1 /\ DOMAIN nodes = 1 .. Len(nodes)
         /\ \A n \in DOMAIN nodes : nodes[n] \in TreeNode
         /\ \A p \in DOMAIN written :
              /\ nodes[p].kind = written[p].kind /\ nodes[p].value = written[p].value
              /\ Enumerates(nodes[p].children, HeldIn(written, p))
              /\ written[p].kind \in Scalars => HeldIn(written, p) = {}
              /\ \A q \in HeldIn(written, p) : written[q].name # NoName <=> written[p].kind = "object"
<1>1. Nested(written)
  BY DEF Ready, Document, Nested
<1>2. Len(written) \in Nat \ {0} /\ DOMAIN written = 1 .. Len(written)
  BY <1>1, NestedDepths
<1>3. Len(nodes) = Len(written) + 1 /\ DOMAIN nodes = 1 .. Len(nodes) /\ \A n \in DOMAIN nodes : nodes[n] \in TreeNode
  BY LenProperties DEF Ready, Tree
<1> QED
  BY <1>1, <1>2, <1>3, ReadersDocument DEF Ready, Document, Tree

\* The children of a node follow one another, up to where the node ends.
LEMMA NodeChildren ==
  ASSUME Ready, NEW n \in DOMAIN nodes
  PROVE  LET c == nodes[n].children
         IN  /\ c \in Seq(Nat) /\ Len(c) \in Nat /\ DOMAIN c = 1 .. Len(c)
             /\ \A i \in 1 .. Len(c) : c[i] \in 1 .. Len(written)
             /\ \A i \in 1 .. Len(c) - 1 : AfterIn(written, c[i]) = c[i + 1]
             /\ Len(c) > 0 => AfterIn(written, c[Len(c)]) = End(n)
             /\ n <= Len(written) =>
                  /\ Len(c) = 0 => AfterIn(written, n) = n + 1
                  /\ Len(c) > 0 => c[1] = n + 1
                  /\ Cardinality(HeldIn(written, n)) = Len(c)
<1> DEFINE c == nodes[n].children
<1>1. /\ Nested(written) /\ Len(written) \in Nat \ {0} /\ DOMAIN written = 1 .. Len(written)
      /\ Len(nodes) = Len(written) + 1 /\ n \in 1 .. Len(written) + 1 /\ nodes[n] \in TreeNode
  BY ReadyFacts
<1>2. c \in Seq(Nat) /\ Len(c) \in Nat /\ DOMAIN c = 1 .. Len(c)
  BY <1>1, LenProperties DEF TreeNode
<1>3. CASE n = Len(nodes)
  <2>1. c = <<1>>
    BY <1>3 DEF Ready, Tree
  <2>2. Len(c) = 1 /\ c[1] = 1
    BY <2>1
  <2>3. AfterIn(written, 1) = End(n)
    BY <1>1, <1>3, RootSpans DEF End
  <2> QED
    BY <1>1, <1>2, <1>3, <2>2, <2>3
<1>4. CASE n # Len(nodes)
  <2>1. n \in 1 .. Len(written) /\ n \in Nat
    BY <1>1, <1>4
  <2>2. Enumerates(c, HeldIn(written, n))
    BY <1>1, <2>1, ReadyFacts
  <2>3. End(n) = AfterIn(written, n)
    BY <1>4 DEF End
  <2> HIDE DEF c
  <2>4. /\ \A i \in 1 .. Len(c) : c[i] \in n + 1 .. Len(written)
        /\ Len(c) = 0 => AfterIn(written, n) = n + 1
        /\ Len(c) > 0 => c[1] = n + 1 /\ AfterIn(written, c[Len(c)]) = AfterIn(written, n)
        /\ \A i \in 1 .. Len(c) - 1 : AfterIn(written, c[i]) = c[i + 1]
        /\ Cardinality(HeldIn(written, n)) = Len(c)
    BY <1>1, <1>2, <2>1, <2>2, ChildrenFollow
  <2>5. \A x : x \in n + 1 .. Len(written) => x \in 1 .. Len(written)
    BY <1>1, <2>1
  <2> QED
    BY <1>2, <2>3, <2>4, <2>5 DEF c
<1> QED
  BY <1>3, <1>4

-----------------------------------------------------------------------------
Frame == [node : DOMAIN nodes, cursor : Nat]
Live(f) == f.cursor < Len(Children(f))
NextOf(f) == Children(f)[f.cursor + 1]

\* Every frame but the last has more to come, and that is what comes after the
\* node of the frame above it; after the node of the first frame comes nothing.
Stacked(s) ==
  /\ s \in Seq(Frame)
  /\ \A i \in 1 .. Len(s) - 1 : Live(s[i]) /\ NextOf(s[i]) = End(s[i + 1].node)
  /\ s # <<>> => End(s[1].node) = Len(written) + 1

\* The position that a stack of frames is.
Position(s) ==
  IF s = <<>> \/ ~ Live(s[Len(s)]) THEN Len(written) + 1 ELSE NextOf(s[Len(s)])

FramesInv == reading \in BOOLEAN /\ (reading => Ready /\ Stacked(stack))

LEMMA StackedFacts ==
  ASSUME NEW s, Stacked(s)
  PROVE  /\ Len(s) \in Nat /\ DOMAIN s = 1 .. Len(s) /\ (s # <<>> => Len(s) > 0)
         /\ \A i \in 1 .. Len(s) : s[i].node \in DOMAIN nodes /\ s[i].cursor \in Nat
<1>1. s \in Seq(Frame)
  BY DEF Stacked
<1>2. Len(s) \in Nat /\ DOMAIN s = 1 .. Len(s) /\ \A i \in 1 .. Len(s) : s[i] \in Frame
  BY <1>1, LenProperties
<1>3. s # <<>> => Len(s) > 0
  BY <1>1, EmptySeq
<1> QED
  BY <1>2, <1>3 DEF Frame

\* What the cursor is at.
LEMMA Peeks ==
  ASSUME Ready, Stacked(stack)
  PROVE  /\ PeekValue \in 0 .. Len(written)
         /\ Position(stack) = IF PeekValue = 0 THEN Len(written) + 1 ELSE PeekValue
         /\ PeekValue # 0 =>
              /\ stack # <<>> /\ Live(stack[Len(stack)])
              /\ PeekValue = NextOf(stack[Len(stack)])
         /\ PeekValue = 0 => stack = <<>> \/ ~ Live(stack[Len(stack)])
<1> DEFINE f == stack[Len(stack)]
<1>1. Len(written) \in Nat
  BY ReadyFacts
<1>2. CASE stack = <<>>
  BY <1>1, <1>2 DEF PeekValue, Position
<1>3. CASE stack # <<>>
  <2>1. Len(stack) > 0 /\ Len(stack) \in 1 .. Len(stack) /\ f.node \in DOMAIN nodes /\ f.cursor \in Nat
    BY <1>3, StackedFacts
  <2>2. Last(stack) = f
    BY DEF Last
  <2>3. Len(Children(f)) \in Nat /\ \A i \in 1 .. Len(Children(f)) : Children(f)[i] \in 1 .. Len(written)
    BY <2>1, NodeChildren DEF Children
  <2> HIDE DEF f
  <2>4. PeekValue = IF Live(f) THEN NextOf(f) ELSE 0
    BY <1>3, <2>1, <2>2, <2>3 DEF PeekValue, Live, NextOf
  <2>5. Live(f) => NextOf(f) \in 1 .. Len(written)
    <3>1. Live(f) => f.cursor + 1 \in 1 .. Len(Children(f))
      BY <2>1, <2>3 DEF Live
    <3> QED
      BY <2>3, <3>1 DEF NextOf
  <2>6. Position(stack) = IF Live(f) THEN NextOf(f) ELSE Len(written) + 1
    BY <1>3 DEF Position, f
  <2> QED
    BY <1>1, <1>3, <2>4, <2>5, <2>6 DEF f
<1> QED
  BY <1>2, <1>3

\* One step of the last cursor: the frame stays if it has more to come, and
\* otherwise the frame below it comes next.
LEMMA AdvancedIs ==
  ASSUME Ready, Stacked(stack), PeekValue # 0
  PROVE  /\ Stacked(Advanced)
         /\ Position(Advanced) = AfterIn(written, PeekValue)
         /\ \A i \in 1 .. Len(Advanced) : Live(Advanced[i])
<1> DEFINE n == Len(stack)
           f == stack[n]
           g == [f EXCEPT !.cursor = @ + 1]
           moved == ReplaceAt(stack, n, g)
           c == Children(f)
<1>1. stack # <<>> /\ Live(f) /\ PeekValue = NextOf(f)
  BY Peeks
<1>2. /\ n \in Nat /\ n > 0 /\ n \in 1 .. n /\ DOMAIN stack = 1 .. n
      /\ \A i \in 1 .. n : stack[i] \in Frame
  BY <1>1, StackedFacts, LenProperties DEF Stacked
<1>3. f \in Frame /\ f.node \in DOMAIN nodes /\ f.cursor \in Nat
  BY <1>2 DEF Frame
<1>4. /\ Len(c) \in Nat
      /\ \A i \in 1 .. Len(c) - 1 : AfterIn(written, c[i]) = c[i + 1]
      /\ Len(c) > 0 => AfterIn(written, c[Len(c)]) = End(f.node)
  BY <1>3, NodeChildren DEF Children
<1>5. g \in Frame /\ g.node = f.node /\ g.cursor = f.cursor + 1 /\ Children(g) = c
  BY <1>3 DEF Frame, Children
<1>6. f.cursor < Len(c) /\ PeekValue = c[f.cursor + 1]
  BY <1>1 DEF Live, NextOf
<1>7. Last(stack) = f
  BY DEF Last
<1>8. /\ moved \in Seq(Frame) /\ Len(moved) = n /\ DOMAIN moved = 1 .. n
      /\ moved[n] = g /\ \A i \in 1 .. n : i # n => moved[i] = stack[i]
  BY <1>2, <1>5, ExceptSeq, LenProperties DEF Stacked, ReplaceAt
<1> DEFINE live == {i \in DOMAIN moved : moved[i].cursor < Len(Children(moved[i]))}
<1>9. Advanced = IF live = {} THEN <<>> ELSE SubSeq(moved, 1, Max(live))
  BY <1>7 DEF Advanced
<1>10. /\ \A i \in 1 .. n - 1 : Live(stack[i]) /\ NextOf(stack[i]) = End(stack[i + 1].node)
       /\ End(stack[1].node) = Len(written) + 1
  BY <1>1 DEF Stacked
<1> HIDE DEF moved, g, f, c, n
<1>11. live = {i \in 1 .. n : Live(moved[i])}
  BY <1>8 DEF Live
<1> HIDE DEF live
<1>12. \A i \in 1 .. n - 1 : moved[i] = stack[i] /\ i \in live /\ i \in 1 .. n
  <2> TAKE i \in 1 .. n - 1
  <2>1. i \in 1 .. n /\ i # n
    BY <1>2
  <2>2. moved[i] = stack[i] /\ Live(stack[i])
    BY <1>8, <1>10, <2>1
  <2>3. Live(moved[i])
    BY <2>2
  <2> QED
    BY <1>11, <2>1, <2>2, <2>3
<1>13. moved[n].node = stack[n].node
  BY <1>5, <1>8 DEF f
<1>14. \A i \in 1 .. n : moved[i].node = stack[i].node
  BY <1>8, <1>13
<1>15. CASE Live(g)
  <2>1. n \in live /\ \A i \in live : i <= n
    BY <1>2, <1>8, <1>11, <1>15
  <2>2. Max(live) = n
    BY <1>2, <1>11, <2>1 DEF Max
  <2>3. Advanced = moved
    BY <1>8, <1>9, <2>1, <2>2, SubSeqFull
  <2>4. g.cursor < Len(c)
    BY <1>5, <1>15 DEF Live
  <2>5. NextOf(g) = c[f.cursor + 2]
    BY <1>3, <1>5 DEF NextOf
  <2>6. AfterIn(written, PeekValue) = c[f.cursor + 2]
    <3>1. f.cursor + 1 \in 1 .. Len(c) - 1 /\ (f.cursor + 1) + 1 = f.cursor + 2
      BY <1>3, <1>4, <1>5, <2>4
    <3> QED
      BY <1>4, <1>6, <3>1
  <2>7. moved # <<>> /\ Position(moved) = NextOf(g)
    BY <1>2, <1>8, <1>15, EmptySeq DEF Position
  <2>8. \A i \in 1 .. Len(moved) : Live(moved[i])
    BY <1>2, <1>8, <1>11, <1>12, <2>1
  <2>9. \A i \in 1 .. n - 1 : NextOf(moved[i]) = End(moved[i + 1].node)
    <3> TAKE i \in 1 .. n - 1
    <3>1. i + 1 \in 1 .. n /\ i \in 1 .. n - 1
      BY <1>2
    <3> QED
      BY <1>10, <1>12, <1>14, <3>1
  <2>10. Stacked(moved)
    <3>1. \A i \in 1 .. n - 1 : i \in 1 .. n
      BY <1>2
    <3>2. 1 \in 1 .. n
      BY <1>2
    <3> QED
      BY <1>8, <1>10, <1>14, <2>8, <2>9, <3>1, <3>2 DEF Stacked
  <2> QED
    BY <2>3, <2>5, <2>6, <2>7, <2>8, <2>10
<1>16. CASE ~ Live(g)
  <2>1. n \notin live /\ live = 1 .. n - 1
    BY <1>2, <1>8, <1>11, <1>12, <1>16
  <2>2. f.cursor + 1 = Len(c)
    BY <1>3, <1>4, <1>5, <1>6, <1>16 DEF Live
  <2>3. AfterIn(written, PeekValue) = End(f.node)
    BY <1>3, <1>4, <1>6, <2>2
  <2>4. CASE n = 1
    <3>1. live = {} /\ Advanced = <<>>
      BY <1>9, <2>1, <2>4
    <3>2. Position(<<>>) = Len(written) + 1
      BY DEF Position
    <3>3. Stacked(<<>>)
      BY EmptySeq DEF Stacked
    <3>4. \A i \in 1 .. Len(<<>>) : Live(<<>>[i])
      BY EmptySeq
    <3> QED
      BY <1>10, <2>3, <2>4, <3>1, <3>2, <3>3, <3>4 DEF f
  <2>5. CASE n > 1
    <3> DEFINE t == SubSeq(moved, 1, n - 1)
    <3>1. n - 1 \in live /\ n - 1 \in 1 .. n - 1 /\ \A i \in live : i <= n - 1
      BY <1>2, <2>1, <2>5
    <3>2. Max(live) = n - 1
      BY <1>2, <2>1, <3>1 DEF Max
    <3>3. Advanced = t
      BY <1>9, <3>1, <3>2
    <3>4. \A i \in 1 .. n - 1 : moved[i] \in Frame
      BY <1>2, <1>12
    <3>5. /\ t \in Seq(Frame) /\ Len(t) = n - 1
          /\ \A i \in 1 .. n - 1 : t[i] = moved[i]
      <4>1. 1 \in Int /\ n - 1 \in Int /\ 1 <= n - 1 /\ (n - 1) - 1 + 1 = n - 1
        BY <1>2, <2>5
      <4>2. /\ t \in Seq(Frame) /\ Len(t) = (n - 1) - 1 + 1
            /\ \A i \in 1 .. (n - 1) - 1 + 1 : t[i] = moved[1 + i - 1]
        BY <3>4, <4>1, SubSeqProperties
      <4>3. \A i \in 1 .. n - 1 : 1 + i - 1 = i
        BY <1>2
      <4> QED
        BY <4>1, <4>2, <4>3
    <3> HIDE DEF t
    <3>6. \A i \in 1 .. n - 1 : t[i] = stack[i] /\ Live(t[i]) /\ NextOf(t[i]) = End(stack[i + 1].node)
      BY <1>10, <1>12, <3>5
    <3>7. Stacked(t)
      <4>1. \A i \in 1 .. (n - 1) - 1 : i \in 1 .. n - 1 /\ i + 1 \in 1 .. n - 1
        BY <1>2
      <4>2. 1 \in 1 .. n - 1
        BY <1>2, <2>5
      <4> QED
        BY <1>10, <3>5, <3>6, <4>1, <4>2 DEF Stacked
    <3>8. Position(t) = End(f.node)
      <4>1. t # <<>>
        BY <3>5, <1>2, <2>5, EmptySeq
      <4>2. Live(t[n - 1]) /\ NextOf(t[n - 1]) = End(stack[(n - 1) + 1].node)
        BY <3>1, <3>6
      <4>3. (n - 1) + 1 = n
        BY <1>2
      <4> QED
        BY <3>5, <4>1, <4>2, <4>3 DEF Position, f
    <3> QED
      BY <2>3, <3>3, <3>5, <3>6, <3>7, <3>8
  <2> QED
    BY <1>2, <2>4, <2>5
<1> QED
  BY <1>15, <1>16

\* A container's frame goes where what it exhausts was: at its first child, or
\* nowhere.
LEMMA EnteredIs ==
  ASSUME Ready, Stacked(stack), PeekValue # 0
  PROVE  /\ Stacked(Entered)
         /\ Position(Entered) =
              IF Len(nodes[PeekValue].children) = 0 THEN Len(written) + 1 ELSE PeekValue + 1
<1> DEFINE v == PeekValue
           a == Advanced
           h == [node |-> v, cursor |-> 0]
           e == Append(a, h)
           c == nodes[v].children
<1>1. v \in 1 .. Len(written) /\ v \in DOMAIN nodes /\ v # Len(nodes) /\ v <= Len(written)
  BY Peeks, ReadyFacts
<1>2. /\ Stacked(a) /\ Position(a) = AfterIn(written, v)
      /\ \A i \in 1 .. Len(a) : Live(a[i])
  BY AdvancedIs
<1>3. Len(a) \in Nat /\ a \in Seq(Frame) /\ (a # <<>> => Len(a) > 0)
  BY <1>2, StackedFacts DEF Stacked
<1>4. h \in Frame /\ h.node = v /\ h.cursor = 0 /\ Children(h) = c
  BY <1>1 DEF Frame, Children
<1>5. Len(c) \in Nat /\ (Len(c) > 0 => c[1] = v + 1)
  BY <1>1, NodeChildren
<1>6. End(v) = AfterIn(written, v)
  BY <1>1 DEF End
<1>7. Entered = e
  BY DEF Entered
<1> HIDE DEF a, h, c, v
<1>8. /\ e \in Seq(Frame) /\ Len(e) = Len(a) + 1 /\ e[Len(a) + 1] = h
      /\ \A i \in 1 .. Len(a) : e[i] = a[i]
  BY <1>3, <1>4, AppendProperties
<1> HIDE DEF e
<1>9. e # <<>>
  BY <1>3, <1>8, EmptySeq
<1>10. Position(e) = IF Len(c) = 0 THEN Len(written) + 1 ELSE v + 1
  BY <1>4, <1>5, <1>8, <1>9 DEF Position, Live, NextOf
<1>11. ASSUME NEW i \in 1 .. Len(e) - 1
       PROVE  Live(e[i]) /\ NextOf(e[i]) = End(e[i + 1].node)
  <2>1. i \in 1 .. Len(a) /\ e[i] = a[i] /\ Live(a[i])
    BY <1>2, <1>3, <1>8
  <2>2. CASE i = Len(a)
    <3>1. a # <<>>
      BY <2>1, EmptySeq
    <3>2. NextOf(a[i]) = Position(a)
      BY <2>1, <2>2, <3>1 DEF Position
    <3> QED
      BY <1>2, <1>4, <1>6, <1>8, <2>1, <2>2, <3>2
  <2>3. CASE i # Len(a)
    <3>1. i \in 1 .. Len(a) - 1 /\ i + 1 \in 1 .. Len(a)
      BY <1>3, <2>1, <2>3
    <3> QED
      BY <1>2, <1>8, <2>1, <3>1 DEF Stacked
  <2> QED
    BY <2>2, <2>3
<1>12. End(e[1].node) = Len(written) + 1
  <2>1. CASE a = <<>>
    <3>1. Len(a) = 0 /\ e[1] = h
      BY <1>8, <2>1, EmptySeq
    <3>2. Position(a) = Len(written) + 1
      BY <2>1 DEF Position
    <3> QED
      BY <1>2, <1>4, <1>6, <3>1, <3>2
  <2>2. CASE a # <<>>
    <3>1. 1 \in 1 .. Len(a)
      BY <1>3, <2>2
    <3> QED
      BY <1>2, <1>8, <2>2, <3>1 DEF Stacked
  <2> QED
    BY <2>1, <2>2
<1> QED
  BY <1>7, <1>8, <1>10, <1>11, <1>12 DEF Stacked, c, v

-----------------------------------------------------------------------------
\* The state of JsonReader.
ReaderAt == IF ~ reading THEN 0 ELSE IF PeekValue = 0 THEN Len(written) + 1 ELSE PeekValue
ReaderDoc == IF reading THEN written ELSE <<>>

LEMMA ReaderState ==
  ASSUME Ready, Stacked(stack)
  PROVE  /\ ReaderDoc = written /\ ReaderAt = Position(stack)
         /\ ReaderAt \in 1 .. Len(written) + 1
         /\ PeekValue # 0 <=> ReaderAt \in DOMAIN written
         /\ PeekValue # 0 => ReaderAt = PeekValue /\ PeekValue \in 1 .. Len(written)
<1>1. reading
  BY DEF Ready
<1>2. Len(written) \in Nat /\ DOMAIN written = 1 .. Len(written)
  BY ReadyFacts
<1>3. /\ PeekValue \in 0 .. Len(written)
      /\ Position(stack) = IF PeekValue = 0 THEN Len(written) + 1 ELSE PeekValue
  BY Peeks
<1>4. ReaderDoc = written /\ ReaderAt = IF PeekValue = 0 THEN Len(written) + 1 ELSE PeekValue
  BY <1>1 DEF ReaderAt, ReaderDoc
<1> QED
  BY <1>2, <1>3, <1>4

StackHolds == Stacked(stack)
AtOne == Position(stack) = 1
AtHere == ReaderDoc = written /\ ReaderAt = Position(stack)

LEMMA ReaderMoved == Ready /\ StackHolds => AtHere
BY ReaderState DEF StackHolds, AtHere

\* A call asks the parser's node what it should ask the document.
LEMMA SameKind ==
  ASSUME Ready, Stacked(stack), NEW kind
  PROVE  Reader!IsNext(kind) <=> PeekIs(kind)
<1>1. Reader!IsNext(kind) <=> ReaderAt \in DOMAIN ReaderDoc /\ ReaderDoc[ReaderAt].kind = kind
  BY DEF Reader!IsNext, ReaderAt, ReaderDoc
<1>2. PeekValue # 0 => nodes[PeekValue].kind = written[PeekValue].kind
  BY ReaderState, ReadyFacts
<1> QED
  BY <1>1, <1>2, ReaderState DEF PeekIs

LEMMA SameMember ==
  ASSUME Ready, Stacked(stack)
  PROVE  /\ Reader!IsMember <=> AtMember
         /\ \A name : Reader!IsNamed(name) <=>
              AtMember /\ nodes[Last(stack).node].names[Last(stack).cursor + 1] = name
<1> DEFINE f == stack[Len(stack)]
           v == PeekValue
<1>1. Reader!IsMember <=> ReaderAt \in DOMAIN ReaderDoc /\ ReaderDoc[ReaderAt].name # NoName
  BY DEF Reader!IsMember, ReaderAt, ReaderDoc
<1>2. Reader!IsMember <=> v # 0 /\ written[v].name # NoName
  BY <1>1, ReaderState
<1>3. ASSUME NEW name
      PROVE  Reader!IsNamed(name) <=> Reader!IsMember /\ written[v].name = name
  <2>1. Reader!IsNamed(name) <=> Reader!IsMember /\ ReaderDoc[ReaderAt].name = name
    BY DEF Reader!IsNamed, ReaderAt, ReaderDoc
  <2> QED
    BY <1>2, <2>1, ReaderState
<1>4. Last(stack) = f
  BY DEF Last
<1>5. AtMember <=> v # 0 /\ nodes[f.node].kind = "object"
  <2>1. v # 0 <=> stack # <<>> /\ Live(f)
    BY Peeks
  <2> QED
    BY <1>4, <2>1 DEF AtMember, Live
<1>6. ASSUME v # 0
      PROVE  /\ written[v].name # NoName <=> nodes[f.node].kind = "object"
             /\ nodes[f.node].kind = "object" => nodes[f.node].names[f.cursor + 1] = written[v].name
  <2>1. stack # <<>> /\ Live(f) /\ v = NextOf(f)
    BY <1>6, Peeks
  <2>2. f.node \in DOMAIN nodes /\ f.cursor \in Nat
    BY <2>1, StackedFacts
  <2> DEFINE n == f.node
             c == nodes[n].children
             i == f.cursor + 1
  <2>3. Len(c) \in Nat /\ DOMAIN c = 1 .. Len(c)
    BY <2>2, NodeChildren
  <2>4. i \in DOMAIN c /\ v = c[i]
    BY <2>1, <2>2, <2>3 DEF Live, NextOf, Children
  <2>5. n \in 1 .. Len(written) + 1 /\ Len(nodes) = Len(written) + 1 /\ Len(written) \in Nat
    BY <2>2, ReadyFacts
  <2> HIDE DEF f, v
  <2>6. CASE n = Len(nodes)
    <3>1. c = <<1>> /\ nodes[n].kind = "array" /\ written[1].name = NoName
      BY <2>6 DEF Ready, Tree, Document
    <3>2. v = 1
      BY <2>3, <2>4, <3>1
    <3> QED
      BY <3>1, <3>2
  <2>7. CASE n # Len(nodes)
    <3>1. n \in 1 .. Len(written) /\ n \in DOMAIN written
      BY <2>5, <2>7, ReadyFacts
    <3>2. /\ Enumerates(c, HeldIn(written, n)) /\ nodes[n].kind = written[n].kind
          /\ \A q \in HeldIn(written, n) : written[q].name # NoName <=> written[n].kind = "object"
      BY <3>1, ReadyFacts
    <3>3. v \in HeldIn(written, n)
      BY <2>4, <3>2 DEF Enumerates
    <3>4. nodes[n].kind = "object" => nodes[n].names = [j \in DOMAIN c |-> written[c[j]].name]
      BY <3>1 DEF Ready, Tree
    <3>5. nodes[n].kind = "object" => nodes[n].names[i] = written[v].name
      BY <2>4, <3>4
    <3> QED
      BY <3>2, <3>3, <3>5
  <2> QED
    BY <2>6, <2>7
<1>7. Reader!IsMember <=> AtMember
  BY <1>2, <1>5, <1>6
<1>8. ASSUME NEW name
      PROVE  Reader!IsNamed(name) <=> AtMember /\ nodes[Last(stack).node].names[Last(stack).cursor + 1] = name
  BY <1>2, <1>3, <1>4, <1>5, <1>6, <1>7
<1> QED
  BY <1>7, <1>8

-----------------------------------------------------------------------------
\* The reader leaves the document and its nodes alone.
LEMMA StaysReady ==
  ASSUME Ready, UNCHANGED <<nodes, reading, written>>
  PROVE  Ready'
<1>1. nodes' = nodes /\ reading' = reading /\ written' = written
  OBVIOUS
<1>2. \A p : Reader!Below(p)' = Reader!Below(p)
  BY <1>1 DEF Reader!Below
<1>3. \A p : Reader!Held(p)' = Reader!Held(p)
  BY <1>1, <1>2 DEF Reader!Held
<1>4. Document' <=> Document
  BY <1>1, <1>3 DEF Document
<1>5. Tree' <=> Tree
  BY <1>1, <1>3 DEF Tree
<1> QED
  BY <1>1, <1>4, <1>5 DEF Ready

LEMMA StaysStacked ==
  ASSUME NEW s, Stacked(s), UNCHANGED <<nodes, reading, written>>, stack' = s
  PROVE  Stacked(stack)' /\ Position(stack)' = Position(s)
<1>1. nodes' = nodes /\ written' = written
  OBVIOUS
<1> QED
  BY <1>1 DEF Stacked, Position, Frame, Live, NextOf, End, Children

\* The reader starts at the virtual array, whose only child is the root.
AtRoot == stack = <<[node |-> Len(nodes), cursor |-> 0]>>

LEMMA RootStacked == Ready /\ AtRoot => StackHolds /\ AtOne
<1> SUFFICES ASSUME Ready, AtRoot PROVE Stacked(stack) /\ Position(stack) = 1
  BY DEF StackHolds, AtOne
<1> DEFINE root == [node |-> Len(nodes), cursor |-> 0]
<1>1. /\ Len(nodes) = Len(written) + 1 /\ DOMAIN nodes = 1 .. Len(nodes)
      /\ Len(written) \in Nat
  BY ReadyFacts
<1>2. nodes[Len(nodes)].children = <<1>>
  BY DEF Ready, Tree
<1>3. root \in Frame /\ root.node = Len(nodes) /\ root.cursor = 0
  BY <1>1 DEF Frame
<1>4. stack = <<root>>
  BY DEF AtRoot
<1> HIDE DEF root
<1>5. stack \in Seq(Frame) /\ Len(stack) = 1 /\ stack[1] = root /\ stack # <<>>
  BY <1>3, <1>4
<1>6. Stacked(stack)
  BY <1>3, <1>5 DEF Stacked, End
<1>7. Live(root) /\ NextOf(root) = 1
  <2>1. Children(root) = <<1>> /\ root.cursor + 1 = 1
    BY <1>2, <1>3 DEF Children
  <2>2. Len(<<1>>) = 1 /\ <<1>>[1] = 1
    OBVIOUS
  <2> QED
    BY <1>3, <2>1, <2>2 DEF Live, NextOf
<1>8. Position(stack) = 1
  BY <1>5, <1>7 DEF Position
<1> QED
  BY <1>6, <1>8

LEMMA BeginStacks ==
  ASSUME BeginReading
  PROVE  FramesInv' /\ ReaderAt' = 1
<1>1. Ready' /\ AtRoot' /\ (reading \in BOOLEAN)'
  BY DEF BeginReading, Ready, AtRoot
<1>2. StackHolds' /\ AtOne' /\ AtHere'
  BY <1>1, RootStacked, ReaderMoved, PTL
<1> QED
  BY <1>1, <1>2 DEF FramesInv, StackHolds, AtOne, AtHere

\* What a call does to the position.
LEMMA CallMoves ==
  ASSUME Ready, Stacked(stack), UNCHANGED <<nodes, reading, written>>,
         \/ stack' = stack
         \/ PeekValue # 0 /\ stack' \in {Advanced, Entered}
  PROVE  /\ FramesInv' /\ ReaderDoc' = ReaderDoc
         /\ stack' = stack => ReaderAt' = ReaderAt
         /\ PeekValue # 0 /\ stack' = Advanced => ReaderAt' = AfterIn(written, PeekValue)
         /\ PeekValue # 0 /\ stack' = Entered => ReaderAt' = Position(Entered)
<1>1. Ready' /\ (reading \in BOOLEAN)' /\ written' = written
  BY StaysReady DEF Ready
<1>2. Stacked(stack')
  BY AdvancedIs, EnteredIs
<1>3. Stacked(stack)' /\ Position(stack)' = Position(stack')
  BY <1>2, StaysStacked
<1>4. ReaderDoc' = written' /\ ReaderAt' = Position(stack)'
  <2>1. StackHolds'
    BY <1>3 DEF StackHolds
  <2>2. AtHere'
    BY <1>1, <2>1, ReaderMoved, PTL
  <2> QED
    BY <2>2 DEF AtHere
<1>5. ReaderDoc = written /\ ReaderAt = Position(stack)
  BY ReaderState
<1>6. PeekValue # 0 => Position(Advanced) = AfterIn(written, PeekValue)
  BY AdvancedIs
<1> QED
  BY <1>1, <1>3, <1>4, <1>5, <1>6 DEF FramesInv

LEMMA ReadMoves ==
  ASSUME Ready, Stacked(stack), UNCHANGED <<nodes, reading, written>>,
         NEW kind \in Scalars, Read(kind)
  PROVE  FramesInv' /\ ReaderDoc' = ReaderDoc /\ Reader!Read(kind)
<1>1. PeekIs(kind) <=> Reader!IsNext(kind)
  BY SameKind
<1>2. CASE PeekIs(kind)
  <2> DEFINE v == PeekValue
             c == nodes[v].children
  <2>1. v # 0 /\ v \in 1 .. Len(written) /\ v \in DOMAIN nodes /\ v \in DOMAIN written /\ v <= Len(written)
    BY <1>2, Peeks, ReadyFacts DEF PeekIs
  <2>2. ReaderAt = v /\ ReaderDoc = written
    BY <2>1, ReaderState
  <2>3. answer' = Granted(<<"read", kind>>, nodes[v].value) /\ stack' = Advanced
    BY <1>2 DEF Read
  <2>4. FramesInv' /\ ReaderDoc' = ReaderDoc /\ ReaderAt' = AfterIn(written, v)
    BY <2>1, <2>3, CallMoves
  <2>5. nodes[v].value = written[v].value /\ HeldIn(written, v) = {} /\ Enumerates(c, HeldIn(written, v))
    BY <1>2, <2>1, ReadyFacts DEF PeekIs
  <2>6. Len(c) \in Nat /\ DOMAIN c = 1 .. Len(c) /\ (Len(c) = 0 => AfterIn(written, v) = v + 1)
    BY <2>1, NodeChildren
  <2>7. Len(c) = 0
    <3>1. {c[j] : j \in DOMAIN c} = {}
      BY <2>5 DEF Enumerates
    <3>2. DOMAIN c = {}
      BY <3>1
    <3>3. Len(c) > 0 => 1 \in DOMAIN c
      BY <2>6
    <3>4. Len(c) \in Nat
      BY <2>6
    <3> HIDE DEF c
    <3>5. ~ (Len(c) > 0)
      BY <3>2, <3>3
    <3> QED
      BY <3>4, <3>5
  <2>8. ReaderAt' = ReaderAt + 1
    BY <2>2, <2>4, <2>6, <2>7
  <2>9. answer' = Reader!Granted(<<"read", kind>>, ReaderDoc[ReaderAt].value)
    BY <2>2, <2>3, <2>5 DEF Granted, Reader!Granted
  <2> HIDE DEF v, c
  <2> QED
    BY <1>1, <1>2, <2>4, <2>8, <2>9 DEF Reader!Read, ReaderAt, ReaderDoc
<1>3. CASE ~ PeekIs(kind)
  <2>1. answer' = Reader!Refused(<<"read", kind>>) /\ stack' = stack
    BY <1>3 DEF Read, Refused, Reader!Refused
  <2>2. FramesInv' /\ ReaderDoc' = ReaderDoc /\ ReaderAt' = ReaderAt
    BY <2>1, CallMoves
  <2> QED
    BY <1>1, <1>3, <2>1, <2>2 DEF Reader!Read, ReaderAt, ReaderDoc
<1> QED
  BY <1>2, <1>3

LEMMA EnterMoves ==
  ASSUME ~ EntersEmpty, Ready, Stacked(stack), UNCHANGED <<nodes, reading, written>>,
         NEW kind, Enter(kind)
  PROVE  FramesInv' /\ ReaderDoc' = ReaderDoc /\ Reader!Enter(kind)
<1>1. PeekIs(kind) <=> Reader!IsNext(kind)
  BY SameKind
<1>2. CASE PeekIs(kind)
  <2> DEFINE v == PeekValue
             c == nodes[v].children
  <2>1. v # 0 /\ v \in 1 .. Len(written) /\ v \in DOMAIN nodes /\ v <= Len(written)
    BY <1>2, Peeks, ReadyFacts DEF PeekIs
  <2>2. ReaderAt = v /\ ReaderDoc = written
    BY <2>1, ReaderState
  <2>3. /\ answer' = Granted(<<"enter", kind>>, Len(c)) /\ stack' = Entered
        /\ ~ (Len(c) = 0 /\ v < Len(nodes) - 1)
    BY <1>2 DEF Enter
  <2>4. FramesInv' /\ ReaderDoc' = ReaderDoc /\ ReaderAt' = Position(Entered)
    BY <2>1, <2>3, CallMoves
  <2>5. Position(Entered) = IF Len(c) = 0 THEN Len(written) + 1 ELSE v + 1
    BY <2>1, EnteredIs
  <2>6. Position(Entered) = v + 1
    BY <2>1, <2>3, <2>5, ReadyFacts
  <2>7. Cardinality(HeldIn(written, v)) = Len(c)
    BY <2>1, NodeChildren
  <2>8. Reader!Cardinality(Reader!Held(ReaderAt)) = Cardinality(HeldIn(written, v))
    <3>1. Reader!Held(ReaderAt) = HeldIn(written, v)
      BY <2>2, ReadersDocument DEF Ready
    <3> QED
      BY <3>1 DEF Reader!Cardinality, Cardinality
  <2>9. answer' = Reader!Granted(<<"enter", kind>>, Reader!Cardinality(Reader!Held(ReaderAt)))
    BY <2>3, <2>7, <2>8 DEF Granted, Reader!Granted
  <2>10. ReaderAt' = ReaderAt + 1
    BY <2>2, <2>4, <2>6
  <2> HIDE DEF v, c
  <2> QED
    BY <1>1, <1>2, <2>4, <2>9, <2>10 DEF Reader!Enter, ReaderAt
<1>3. CASE ~ PeekIs(kind)
  <2>1. answer' = Reader!Refused(<<"enter", kind>>) /\ stack' = stack
    BY <1>3 DEF Enter, Refused, Reader!Refused
  <2>2. FramesInv' /\ ReaderDoc' = ReaderDoc /\ ReaderAt' = ReaderAt
    BY <2>1, CallMoves
  <2> QED
    BY <1>1, <1>3, <2>1, <2>2 DEF Reader!Enter, ReaderAt
<1> QED
  BY <1>2, <1>3

LEMMA SkipMoves ==
  ASSUME Ready, Stacked(stack), UNCHANGED <<nodes, reading, written>>, SkipMember
  PROVE  FramesInv' /\ ReaderDoc' = ReaderDoc /\ Reader!SkipMember
<1>1. AtMember <=> Reader!IsMember
  BY SameMember
<1>2. CASE AtMember
  <2>1. PeekValue # 0
    BY <1>1, <1>2, ReaderState DEF Reader!IsMember, ReaderAt, ReaderDoc
  <2>2. ReaderAt = PeekValue
    BY <2>1, ReaderState
  <2>3. answer' = Reader!Granted(<<"skip", NoName>>, 0) /\ stack' = Advanced
    BY <1>2 DEF SkipMember, Granted, Reader!Granted
  <2>4. FramesInv' /\ ReaderDoc' = ReaderDoc /\ ReaderAt' = AfterIn(written, PeekValue)
    BY <2>1, <2>3, CallMoves
  <2>5. ReaderAt' = Reader!After(ReaderAt)
    BY <2>2, <2>4, ReadersDocument DEF Ready
  <2> QED
    BY <1>1, <1>2, <2>3, <2>4, <2>5 DEF Reader!SkipMember, ReaderAt
<1>3. CASE ~ AtMember
  <2>1. answer' = Reader!Refused(<<"skip", NoName>>) /\ stack' = stack
    BY <1>3 DEF SkipMember, Refused, Reader!Refused
  <2>2. FramesInv' /\ ReaderDoc' = ReaderDoc /\ ReaderAt' = ReaderAt
    BY <2>1, CallMoves
  <2> QED
    BY <1>1, <1>3, <2>1, <2>2 DEF Reader!SkipMember, ReaderAt
<1> QED
  BY <1>2, <1>3

LEMMA MatchMoves ==
  ASSUME Ready, Stacked(stack), UNCHANGED <<nodes, reading, written>>,
         NEW name, MatchName(name)
  PROVE  FramesInv' /\ ReaderDoc' = ReaderDoc /\ Reader!MatchName(name)
<1>1. stack' = stack
  BY DEF MatchName
<1>2. FramesInv' /\ ReaderDoc' = ReaderDoc /\ ReaderAt' = ReaderAt
  BY <1>1, CallMoves
<1>3. answer' = IF Reader!IsNamed(name) THEN Reader!Granted(<<"match", name>>, 0)
                                        ELSE Reader!Refused(<<"match", name>>)
  BY SameMember DEF MatchName, Granted, Refused, Reader!Granted, Reader!Refused
<1> QED
  BY <1>2, <1>3 DEF Reader!MatchName, ReaderAt

LEMMA CallRefines ==
  ASSUME ~ EntersEmpty, FramesInv, Call
  PROVE  FramesInv' /\ Reader!Next
<1>1. Ready /\ Stacked(stack) /\ UNCHANGED <<nodes, reading, written>> /\ reading
  BY DEF FramesInv, Call
<1>2. ReaderAt > 0
  BY <1>1, ReaderState, ReadyFacts
<1>3. /\ FramesInv' /\ ReaderDoc' = ReaderDoc
      /\ \/ \E kind \in Scalars : Reader!Read(kind)
         \/ \E kind \in {"object", "array"} : Reader!Enter(kind)
         \/ Reader!SkipMember
         \/ \E name \in Names : Reader!MatchName(name)
  <2>1. CASE \E kind \in Scalars : Read(kind)
    BY <1>1, <2>1, ReadMoves
  <2>2. CASE \E kind \in {"object", "array"} : Enter(kind)
    BY <1>1, <2>2, EnterMoves
  <2>3. CASE SkipMember
    BY <1>1, <2>3, SkipMoves
  <2>4. CASE \E name \in Names : MatchName(name)
    BY <1>1, <2>4, MatchMoves
  <2> QED
    BY <2>1, <2>2, <2>3, <2>4 DEF Call
<1> QED
  BY <1>2, <1>3 DEF Reader!Next, Reader!Containers, ReaderAt, ReaderDoc

LEMMA BeginRefines ==
  ASSUME FramesInv, BeginReading
  PROVE  FramesInv' /\ Reader!Next
<1>1. FramesInv' /\ ReaderAt' = 1
  BY BeginStacks
<1>2. ReaderAt = 0 /\ answer' = answer
  BY DEF BeginReading, ReaderAt
<1>3. ReaderDoc' = written' /\ Nested(written')
  BY DEF BeginReading, ReaderDoc, Document, Nested
<1>4. \A i \in DOMAIN ReaderDoc' : ReaderDoc'[i].depth \in Nat
  BY <1>3, NestedDepths
<1> QED
  BY <1>1, <1>2, <1>4 DEF Reader!Next, Reader!Begin, ReaderAt, ReaderDoc

LEMMA WriteRefines ==
  ASSUME FramesInv, Write
  PROVE  FramesInv' /\ UNCHANGED Reader!vars
BY DEF FramesInv, Write, Reader!vars

LEMMA StutterRefines ==
  ASSUME FramesInv, UNCHANGED frames_vars
  PROVE  FramesInv' /\ UNCHANGED Reader!vars
<1>1. /\ nodes' = nodes /\ stack' = stack /\ reading' = reading /\ answer' = answer
      /\ written' = written
  BY DEF frames_vars
<1>2. PeekValue' = PeekValue
  BY <1>1 DEF PeekValue, Children
<1>3. CASE reading
  <2>1. Ready /\ Stacked(stack) /\ UNCHANGED <<nodes, reading, written>>
    BY <1>1, <1>3 DEF FramesInv
  <2>2. FramesInv'
    BY <1>1, <2>1, CallMoves
  <2> QED
    BY <1>1, <1>2, <2>2 DEF Reader!vars
<1>4. CASE ~ reading
  BY <1>1, <1>2, <1>4 DEF FramesInv, Reader!vars
<1> QED
  BY <1>3, <1>4

\* Whatever document was parsed to whatever tree of its values, and in whatever
\* order the reader's calls come: it is read as it was written, the stack of
\* frames being a position in it.  Empty containers are not entered, unless
\* nothing comes after them: nothing would ever pop their frame.
THEOREM StackIsPosition == ~ EntersEmpty => (FramesSpec => ReadsAsWritten)
<1> SUFFICES ASSUME ~ EntersEmpty PROVE FramesSpec => ReadsAsWritten
  OBVIOUS
<1>1. FramesInit => FramesInv /\ Reader!Init
  BY DEF FramesInit, FramesInv, Reader!Init, NoCall, Refused, Reader!NoCall, Reader!Refused
<1>2. FramesInv /\ [FramesNext]_frames_vars => FramesInv' /\ [Reader!Next]_(Reader!vars)
  <2> SUFFICES ASSUME FramesInv, [FramesNext]_frames_vars
               PROVE  FramesInv' /\ [Reader!Next]_(Reader!vars)
    OBVIOUS
  <2>1. CASE Call
    BY <2>1, CallRefines
  <2>2. CASE BeginReading
    BY <2>2, BeginRefines
  <2>3. CASE Write
    BY <2>3, WriteRefines
  <2>4. CASE UNCHANGED frames_vars
    BY <2>4, StutterRefines
  <2> QED
    BY <2>1, <2>2, <2>3, <2>4 DEF FramesNext
<1> QED
  BY <1>1, <1>2, PTL DEF FramesSpec, ReadsAsWritten, Reader!Spec
=============================================================================
