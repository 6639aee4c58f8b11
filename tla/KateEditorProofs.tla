--------------------------- MODULE KateEditorProofs ---------------------------
(***************************************************************************)
(* Whatever is typed, in a buffer and a window of any size, the text fits  *)
(* into the buffer, the position every key computes stays inside the       *)
(* text, the rows of the window show the lines around the cursor, and the  *)
(* keys edit lines: the editor implements TextLines.                       *)
(***************************************************************************)
EXTENDS KateEditor, FiniteSetTheorems, SequenceTheorems, WellFoundedInduction, TLAPS

------------------------------------------------------------------------------
(* Least and greatest elements *)

LEMMA HasLeast ==
  ASSUME NEW S \in SUBSET Nat, S # {}
  PROVE  \E m \in S : \A k \in S : m <= k
  <1> DEFINE R == OpToRel(<, Nat)
  <1>1. IsWellFoundedOn(R, Nat)
    BY NatLessThanWellFounded
  <1> HIDE DEF R
  <1>2. PICK m \in S : \A k \in S : ~(<<k, m>> \in R)
    BY <1>1, WFMin
  <1>3. \A k \in S : k \in Nat
    OBVIOUS
  <1>4. \A k \in S : <<k, m>> \in R <=> k < m
    BY <1>3 DEF R, OpToRel
  <1>5. \A k \in S : ~(k < m)
    BY <1>2, <1>4
  <1> QED BY <1>3, <1>5

LEMMA LeastOf ==
  ASSUME NEW S \in SUBSET Nat, S # {}
  PROVE  Min(S) \in S /\ \A k \in S : Min(S) <= k
  BY HasLeast DEF Min

LEMMA GreatestOf ==
  ASSUME NEW p \in Nat, NEW S \in SUBSET (0..p), S # {}
  PROVE  Max(S) \in S /\ \A k \in S : k <= Max(S)
  <1> DEFINE T == {p - k : k \in S}
  <1>1. T \in SUBSET Nat /\ T # {}
    <2>1. \A k \in S : k \in 0..p
      OBVIOUS
    <2>2. \A k \in S : p - k \in Nat
      BY <2>1
    <2> QED BY <2>2
  <1>2. PICK m \in T : \A k \in T : m <= k
    BY <1>1, HasLeast
  <1>3. PICK x \in S : m = p - x
    BY <1>2
  <1>4. \A k \in S : x >= k
    <2> TAKE k \in S
    <2>1. p - x <= p - k
      BY <1>2, <1>3
    <2> QED BY <2>1
  <1>5. Max(S) \in S /\ \A k \in S : Max(S) >= k
    BY <1>4 DEF Max
  <1> QED BY <1>5

------------------------------------------------------------------------------
(* The line arithmetic *)

Text == {b \in Seq(Chars) : Len(b) <= MaxLen}

LEMMA LineBounds ==
  ASSUME NEW b, NEW p \in Nat
  PROVE  LineOf(b, p) \in 0..p
  <1> DEFINE S == {i \in 1..p : b[i] = NL}
  <1>1. IsFiniteSet(1..p) /\ Cardinality(1..p) = p
    BY FS_Interval
  <1>2. S \in SUBSET (1..p)
    OBVIOUS
  <1>3. IsFiniteSet(S) /\ Cardinality(S) <= p
    <2> HIDE DEF S
    <2> QED BY <1>1, <1>2, FS_Subset
  <1>4. Cardinality(S) \in Nat
    BY <1>3, FS_CardinalityType
  <1> QED BY <1>3, <1>4 DEF LineOf

LEMMA ColBounds ==
  ASSUME NEW b, NEW p \in Nat
  PROVE  ColOf(b, p) \in 0..p
  <1> DEFINE S == {0} \cup {i \in 1..p : b[i] = NL}
  <1>1. S \in SUBSET (0..p) /\ S # {}
    OBVIOUS
  <1>2. Max(S) \in S
    BY <1>1, GreatestOf
  <1> QED BY <1>1, <1>2 DEF ColOf

LEMMA StartBounds ==
  ASSUME NEW b \in Seq(Chars), NEW n
  PROVE  LineStart(b, n) \in 0..Len(b)
  <1> DEFINE S == {Len(b)} \cup {i \in DOMAIN b : b[i] = NL /\ LineOf(b, i) = n}
  <1>1. S \in SUBSET (0..Len(b)) /\ S # {}
    OBVIOUS
  <1>2. Min(S) \in S
    BY <1>1, LeastOf
  <1> QED BY <1>1, <1>2 DEF LineStart

LEMMA EndBounds ==
  ASSUME NEW b \in Seq(Chars), NEW n
  PROVE  LineEnd(b, n) \in LineStart(b, n)..Len(b)
  <1> DEFINE s == LineStart(b, n)
             S == {Len(b)} \cup {i \in s..(Len(b) - 1) : b[i + 1] = NL}
  <1>1. s \in 0..Len(b)
    BY StartBounds
  <1> HIDE DEF s
  <1>2. S \in SUBSET (s..Len(b)) /\ S \in SUBSET Nat /\ S # {}
    BY <1>1
  <1>3. Min(S) \in S
    BY <1>2, LeastOf
  <1> QED BY <1>2, <1>3 DEF LineEnd, EndAfter, s


LEMMA Joined ==
  ASSUME NEW x \in Seq(Chars), NEW y \in Seq(Chars)
  PROVE  x \o y \in Seq(Chars) /\ Len(x \o y) = Len(x) + Len(y)
  OBVIOUS

LEMMA Inserted ==
  ASSUME NEW b \in Seq(Chars), NEW i \in 1..(Len(b) + 1), NEW c \in Chars
  PROVE  InsertAt(b, i, c) \in Seq(Chars) /\ Len(InsertAt(b, i, c)) = Len(b) + 1
  <1> DEFINE l == SubSeq(b, 1, i - 1)
             r == SubSeq(b, i, Len(b))
  <1>1. l \in Seq(Chars) /\ Len(l) = i - 1
    OBVIOUS
  <1>2. r \in Seq(Chars) /\ Len(r) = Len(b) - i + 1
    OBVIOUS
  <1>3. <<c>> \in Seq(Chars) /\ Len(<<c>>) = 1
    OBVIOUS
  <1>4. InsertAt(b, i, c) = (l \o <<c>>) \o r
    BY DEF InsertAt
  <1>5. Len(b) \in Nat /\ i \in Nat
    OBVIOUS
  <1> HIDE DEF l, r
  <1>6. l \o <<c>> \in Seq(Chars) /\ Len(l \o <<c>>) = i
    BY <1>1, <1>3, <1>5, Joined
  <1>7. (l \o <<c>>) \o r \in Seq(Chars) /\ Len((l \o <<c>>) \o r) = i + (Len(b) - i + 1)
    BY <1>2, <1>6, Joined
  <1> QED BY <1>4, <1>5, <1>7

LEMMA Removed ==
  ASSUME NEW b \in Seq(Chars), NEW i \in DOMAIN b
  PROVE  RemoveAt(b, i) \in Seq(Chars) /\ Len(RemoveAt(b, i)) = Len(b) - 1
  <1> DEFINE l == SubSeq(b, 1, i - 1)
             r == SubSeq(b, i + 1, Len(b))
  <1>1. l \in Seq(Chars) /\ Len(l) = i - 1
    OBVIOUS
  <1>2. r \in Seq(Chars) /\ Len(r) = Len(b) - i
    OBVIOUS
  <1>3. RemoveAt(b, i) = l \o r
    BY DEF RemoveAt
  <1>4. Len(b) \in Nat /\ i \in Nat
    OBVIOUS
  <1> HIDE DEF l, r
  <1>5. l \o r \in Seq(Chars) /\ Len(l \o r) = (i - 1) + (Len(b) - i)
    BY <1>1, <1>2, Joined
  <1> QED BY <1>3, <1>4, <1>5

------------------------------------------------------------------------------
(* The keys *)

InText(b, p) == b \in Seq(Chars) /\ Len(b) <= MaxLen /\ p \in 0..Len(b)

\* The draw after a key scrolls to the cursor.
LEMMA DrawsTheCursor ==
  ASSUME top \in 0..MaxLen, InText(buf', pos'), Draw
  PROVE  top' \in 0..MaxLen /\ CursorSeen'
  <1> DEFINE line == LineOf(buf', pos')
  <1>1. pos' \in Nat /\ pos' <= MaxLen
    BY EditorAssumption DEF InText
  <1>2. line \in 0..pos'
    BY <1>1, LineBounds
  <1>3. top' = Scrolled(top, line)
    BY DEF Draw
  <1> HIDE DEF line
  <1>4. top' \in 0..MaxLen /\ line - top' \in 0..(Rows - 1)
    BY <1>1, <1>2, <1>3, EditorAssumption DEF Scrolled
  <1>5. CursorAt[1]' = line - top'
    BY DEF CursorAt, line
  <1> QED BY <1>4, <1>5 DEF CursorSeen

\* Wherever a key that moves the cursor moves it, it is in the text.
LEMMA MovesInText ==
  ASSUME TypeOK, MoveUp \/ MoveDown \/ Left \/ Right \/ Home \/ End
  PROVE  UNCHANGED <<buf, mod>> /\ InText(buf', pos') /\ Draw
  <1> DEFINE n == LineOf(buf, pos)
  <1>1. buf \in Seq(Chars) /\ Len(buf) <= MaxLen /\ pos \in 0..Len(buf) /\ Len(buf) \in Nat
    BY DEF TypeOK
  <1>2. \A k : /\ LineStart(buf, k) \in 0..Len(buf)
               /\ LineEnd(buf, k) \in LineStart(buf, k)..Len(buf)
    BY <1>1, StartBounds, EndBounds
  <1>3. ColOf(buf, pos) \in Nat
    BY <1>1, ColBounds
  <1>4. \A k : LineStart(buf, k) + Lesser(ColOf(buf, pos), LineEnd(buf, k) - LineStart(buf, k))
                 \in 0..Len(buf)
    <2> TAKE k
    <2>1. /\ LineStart(buf, k) \in 0..Len(buf)
          /\ LineEnd(buf, k) \in LineStart(buf, k)..Len(buf)
      BY <1>2
    <2> QED BY <1>1, <1>3, <2>1 DEF Lesser
  <1>5. ASSUME NEW p \in 0..Len(buf), MoveTo(p)
        PROVE  UNCHANGED <<buf, mod>> /\ InText(buf', pos') /\ Draw
    BY <1>1, <1>5 DEF MoveTo, InText
  <1>6. CASE MoveUp \/ MoveDown
    BY <1>4, <1>5, <1>6 DEF MoveUp, MoveDown
  <1>7. CASE Left \/ Right
    BY <1>1, <1>5, <1>7 DEF Left, Right
  <1>8. CASE Home
    BY <1>2, <1>5, <1>8 DEF Home
  <1>9. CASE End
    <2>1. LineEnd(buf, n) \in 0..Len(buf)
      BY <1>1, <1>2
    <2> QED BY <1>5, <1>9, <2>1 DEF End
  <1> QED BY <1>6, <1>7, <1>8, <1>9

LEMMA ChangesInText ==
  ASSUME TypeOK, (\E c \in Chars : Insert(c)) \/ Backspace \/ DelKey
  PROVE  mod' = TRUE /\ InText(buf', pos') /\ Draw
  <1>1. buf \in Seq(Chars) /\ Len(buf) <= MaxLen /\ pos \in 0..Len(buf) /\ Len(buf) \in Nat
    BY DEF TypeOK
  <1>2. MaxLen \in Nat
    BY EditorAssumption
  <1>3. ASSUME NEW c \in Chars, Insert(c)
        PROVE  mod' = TRUE /\ InText(buf', pos') /\ Draw
    <2>1. pos + 1 \in 1..(Len(buf) + 1)
      BY <1>1
    <2>2. InsertAt(buf, pos + 1, c) \in Seq(Chars) /\ Len(InsertAt(buf, pos + 1, c)) = Len(buf) + 1
      BY <1>1, <2>1, Inserted
    <2> QED BY <1>1, <1>2, <1>3, <2>2 DEF Insert, Alter, InText
  <1>4. CASE Backspace
    <2>1. pos \in DOMAIN buf
      BY <1>1, <1>4 DEF Backspace
    <2>2. RemoveAt(buf, pos) \in Seq(Chars) /\ Len(RemoveAt(buf, pos)) = Len(buf) - 1
      BY <1>1, <2>1, Removed
    <2> QED BY <1>1, <1>2, <1>4, <2>2 DEF Backspace, Alter, InText
  <1>5. CASE DelKey
    <2>1. pos + 1 \in DOMAIN buf
      BY <1>1, <1>5 DEF DelKey
    <2>2. RemoveAt(buf, pos + 1) \in Seq(Chars) /\ Len(RemoveAt(buf, pos + 1)) = Len(buf) - 1
      BY <1>1, <2>1, Removed
    <2> QED BY <1>1, <1>2, <1>5, <2>1, <2>2 DEF DelKey, Alter, InText
  <1> QED BY <1>3, <1>4, <1>5

LEMMA InitInv == Init => TypeOK /\ CursorSeen
  <1> SUFFICES ASSUME Init PROVE TypeOK /\ CursorSeen
    OBVIOUS
  <1>1. TypeOK
    <2>1. buf = <<>> /\ Len(buf) = 0 /\ buf \in Seq(Chars)
      BY DEF Init
    <2>2. mod \in BOOLEAN
      BY DEF Init
    <2> QED BY <2>1, <2>2, EditorAssumption DEF Init, TypeOK
  <1>2. LineOf(buf, pos) = 0
    BY LineBounds DEF Init
  <1> QED BY <1>1, <1>2, EditorAssumption DEF Init, CursorSeen, CursorAt

LEMMA NextInv == TypeOK /\ CursorSeen /\ [Next]_vars => (TypeOK /\ CursorSeen)'
  <1> SUFFICES ASSUME TypeOK, CursorSeen, [Next]_vars PROVE (TypeOK /\ CursorSeen)'
    OBVIOUS
  <1>1. CASE Next
    <2>1. InText(buf', pos') /\ Draw
      <3>1. CASE Save
        BY <3>1 DEF Save, TypeOK, InText
      <3> QED BY <1>1, <3>1, MovesInText, ChangesInText DEF Next
    <2>2. mod' \in BOOLEAN
      <3>1. CASE Save
        BY <3>1 DEF Save
      <3>2. mod \in BOOLEAN
        BY DEF TypeOK
      <3> QED BY <1>1, <3>1, <3>2, MovesInText, ChangesInText DEF Next
    <2>3. top' \in 0..MaxLen /\ CursorSeen'
      BY <2>1, DrawsTheCursor DEF TypeOK
    <2> QED BY <2>1, <2>2, <2>3 DEF TypeOK, InText
  <1>2. CASE UNCHANGED vars
    BY <1>2 DEF vars, TypeOK, CursorSeen, CursorAt
  <1> QED BY <1>1, <1>2

\* No key ever writes outside kate_buf or leaves the position outside the text, for
\* every size of the buffer (desktop.c 844-870, 960-1014).
THEOREM TypeCorrect == Spec => []TypeOK
  BY InitInv, NextInv, PTL DEF Spec

\* After every key the row of the cursor is in the window, for every height of it
\* (desktop.c 879-881).
THEOREM CursorIsSeen == Spec => []CursorSeen
  BY InitInv, NextInv, PTL DEF Spec
------------------------------------------------------------------------------
(* What the window shows *)

LEMMA ReachesAll ==
  ASSUME NEW S, 0 \in S, \A n \in Nat : n \in S => n + 1 \in S
  PROVE  Nat \subseteq S
  <1> DEFINE B == Nat \ S
  <1> SUFFICES ASSUME B # {} PROVE FALSE
    OBVIOUS
  <1>1. PICK m \in B : \A k \in B : m <= k
    <2>1. B \in SUBSET Nat
      OBVIOUS
    <2> HIDE DEF B
    <2> QED BY <2>1, HasLeast
  <1>2. m # 0 /\ m \in Nat
    OBVIOUS
  <1>3. m - 1 \in Nat /\ m - 1 < m /\ (m - 1) + 1 = m
    BY <1>2
  <1>4. m - 1 \in S
    BY <1>1, <1>3
  <1> QED BY <1>3, <1>4

\* One byte further, the line is the next one exactly after a newline.
LEMMA LineSteps ==
  ASSUME NEW b, NEW p \in Nat
  PROVE  LineOf(b, p + 1) = IF b[p + 1] = NL THEN LineOf(b, p) + 1 ELSE LineOf(b, p)
  <1> DEFINE S == {i \in 1..p : b[i] = NL}
             T == {i \in 1..(p + 1) : b[i] = NL}
  <1>1. IsFiniteSet(S)
    <2>1. IsFiniteSet(1..p) /\ S \in SUBSET (1..p)
      BY FS_Interval
    <2> HIDE DEF S
    <2> QED BY <2>1, FS_Subset
  <1>2. LineOf(b, p) = Cardinality(S) /\ LineOf(b, p + 1) = Cardinality(T)
    BY DEF LineOf
  <1>3. CASE b[p + 1] = NL
    <2>1. T = S \cup {p + 1} /\ p + 1 \notin S
      BY <1>3
    <2> HIDE DEF S, T
    <2> QED BY <1>1, <1>2, <1>3, <2>1, FS_AddElement
  <1>4. CASE b[p + 1] # NL
    <2>1. \A i \in T : i \in 1..p
      <3> TAKE i \in T
      <3>1. i # p + 1
        BY <1>4
      <3> QED BY <3>1
    <2>2. T = S
      BY <2>1
    <2> HIDE DEF S, T
    <2> QED BY <1>2, <1>4, <2>2
  <1> QED BY <1>3, <1>4

LEMMA LinesGrow ==
  ASSUME NEW b, NEW p \in Nat, NEW q \in Nat, p <= q
  PROVE  LineOf(b, p) <= LineOf(b, q)
  <1> DEFINE S == {i \in 1..p : b[i] = NL}
             T == {i \in 1..q : b[i] = NL}
  <1>1. S \in SUBSET T
    OBVIOUS
  <1>2. IsFiniteSet(T)
    <2>1. IsFiniteSet(1..q) /\ T \in SUBSET (1..q)
      BY FS_Interval
    <2> HIDE DEF T
    <2> QED BY <2>1, FS_Subset
  <1>3. Cardinality(S) <= Cardinality(T)
    <2> HIDE DEF S, T
    <2> QED BY <1>1, <1>2, FS_Subset
  <1> QED BY <1>3 DEF LineOf

\* Between two newlines the line stays the same.
LEMMA LineStays ==
  ASSUME NEW b, NEW p \in Nat, NEW q \in Nat, p <= q,
         \A i \in p..(q - 1) : b[i + 1] # NL
  PROVE  LineOf(b, q) = LineOf(b, p)
  <1>1. \A i \in (p + 1)..q : b[i] # NL
    <2> TAKE i \in (p + 1)..q
    <2>1. i - 1 \in p..(q - 1) /\ (i - 1) + 1 = i
      OBVIOUS
    <2> QED BY <2>1
  <1>2. \A i \in 1..q : b[i] = NL => i \in 1..p
    BY <1>1
  <1>3. {i \in 1..p : b[i] = NL} = {i \in 1..q : b[i] = NL}
    BY <1>2
  <1> QED BY <1>3 DEF LineOf

\* There is a newline before every line but the first.
LEMMA LineIsBegun ==
  ASSUME NEW b \in Seq(Chars), NEW n \in 1..LineOf(b, Len(b))
  PROVE  \E i \in DOMAIN b : b[i] = NL /\ LineOf(b, i) = n
  <1> DEFINE S == {p \in 0..Len(b) : LineOf(b, p) >= n}
  <1>0. Len(b) \in Nat /\ \A p \in 0..Len(b) : LineOf(b, p) \in 0..p
    BY LineBounds
  <1>1. S \in SUBSET Nat /\ Len(b) \in S
    BY <1>0
  <1>2. PICK m \in S : \A k \in S : m <= k
    <2> HIDE DEF S
    <2> QED BY <1>1, HasLeast
  <1>3. m \in 0..Len(b) /\ LineOf(b, m) >= n /\ m # 0
    BY <1>0, <1>2
  <1>4. m - 1 \in 0..Len(b) /\ ~(m <= m - 1)
    BY <1>0, <1>3
  <1>5. LineOf(b, m - 1) < n
    BY <1>0, <1>2, <1>4
  <1>6. LineOf(b, (m - 1) + 1) = IF b[(m - 1) + 1] = NL THEN LineOf(b, m - 1) + 1
                                 ELSE LineOf(b, m - 1)
    BY <1>4, LineSteps
  <1>7. (m - 1) + 1 = m
    BY <1>3
  <1>8. b[m] = NL /\ LineOf(b, m) = n
    BY <1>0, <1>3, <1>4, <1>5, <1>6, <1>7
  <1> QED BY <1>3, <1>8

\* A line of the text starts at its own first byte, and any other at the end.
LEMMA StartIs ==
  ASSUME NEW b \in Seq(Chars), NEW n \in Nat
  PROVE  IF n <= LineOf(b, Len(b)) THEN LineOf(b, LineStart(b, n)) = n
         ELSE LineStart(b, n) = Len(b)
  <1> DEFINE T == {i \in DOMAIN b : b[i] = NL /\ LineOf(b, i) = n}
             S == {Len(b)} \cup T
  <1>0. Len(b) \in Nat /\ \A p \in Nat : LineOf(b, p) \in 0..p
    BY LineBounds
  <1>1. S \in SUBSET Nat /\ S # {}
    OBVIOUS
  <1>2. Min(S) \in S /\ \A k \in S : Min(S) <= k
    <2> HIDE DEF S
    <2> QED BY <1>1, LeastOf
  <1>3. CASE n = 0
    BY <1>0, <1>3 DEF LineStart
  <1>4. CASE n # 0 /\ n <= LineOf(b, Len(b))
    <2>1. \E i \in T : i <= Len(b)
      <3>1. n \in 1..LineOf(b, Len(b))
        BY <1>0, <1>4
      <3> QED BY <3>1, LineIsBegun
    <2>2. PICK i \in T : i <= Len(b)
      BY <2>1
    <2>3. Min(S) <= i /\ i \in Nat
      BY <1>2, <2>2
    <2>4. Min(S) \in T
      <3>1. CASE Min(S) = Len(b)
        BY <1>0, <2>2, <2>3, <3>1
      <3>2. CASE Min(S) # Len(b)
        <4> HIDE DEF T
        <4> QED BY <1>2, <3>2
      <3> QED BY <3>1, <3>2
    <2>5. LineStart(b, n) = Min(S)
      BY <1>4 DEF LineStart
    <2> HIDE DEF S
    <2> QED BY <1>4, <2>4, <2>5
  <1>5. CASE ~(n <= LineOf(b, Len(b)))
    <2>1. \A i \in DOMAIN b : LineOf(b, i) <= LineOf(b, Len(b)) /\ LineOf(b, i) \in Nat
      BY <1>0, LinesGrow
    <2>2. T = {}
      BY <1>0, <1>5, <2>1
    <2>3. n # 0
      BY <1>0, <1>5
    <2>4. LineStart(b, n) = Min(S)
      BY <2>3 DEF LineStart
    <2>5. S = {Len(b)}
      BY <2>2
    <2> QED BY <1>2, <1>5, <2>4, <2>5
  <1> QED BY <1>3, <1>4, <1>5

\* A line starts behind the newline that ends the line before, or at the end.
LEMMA NextStart ==
  ASSUME NEW b \in Seq(Chars), NEW n \in Nat
  PROVE  LineStart(b, n + 1) = Lesser(Len(b), LineEnd(b, n) + 1)
  <1> DEFINE s == LineStart(b, n)
             e == LineEnd(b, n)
             S == {Len(b)} \cup {i \in s..(Len(b) - 1) : b[i + 1] = NL}
             T == {Len(b)} \cup {i \in DOMAIN b : b[i] = NL /\ LineOf(b, i) = n + 1}
  <1>0. Len(b) \in Nat /\ \A p \in Nat : LineOf(b, p) \in 0..p
    BY LineBounds
  <1>1. s \in 0..Len(b) /\ e \in s..Len(b)
    BY StartBounds, EndBounds
  <1>2. e \in S /\ \A k \in S : e <= k
    <2>1. e = Min(S)
      BY DEF LineEnd, EndAfter
    <2>2. S \in SUBSET Nat /\ S # {}
      <3> HIDE DEF s, e
      <3>1. \A k \in s..(Len(b) - 1) : k \in Nat
        BY <1>0, <1>1
      <3> QED BY <1>0, <3>1
    <2> HIDE DEF S, e
    <2> QED BY <2>1, <2>2, LeastOf
  <1>3. IF n <= LineOf(b, Len(b)) THEN LineOf(b, s) = n ELSE s = Len(b)
    BY StartIs
  <1>4. IF n + 1 <= LineOf(b, Len(b)) THEN LineOf(b, LineStart(b, n + 1)) = n + 1
        ELSE LineStart(b, n + 1) = Len(b)
    BY StartIs
  <1>5. LineStart(b, n + 1) = Min(T)
    BY DEF LineStart
  <1> HIDE DEF s, e
  <1>6. CASE ~(n <= LineOf(b, Len(b)))
    <2>1. e = Len(b) /\ LineStart(b, n + 1) = Len(b)
      BY <1>0, <1>1, <1>3, <1>4, <1>6
    <2> QED BY <1>0, <2>1 DEF Lesser, e
  <1>7. CASE n <= LineOf(b, Len(b))
    <2>1. \A i \in s..(e - 1) : b[i + 1] # NL
      <3> SUFFICES ASSUME NEW i \in s..(e - 1), b[i + 1] = NL PROVE FALSE
        OBVIOUS
      <3>1. i \in s..(Len(b) - 1) /\ ~(e <= i)
        BY <1>0, <1>1
      <3> QED BY <1>2, <3>1
    <2>2. LineOf(b, e) = n
      BY <1>0, <1>1, <1>3, <1>7, <2>1, LineStays
    <2>3. CASE e = Len(b)
      BY <1>0, <1>4, <2>2, <2>3 DEF Lesser, e
    <2>4. CASE e # Len(b)
      <3>1. e \in 0..(Len(b) - 1) /\ b[e + 1] = NL
        BY <1>0, <1>1, <1>2, <2>4
      <3>2. LineOf(b, e + 1) = n + 1
        BY <2>2, <3>1, LineSteps
      <3>3. e + 1 \in T
        BY <1>0, <3>1, <3>2
      <3>4. \A k \in T : e + 1 <= k
        <4> TAKE k \in T
        <4>1. CASE k = Len(b)
          BY <1>0, <3>1, <4>1
        <4>2. CASE k # Len(b)
          <5>1. k \in DOMAIN b /\ LineOf(b, k) = n + 1
            BY <4>2
          <5>2. k <= e => LineOf(b, k) <= LineOf(b, e)
            BY <1>0, <3>1, <5>1, LinesGrow
          <5> QED BY <1>0, <2>2, <3>1, <5>1, <5>2
        <4> QED BY <4>1, <4>2
      <3>5. T \in SUBSET Nat
        OBVIOUS
      <3>6. Min(T) \in T /\ \A k \in T : Min(T) <= k
        <4> HIDE DEF T
        <4> QED BY <3>3, <3>5, LeastOf
      <3>7. Min(T) = e + 1
        <4>1. Min(T) \in Nat /\ Min(T) <= e + 1 /\ e + 1 <= Min(T)
          <5> HIDE DEF T
          <5> QED BY <3>3, <3>4, <3>5, <3>6
        <4> HIDE DEF T
        <4> QED BY <3>1, <4>1
      <3> HIDE DEF T
      <3> QED BY <1>0, <1>5, <3>1, <3>7 DEF Lesser, e
    <2> QED BY <2>3, <2>4
  <1> QED BY <1>6, <1>7

\* The rows are found one from the other, as the loop of kate_draw does.
LEMMA RowStartsAre ==
  ASSUME NEW b, NEW t
  PROVE  RowStarts(b, t) =
           [r \in 0..Rows |->
              IF r = 0 THEN LineStart(b, t)
              ELSE Lesser(Len(b), EndAfter(b, RowStarts(b, t)[r - 1]) + 1)]
  <1> DEFINE Row(f, r) == IF r = 0 THEN LineStart(b, t)
                          ELSE Lesser(Len(b), EndAfter(b, f[r - 1]) + 1)
             Begins(f, n) == f = [r \in 0..n |-> Row(f, r)]
             S == {n \in Nat : \E f : Begins(f, n)}
  <1>1. 0 \in S
    <2> DEFINE f == [r \in 0..0 |-> LineStart(b, t)]
    <2>1. Begins(f, 0)
      OBVIOUS
    <2> QED BY <2>1
  <1>2. ASSUME NEW n \in Nat, n \in S PROVE n + 1 \in S
    <2>1. PICK f : Begins(f, n)
      BY <1>2
    <2> DEFINE g == [r \in 0..(n + 1) |-> IF r = n + 1 THEN Row(f, n + 1) ELSE f[r]]
    <2>2. \A r \in 0..n : g[r] = f[r]
      OBVIOUS
    <2>3. \A r \in 0..(n + 1) : g[r] = Row(g, r)
      <3> TAKE r \in 0..(n + 1)
      <3>1. r # 0 => r - 1 \in 0..n
        OBVIOUS
      <3>2. Row(g, r) = Row(f, r)
        <4> HIDE DEF g
        <4> QED BY <2>2, <3>1
      <3>3. CASE r = n + 1
        BY <3>2, <3>3
      <3>4. CASE r # n + 1
        <4>1. r \in 0..n
          BY <3>4
        <4>2. f[r] = Row(f, r)
          <5> HIDE DEF Row
          <5> QED BY <2>1, <4>1
        <4> HIDE DEF g, Row
        <4> QED BY <2>2, <3>2, <4>1, <4>2
      <3> QED BY <3>3, <3>4
    <2>4. Begins(g, n + 1)
      <3>1. g = [r \in 0..(n + 1) |-> g[r]]
        OBVIOUS
      <3> HIDE DEF g, Row
      <3> QED BY <2>3, <3>1
    <2> HIDE DEF Begins
    <2> QED BY <2>4
  <1>3. \E f : Begins(f, Rows)
    <2> HIDE DEF Begins
    <2>1. Nat \subseteq S
      <3> HIDE DEF S
      <3> QED BY <1>1, <1>2, ReachesAll
    <2> QED BY <2>1, EditorAssumption
  <1> QED BY <1>3 DEF RowStarts

\* Each row begins where its line does, and below the text at the end of it.
LEMMA RowsAreLines ==
  ASSUME NEW b \in Seq(Chars), NEW t \in Nat, NEW r \in 0..Rows
  PROVE  RowStarts(b, t)[r] = LineStart(b, t + r)
  <1> DEFINE S == {k \in Nat : k <= Rows => RowStarts(b, t)[k] = LineStart(b, t + k)}
  <1>0. Rows \in Nat
    BY EditorAssumption
  <1>1. 0 \in S
    <2>1. 0 \in 0..Rows /\ t + 0 = t
      BY <1>0
    <2>2. RowStarts(b, t)[0] = LineStart(b, t)
      BY <2>1, RowStartsAre
    <2> QED BY <2>1, <2>2
  <1>2. ASSUME NEW k \in Nat, k \in S PROVE k + 1 \in S
    <2> SUFFICES ASSUME k + 1 <= Rows
                 PROVE  RowStarts(b, t)[k + 1] = LineStart(b, t + (k + 1))
      OBVIOUS
    <2>1. RowStarts(b, t)[k] = LineStart(b, t + k)
      BY <1>0, <1>2
    <2>2. k + 1 \in 0..Rows /\ k + 1 # 0 /\ (k + 1) - 1 = k
      BY <1>0
    <2>3. RowStarts(b, t)[k + 1] = Lesser(Len(b), EndAfter(b, RowStarts(b, t)[k]) + 1)
      <3>1. \A j \in 0..Rows :
              RowStarts(b, t)[j] = IF j = 0 THEN LineStart(b, t)
                                   ELSE Lesser(Len(b), EndAfter(b, RowStarts(b, t)[j - 1]) + 1)
        <4> DEFINE f == RowStarts(b, t)
        <4>1. f = [j \in 0..Rows |-> IF j = 0 THEN LineStart(b, t)
                                     ELSE Lesser(Len(b), EndAfter(b, f[j - 1]) + 1)]
          BY RowStartsAre
        <4> HIDE DEF f
        <4>2. \A j \in 0..Rows :
                f[j] = IF j = 0 THEN LineStart(b, t)
                       ELSE Lesser(Len(b), EndAfter(b, f[j - 1]) + 1)
          BY <4>1
        <4> QED BY <4>2 DEF f
      <3> QED BY <2>2, <3>1
    <2>4. LineStart(b, (t + k) + 1) = Lesser(Len(b), LineEnd(b, t + k) + 1)
      BY NextStart
    <2>5. (t + k) + 1 = t + (k + 1)
      OBVIOUS
    <2> QED BY <2>1, <2>3, <2>4, <2>5 DEF LineEnd
  <1>3. Nat \subseteq S
    <2> HIDE DEF S
    <2> QED BY <1>1, <1>2, ReachesAll
  <1> QED BY <1>0, <1>3

LEMMA CutTwice ==
  ASSUME NEW b \in Seq(Chars), NEW s \in 0..Len(b), NEW e \in s..Len(b), NEW k \in 0..(e - s)
  PROVE  SubSeq(SubSeq(b, s + 1, e), 1, k) = SubSeq(b, s + 1, s + k)
  OBVIOUS

\* The window of a text is its lines from the first one shown, cut at the edge.
LEMMA WindowIsLines ==
  ASSUME NEW b \in Seq(Chars), NEW t \in Nat, NEW r \in 1..Rows
  PROVE  Window(b, t)[r] =
           IF t + r > Len(LinesOf(b)) THEN <<>>
           ELSE SubSeq(LinesOf(b)[t + r], 1, Lesser(Cols, Len(LinesOf(b)[t + r])))
  <1> DEFINE n == t + r
             s == LineStart(b, n - 1)
             e == LineEnd(b, n - 1)
             m == LineOf(b, Len(b))
  <1>0. /\ Rows \in Nat /\ Cols \in Nat /\ Len(b) \in Nat
        /\ n \in Nat /\ n - 1 \in Nat /\ r - 1 \in 0..Rows /\ t + (r - 1) = n - 1
    BY EditorAssumption
  <1>1. m \in Nat
    BY <1>0, LineBounds
  <1>2. s \in 0..Len(b) /\ e \in s..Len(b)
    BY StartBounds, EndBounds
  <1>3. RowStarts(b, t)[r - 1] = s
    BY <1>0, RowsAreLines
  <1>4. EndAfter(b, s) = e
    BY DEF LineEnd
  <1>5. Window(b, t)[r] = SubSeq(b, s + 1, Lesser(e, s + Cols))
    BY <1>3, <1>4 DEF Window
  <1>6. Len(LinesOf(b)) = m + 1
    BY <1>1 DEF LinesOf
  <1>7. IF n - 1 <= m THEN TRUE ELSE s = Len(b)
    BY <1>0, StartIs
  <1>8. CASE n > m + 1
    <2> HIDE DEF s, e, m, n
    <2>1. s = Len(b) /\ e = Len(b)
      BY <1>0, <1>1, <1>2, <1>7, <1>8
    <2>2. Lesser(e, s + Cols) = Len(b)
      BY <1>0, <2>1 DEF Lesser
    <2>3. SubSeq(b, Len(b) + 1, Len(b)) = <<>>
      OBVIOUS
    <2> QED BY <1>5, <1>6, <1>8, <2>1, <2>2, <2>3 DEF n
  <1>9. CASE ~(n > m + 1)
    <2>1. n \in 1..(m + 1)
      BY <1>0, <1>1, <1>9
    <2>2. LinesOf(b)[n] = SubSeq(b, s + 1, e)
      BY <2>1 DEF LinesOf
    <2> HIDE DEF s, e, m, n
    <2>3. Len(SubSeq(b, s + 1, e)) = e - s
      BY <1>0, <1>2
    <2>4. Lesser(Cols, e - s) \in 0..(e - s) /\ s + Lesser(Cols, e - s) = Lesser(e, s + Cols)
      BY <1>0, <1>2 DEF Lesser
    <2>5. SubSeq(SubSeq(b, s + 1, e), 1, Lesser(Cols, e - s))
            = SubSeq(b, s + 1, s + Lesser(Cols, e - s))
      BY <1>2, <2>4, CutTwice
    <2> QED BY <1>5, <1>6, <1>9, <2>2, <2>3, <2>4, <2>5 DEF n
  <1> QED BY <1>8, <1>9

\* After every key each row of the window shows the line it stands for, and the
\* cursor's is among them, for every text and window (desktop.c 879-922).
THEOREM WindowIsTheText == Spec => []WindowShowsText
  <1>1. TypeOK /\ CursorSeen => WindowShowsText
    <2> SUFFICES ASSUME TypeOK, CursorSeen PROVE WindowShowsText
      OBVIOUS
    <2>1. buf \in Seq(Chars) /\ top \in Nat
      BY EditorAssumption DEF TypeOK
    <2> QED BY <2>1, WindowIsLines DEF WindowShowsText
  <1> QED BY <1>1, InitInv, NextInv, PTL DEF Spec

------------------------------------------------------------------------------
(* Where lines begin and end *)

\* Two newlines are not of one line: a newline begins the line it counts up to.
LEMMA StartFound ==
  ASSUME NEW b \in Seq(Chars), NEW i \in DOMAIN b, b[i] = NL
  PROVE  LineStart(b, LineOf(b, i)) = i /\ LineOf(b, i) # 0
  <1> DEFINE n == LineOf(b, i)
             T == {j \in DOMAIN b : b[j] = NL /\ LineOf(b, j) = n}
             S == {Len(b)} \cup T
  <1>0. Len(b) \in Nat /\ i \in 1..Len(b) /\ i - 1 \in Nat /\ (i - 1) + 1 = i
    OBVIOUS
  <1>1. n = LineOf(b, i - 1) + 1 /\ LineOf(b, i - 1) \in Nat
    BY <1>0, LineSteps, LineBounds
  <1>2. \A j \in T : i <= j
    <2> SUFFICES ASSUME NEW j \in T, j < i PROVE FALSE
      BY <1>0
    <2>1. j \in Nat /\ j <= i - 1
      BY <1>0
    <2>2. LineOf(b, j) <= LineOf(b, i - 1)
      BY <1>0, <2>1, LinesGrow
    <2>3. LineOf(b, j) = n
      OBVIOUS
    <2> HIDE DEF n, T
    <2> QED BY <1>1, <2>2, <2>3
  <1>3. i \in T /\ T \subseteq DOMAIN b
    OBVIOUS
  <1>4. LineStart(b, n) = Min(S)
    BY <1>1 DEF LineStart
  <1> HIDE DEF n, T
  <1>5. S \in SUBSET Nat /\ S # {} /\ i \in S /\ \A k \in S : i <= k
    BY <1>0, <1>2, <1>3
  <1>6. Min(S) \in S /\ \A k \in S : Min(S) <= k
    <2> HIDE DEF S
    <2> QED BY <1>5, LeastOf
  <1>7. Min(S) = i
    <2> HIDE DEF S
    <2>1. Min(S) <= i /\ i <= Min(S) /\ Min(S) \in Nat
      BY <1>5, <1>6
    <2> QED BY <1>0, <2>1
  <1> QED BY <1>1, <1>4, <1>7 DEF n

\* A line of the text but the first begins behind the newline of its number.
LEMMA StartOfLine ==
  ASSUME NEW b \in Seq(Chars), NEW n \in 1..LineOf(b, Len(b))
  PROVE  /\ LineStart(b, n) \in DOMAIN b /\ b[LineStart(b, n)] = NL
         /\ LineOf(b, LineStart(b, n)) = n
  <1>1. PICK i \in DOMAIN b : b[i] = NL /\ LineOf(b, i) = n
    BY LineIsBegun
  <1> QED BY <1>1, StartFound

\* Its end is where the next one begins, or the end of the text.
LEMMA EndOfLine ==
  ASSUME NEW b \in Seq(Chars), NEW n \in 0..LineOf(b, Len(b))
  PROVE  /\ LineEnd(b, n) = IF n < LineOf(b, Len(b)) THEN LineStart(b, n + 1) - 1 ELSE Len(b)
         /\ \A p \in LineStart(b, n)..LineEnd(b, n) : LineOf(b, p) = n
  <1> DEFINE s == LineStart(b, n)
             e == LineEnd(b, n)
             m == LineOf(b, Len(b))
             S == {Len(b)} \cup {i \in s..(Len(b) - 1) : b[i + 1] = NL}
  <1>0. Len(b) \in Nat /\ m \in Nat /\ n \in Nat /\ n <= m
    BY LineBounds
  <1>1. s \in 0..Len(b) /\ e \in s..Len(b)
    BY StartBounds, EndBounds
  <1>2. e \in S /\ \A k \in S : e <= k
    <2>1. e = Min(S)
      BY DEF LineEnd, EndAfter
    <2>2. S \in SUBSET Nat /\ S # {}
      <3> HIDE DEF s, e
      <3>1. \A k \in s..(Len(b) - 1) : k \in Nat
        BY <1>0, <1>1
      <3> QED BY <1>0, <3>1
    <2> HIDE DEF S, e
    <2> QED BY <2>1, <2>2, LeastOf
  <1>3. LineOf(b, s) = n
    BY <1>0, StartIs
  <1> HIDE DEF s, e
  <1>4. \A p \in s..e : LineOf(b, p) = n
    <2> TAKE p \in s..e
    <2>1. \A i \in s..(p - 1) : b[i + 1] # NL
      <3> SUFFICES ASSUME NEW i \in s..(p - 1), b[i + 1] = NL PROVE FALSE
        OBVIOUS
      <3>1. i \in s..(Len(b) - 1) /\ ~(e <= i)
        BY <1>0, <1>1
      <3> QED BY <1>2, <3>1
    <2>2. s \in Nat /\ p \in Nat /\ s <= p
      BY <1>0, <1>1
    <2> HIDE DEF S, m
    <2> QED BY <1>3, <2>1, <2>2, LineStays
  <1>5. CASE e = Len(b)
    BY <1>0, <1>1, <1>4, <1>5 DEF s, e
  <1>6. CASE e # Len(b)
    <2>1. e \in 0..(Len(b) - 1) /\ b[e + 1] = NL
      BY <1>0, <1>1, <1>2, <1>6
    <2>2. LineOf(b, e) = n
      BY <1>0, <1>1, <1>4
    <2>3. LineOf(b, e + 1) = n + 1
      BY <2>1, <2>2, LineSteps
    <2>4. LineStart(b, n + 1) = e + 1
      BY <1>0, <2>1, <2>3, StartFound
    <2>5. n + 1 <= m
      BY <1>0, <2>1, <2>3, LinesGrow
    <2> QED BY <1>0, <1>4, <2>1, <2>4, <2>5 DEF s, e
  <1> QED BY <1>5, <1>6

\* A position is in its line, as many bytes behind its beginning as the column says.
LEMMA PositionIs ==
  ASSUME NEW b \in Seq(Chars), NEW p \in 0..Len(b)
  PROVE  /\ LineOf(b, p) \in 0..LineOf(b, Len(b))
         /\ ColOf(b, p) = p - LineStart(b, LineOf(b, p))
         /\ p \in LineStart(b, LineOf(b, p))..LineEnd(b, LineOf(b, p))
  <1> DEFINE n == LineOf(b, p)
             S == {0} \cup {i \in 1..p : b[i] = NL}
             j == Max(S)
  <1>0. Len(b) \in Nat /\ p \in Nat /\ \A q \in Nat : LineOf(b, q) \in 0..q
    BY LineBounds
  <1>1. n \in 0..LineOf(b, Len(b))
    BY <1>0, LinesGrow
  <1>2. j \in S /\ \A k \in S : k <= j
    <2>1. S \in SUBSET (0..p) /\ S # {}
      OBVIOUS
    <2> HIDE DEF S
    <2> QED BY <1>0, <2>1, GreatestOf
  <1>3. j \in 0..p /\ (j # 0 => b[j] = NL)
    BY <1>2
  <1>4. ColOf(b, p) = p - j
    BY DEF ColOf
  <1>5. LineOf(b, j) = n
    <2>1. \A i \in j..(p - 1) : b[i + 1] # NL
      <3> SUFFICES ASSUME NEW i \in j..(p - 1), b[i + 1] = NL PROVE FALSE
        OBVIOUS
      <3> HIDE DEF j
      <3>1. i + 1 \in 1..p /\ ~(i + 1 <= j)
        BY <1>0, <1>3
      <3>2. i + 1 \in S
        BY <3>1
      <3> HIDE DEF S
      <3> QED BY <1>2, <3>1, <3>2
    <2> HIDE DEF j
    <2> QED BY <1>0, <1>3, <2>1, LineStays
  <1> HIDE DEF S, j
  <1>6. LineStart(b, n) = j
    <2>1. CASE j = 0
      BY <1>0, <1>5, <2>1 DEF LineStart
    <2>2. CASE j # 0
      <3>1. j \in DOMAIN b
        BY <1>0, <1>3, <2>2
      <3> HIDE DEF n
      <3> QED BY <1>3, <1>5, <2>2, <3>1, StartFound
    <2> QED BY <2>1, <2>2
  <1>7. p <= LineEnd(b, n)
    <2>1. /\ LineEnd(b, n) = IF n < LineOf(b, Len(b)) THEN LineStart(b, n + 1) - 1 ELSE Len(b)
      BY <1>1, EndOfLine
    <2>2. CASE n < LineOf(b, Len(b))
      <3> DEFINE k == LineStart(b, n + 1)
      <3>0. n \in Nat /\ n + 1 \in 1..LineOf(b, Len(b))
        BY <1>0, <1>1, <2>2
      <3> HIDE DEF n
      <3>1. k \in DOMAIN b /\ LineOf(b, k) = n + 1
        BY <3>0, StartOfLine
      <3> HIDE DEF k
      <3>2. k \in Nat /\ (k <= p => LineOf(b, k) <= LineOf(b, p))
        BY <1>0, <3>1, LinesGrow
      <3>3. ~(k <= p)
        BY <3>0, <3>1, <3>2 DEF n
      <3> QED BY <1>0, <2>1, <2>2, <3>2, <3>3 DEF k
    <2>3. CASE ~(n < LineOf(b, Len(b)))
      BY <1>0, <2>1, <2>3
    <2> QED BY <2>2, <2>3
  <1>8. LineEnd(b, n) \in Nat
    BY StartBounds, EndBounds
  <1> QED BY <1>0, <1>1, <1>3, <1>4, <1>6, <1>7, <1>8

------------------------------------------------------------------------------
(* The lines of two texts put together *)

\* Each line is cut out of the text between its beginning and its end.
LEMMA LinesAre ==
  ASSUME NEW b \in Seq(Chars)
  PROVE  /\ LinesOf(b) \in Seq(Seq(Chars)) /\ Len(LinesOf(b)) = LineOf(b, Len(b)) + 1
         /\ \A n \in 0..LineOf(b, Len(b)) :
              /\ LinesOf(b)[n + 1] = SubSeq(b, LineStart(b, n) + 1, LineEnd(b, n))
              /\ Len(LinesOf(b)[n + 1]) = LineEnd(b, n) - LineStart(b, n)
  <1> DEFINE m == LineOf(b, Len(b))
  <1>0. Len(b) \in Nat /\ m \in Nat
    BY LineBounds
  <1>1. \A n : LineStart(b, n) \in 0..Len(b) /\ LineEnd(b, n) \in LineStart(b, n)..Len(b)
    BY StartBounds, EndBounds
  <1>2. ASSUME NEW s \in 0..Len(b), NEW e \in s..Len(b)
        PROVE  SubSeq(b, s + 1, e) \in Seq(Chars) /\ Len(SubSeq(b, s + 1, e)) = e - s
    OBVIOUS
  <1>3. \A n : /\ SubSeq(b, LineStart(b, n) + 1, LineEnd(b, n)) \in Seq(Chars)
               /\ Len(SubSeq(b, LineStart(b, n) + 1, LineEnd(b, n))) = LineEnd(b, n) - LineStart(b, n)
    BY <1>1, <1>2
  <1>4. LinesOf(b) = [n \in 1..(m + 1) |-> SubSeq(b, LineStart(b, n - 1) + 1, LineEnd(b, n - 1))]
    BY DEF LinesOf
  <1> HIDE DEF m
  <1>5. LinesOf(b) \in Seq(Seq(Chars)) /\ Len(LinesOf(b)) = m + 1
    BY <1>0, <1>3, <1>4
  <1>6. \A n \in 0..m : LinesOf(b)[n + 1] = SubSeq(b, LineStart(b, n) + 1, LineEnd(b, n))
    <2> TAKE n \in 0..m
    <2>1. n + 1 \in 1..(m + 1) /\ (n + 1) - 1 = n
      BY <1>0
    <2> QED BY <1>4, <2>1
  <1> QED BY <1>3, <1>5, <1>6 DEF m

\* Of the first part, everything stays where it was.
LEMMA FirstPart ==
  ASSUME NEW x \in Seq(Chars), NEW y \in Seq(Chars), NEW p \in 0..Len(x)
  PROVE  LineOf(x \o y, p) = LineOf(x, p) /\ ColOf(x \o y, p) = ColOf(x, p)
  <1>1. \A i \in 1..p : (x \o y)[i] = x[i]
    OBVIOUS
  <1> DEFINE b == x \o y
  <1> HIDE DEF b
  <1>2. {i \in 1..p : b[i] = NL} = {i \in 1..p : x[i] = NL}
    BY <1>1 DEF b
  <1> QED BY <1>2 DEF LineOf, ColOf, b

\* Of the second, everything moves down by the lines of the first.
LEMMA SecondPart ==
  ASSUME NEW x \in Seq(Chars), NEW y \in Seq(Chars), NEW p \in 0..Len(y)
  PROVE  LineOf(x \o y, Len(x) + p) = LineOf(x, Len(x)) + LineOf(y, p)
  <1> DEFINE b == x \o y
             P(k) == k <= Len(y) => LineOf(b, Len(x) + k) = LineOf(x, Len(x)) + LineOf(y, k)
             S == {k \in Nat : P(k)}
  <1>0. Len(x) \in Nat /\ Len(y) \in Nat /\ Len(b) = Len(x) + Len(y)
    OBVIOUS
  <1>1. \A i \in 1..Len(y) : b[Len(x) + i] = y[i]
    OBVIOUS
  <1>2. \A t, k : k \in Nat => LineOf(t, k) \in Nat
    BY LineBounds
  <1>3. LineOf(b, Len(x)) = LineOf(x, Len(x))
    BY <1>0, FirstPart
  <1> HIDE DEF b
  <1>4. 0 \in S
    <2>1. LineOf(y, 0) = 0
      BY LineBounds
    <2>2. Len(x) + 0 = Len(x) /\ LineOf(x, Len(x)) + 0 = LineOf(x, Len(x))
      BY <1>0, <1>2
    <2> DEFINE zero == 0
    <2>3. LineOf(b, Len(x) + zero) = LineOf(x, Len(x)) + LineOf(y, zero)
      BY <1>3, <2>1, <2>2
    <2> QED BY <2>3
  <1>5. ASSUME NEW k \in Nat, k \in S PROVE k + 1 \in S
    <2> SUFFICES ASSUME k + 1 <= Len(y)
                 PROVE  LineOf(b, Len(x) + (k + 1)) = LineOf(x, Len(x)) + LineOf(y, k + 1)
      OBVIOUS
    <2>1. LineOf(b, Len(x) + k) = LineOf(x, Len(x)) + LineOf(y, k)
      BY <1>0, <1>5
    <2>2. b[(Len(x) + k) + 1] = y[k + 1]
      <3>1. (Len(x) + k) + 1 = Len(x) + (k + 1) /\ k + 1 \in 1..Len(y)
        BY <1>0
      <3>2. b[Len(x) + (k + 1)] = y[k + 1]
        BY <1>1, <3>1
      <3> QED BY <3>1, <3>2
    <2>3. LineOf(b, (Len(x) + k) + 1) = IF b[(Len(x) + k) + 1] = NL
                                        THEN LineOf(b, Len(x) + k) + 1 ELSE LineOf(b, Len(x) + k)
      BY <1>0, LineSteps
    <2>4. LineOf(y, k + 1) = IF y[k + 1] = NL THEN LineOf(y, k) + 1 ELSE LineOf(y, k)
      BY LineSteps
    <2>5. (Len(x) + k) + 1 = Len(x) + (k + 1)
      BY <1>0
    <2>6. LineOf(x, Len(x)) \in Nat /\ LineOf(y, k) \in Nat
      BY <1>0, <1>2
    <2>7. CASE y[k + 1] = NL
      BY <2>1, <2>2, <2>3, <2>4, <2>5, <2>6, <2>7
    <2>8. CASE y[k + 1] # NL
      BY <2>1, <2>2, <2>3, <2>4, <2>5, <2>6, <2>8
    <2> QED BY <2>7, <2>8
  <1>6. Nat \subseteq S
    <2> HIDE DEF S
    <2> QED BY <1>4, <1>5, ReachesAll
  <1>7. P(p)
    BY <1>0, <1>6
  <1> QED BY <1>0, <1>7 DEF b

\* So the lines of both parts begin where they began, the second's moved along.
LEMMA StartsInParts ==
  ASSUME NEW x \in Seq(Chars), NEW y \in Seq(Chars)
  PROVE  /\ \A n \in 0..LineOf(x, Len(x)) : LineStart(x \o y, n) = LineStart(x, n)
         /\ \A n \in 1..LineOf(y, Len(y)) :
              LineStart(x \o y, LineOf(x, Len(x)) + n) = Len(x) + LineStart(y, n)
  <1> DEFINE b == x \o y
             m == LineOf(x, Len(x))
  <1>0. /\ Len(x) \in Nat /\ Len(y) \in Nat /\ Len(b) = Len(x) + Len(y) /\ b \in Seq(Chars)
        /\ m \in Nat /\ LineOf(y, Len(y)) \in Nat
    BY LineBounds
  <1>1. \A i \in 1..Len(x) : b[i] = x[i]
    OBVIOUS
  <1>2. \A i \in 1..Len(y) : b[Len(x) + i] = y[i]
    OBVIOUS
  <1>3. \A i \in 1..Len(x) : LineOf(b, i) = LineOf(x, i)
    BY FirstPart
  <1>4. \A i \in 1..Len(y) : LineOf(b, Len(x) + i) = m + LineOf(y, i)
    BY SecondPart
  <1> HIDE DEF b, m
  <1>5. ASSUME NEW n \in 0..m PROVE LineStart(b, n) = LineStart(x, n)
    <2>1. CASE n = 0
      BY <2>1 DEF LineStart
    <2>2. CASE n # 0
      <3> DEFINE i == LineStart(x, n)
      <3>1. i \in DOMAIN x /\ x[i] = NL /\ LineOf(x, i) = n
        <4>1. n \in 1..LineOf(x, Len(x))
          BY <1>0, <2>2 DEF m
        <4> QED BY <4>1, StartOfLine
      <3> HIDE DEF i
      <3>2. i \in 1..Len(x) /\ i \in DOMAIN b
        BY <1>0, <3>1
      <3>3. b[i] = NL /\ LineOf(b, i) = n
        BY <1>1, <1>3, <3>1, <3>2
      <3> QED BY <1>0, <3>2, <3>3, StartFound DEF i
    <2> QED BY <2>1, <2>2
  <1>6. ASSUME NEW n \in 1..LineOf(y, Len(y)) PROVE LineStart(b, m + n) = Len(x) + LineStart(y, n)
    <2> DEFINE i == LineStart(y, n)
    <2>1. i \in DOMAIN y /\ y[i] = NL /\ LineOf(y, i) = n
      BY StartOfLine
    <2> HIDE DEF i
    <2>2. i \in 1..Len(y) /\ Len(x) + i \in DOMAIN b
      BY <1>0, <2>1
    <2>3. b[Len(x) + i] = NL /\ LineOf(b, Len(x) + i) = m + n
      BY <1>2, <1>4, <2>1, <2>2
    <2> QED BY <1>0, <2>2, <2>3, StartFound DEF i
  <1> QED BY <1>5, <1>6 DEF b, m

\* What SubSeq returns of a range inside the sequence, an empty one included.
LEMMA CutIs ==
  ASSUME NEW S, NEW s \in Seq(S), NEW i \in 1..(Len(s) + 1), NEW j \in (i - 1)..Len(s)
  PROVE  /\ SubSeq(s, i, j) \in Seq(S) /\ Len(SubSeq(s, i, j)) = j - i + 1
         /\ \A k \in 1..(j - i + 1) : SubSeq(s, i, j)[k] = s[i + k - 1]
  <1>1. Len(s) \in Nat /\ i \in Int /\ j \in Int /\ \A k \in i..j : s[k] \in S
    OBVIOUS
  <1>2. (IF i <= j THEN j - i + 1 ELSE 0) = j - i + 1
    BY <1>1
  <1> QED BY <1>1, <1>2, SubSeqProperties

\* A cut of two texts put together is a cut of one of them, or of both.
LEMMA CutsOfParts ==
  ASSUME NEW x \in Seq(Chars), NEW y \in Seq(Chars)
  PROVE  /\ \A s \in 0..Len(x) : \A e \in s..Len(x) :
              SubSeq(x \o y, s + 1, e) = SubSeq(x, s + 1, e)
         /\ \A s \in 0..Len(y) : \A e \in s..Len(y) :
              SubSeq(x \o y, (Len(x) + s) + 1, Len(x) + e) = SubSeq(y, s + 1, e)
         /\ \A s \in 0..Len(x) : \A e \in 0..Len(y) :
              SubSeq(x \o y, s + 1, Len(x) + e) = SubSeq(x, s + 1, Len(x)) \o SubSeq(y, 1, e)
  <1>1. ASSUME NEW s \in 0..Len(x), NEW e \in s..Len(x)
        PROVE  SubSeq(x \o y, s + 1, e) = SubSeq(x, s + 1, e)
    OBVIOUS
  <1>2. ASSUME NEW s \in 0..Len(y), NEW e \in s..Len(y)
        PROVE  SubSeq(x \o y, (Len(x) + s) + 1, Len(x) + e) = SubSeq(y, s + 1, e)
    OBVIOUS
  <1>3. ASSUME NEW s \in 0..Len(x), NEW e \in 0..Len(y)
        PROVE  SubSeq(x \o y, s + 1, Len(x) + e) = SubSeq(x, s + 1, Len(x)) \o SubSeq(y, 1, e)
    <2> DEFINE b == x \o y
    <2>1. b \in Seq(Chars) /\ Len(b) = Len(x) + Len(y) /\ Len(x) \in Nat /\ Len(y) \in Nat
      OBVIOUS
    <2>2. SubSeq(b, s + 1, Len(x)) = SubSeq(x, s + 1, Len(x))
      BY <1>1, <2>1
    <2>3. SubSeq(b, (Len(x) + 0) + 1, Len(x) + e) = SubSeq(y, 0 + 1, e)
      BY <1>2, <2>1
    <2> HIDE DEF b
    <2>4. s + 1 \in 1..(Len(b) + 1) /\ Len(x) \in ((s + 1) - 1)..Len(b) /\ Len(x) + e \in Len(x)..Len(b)
      BY <2>1
    <2>5. SubSeq(b, s + 1, Len(x)) \o SubSeq(b, Len(x) + 1, Len(x) + e) = SubSeq(b, s + 1, Len(x) + e)
      BY <2>1, <2>4, ConcatAdjacentSubSeq
    <2>6. Len(x) + 0 = Len(x) /\ 0 + 1 = 1
      BY <2>1
    <2>7. SubSeq(b, Len(x) + 1, Len(x) + e) = SubSeq(y, 1, e)
      BY <2>3, <2>6
    <2> QED BY <2>2, <2>5, <2>7 DEF b
  <1> QED BY <1>1, <1>2, <1>3

\* Two sequences of lines, the last of the one and the first of the other made one.
Glue(V, W) ==
  SubSeq(V, 1, Len(V) - 1) \o <<V[Len(V)] \o W[1]>> \o SubSeq(W, 2, Len(W))

\* What glued sequences of lines hold, line by line.
LEMMA GlueIs ==
  ASSUME NEW V \in Seq(Seq(Chars)), NEW W \in Seq(Seq(Chars)), Len(V) > 0, Len(W) > 0
  PROVE  /\ Glue(V, W) \in Seq(Seq(Chars)) /\ Len(Glue(V, W)) = Len(V) + Len(W) - 1
         /\ \A n \in 1..(Len(V) - 1) : Glue(V, W)[n] = V[n]
         /\ Glue(V, W)[Len(V)] = V[Len(V)] \o W[1]
         /\ \A n \in 2..Len(W) : Glue(V, W)[Len(V) - 1 + n] = W[n]
  <1> DEFINE T == Seq(Chars)
             A == SubSeq(V, 1, Len(V) - 1)
             l == V[Len(V)] \o W[1]
             B == SubSeq(W, 2, Len(W))
  <1>1. l \in T
    <2>1. V[Len(V)] \in T /\ W[1] \in T
      OBVIOUS
    <2> QED BY <2>1, Joined
  <1>0. V \in Seq(T) /\ W \in Seq(T) /\ Len(V) \in Nat /\ Len(W) \in Nat
    OBVIOUS
  <1>2. A \in Seq(T) /\ Len(A) = Len(V) - 1 /\ \A n \in 1..(Len(V) - 1) : A[n] = V[n]
    <2> HIDE DEF T
    <2>1. 1 \in 1..(Len(V) + 1) /\ Len(V) - 1 \in (1 - 1)..Len(V) /\ (Len(V) - 1) - 1 + 1 = Len(V) - 1
      BY <1>0
    <2>2. \A k \in 1..(Len(V) - 1) : 1 + k - 1 = k
      BY <1>0
    <2> QED BY <1>0, <2>1, <2>2, CutIs
  <1>3. B \in Seq(T) /\ Len(B) = Len(W) - 1 /\ \A n \in 2..Len(W) : B[n - 1] = W[n]
    <2> HIDE DEF T
    <2>1. 2 \in 1..(Len(W) + 1) /\ Len(W) \in (2 - 1)..Len(W) /\ Len(W) - 2 + 1 = Len(W) - 1
      BY <1>0
    <2>2. \A n \in 2..Len(W) : n - 1 \in 1..(Len(W) - 1) /\ 2 + (n - 1) - 1 = n
      BY <1>0
    <2>3. B \in Seq(T) /\ Len(B) = Len(W) - 1 /\ \A k \in 1..(Len(W) - 1) : B[k] = W[2 + k - 1]
      BY <1>0, <2>1, CutIs
    <2> HIDE DEF B
    <2> QED BY <2>2, <2>3
  <1>4. Glue(V, W) = A \o <<l>> \o B
    BY DEF Glue
  <1>5. Len(V) \in Nat /\ Len(W) \in Nat
    OBVIOUS
  <1> HIDE DEF T, A, l, B
  <1> DEFINE C == A \o <<l>>
  <1>6. C \in Seq(T) /\ Len(C) = Len(V) /\ (\A n \in 1..(Len(V) - 1) : C[n] = A[n]) /\ C[Len(V)] = l
    <2>1. <<l>> \in Seq(T) /\ Len(<<l>>) = 1 /\ <<l>>[1] = l
      BY <1>1
    <2>2. /\ C \in Seq(T) /\ Len(C) = Len(A) + 1
          /\ \A i \in 1..(Len(A) + 1) : C[i] = IF i <= Len(A) THEN A[i] ELSE <<l>>[i - Len(A)]
      BY <1>2, <2>1, ConcatProperties
    <2> HIDE DEF C
    <2>3. Len(V) \in 1..(Len(A) + 1) /\ ~(Len(V) <= Len(A)) /\ Len(V) - Len(A) = 1
      BY <1>2, <1>5
    <2>4. \A n \in 1..(Len(V) - 1) : n \in 1..(Len(A) + 1) /\ n <= Len(A)
      BY <1>2, <1>5
    <2>5. Len(A) + 1 = Len(V)
      BY <1>2, <1>5
    <2> QED BY <2>1, <2>2, <2>3, <2>4, <2>5
  <1>7. Glue(V, W) = C \o B
    BY <1>4
  <1> HIDE DEF C
  <1>8. /\ Glue(V, W) \in Seq(T) /\ Len(Glue(V, W)) = Len(V) + (Len(W) - 1)
        /\ \A n \in 1..Len(V) : Glue(V, W)[n] = C[n]
        /\ \A n \in 1..(Len(W) - 1) : Glue(V, W)[Len(V) + n] = B[n]
    <2> DEFINE D == C \o B
    <2>0. /\ D \in Seq(T) /\ Len(D) = Len(C) + Len(B)
          /\ \A i \in 1..(Len(C) + Len(B)) : D[i] = IF i <= Len(C) THEN C[i] ELSE B[i - Len(C)]
      <3>1. C \in Seq(T) /\ B \in Seq(T)
        BY <1>3, <1>6
      <3> QED BY <3>1, ConcatProperties DEF D
    <2> HIDE DEF D
    <2>1. /\ D \in Seq(T) /\ Len(D) = Len(V) + (Len(W) - 1)
          /\ \A i \in 1..(Len(V) + (Len(W) - 1)) : D[i] = IF i <= Len(V) THEN C[i] ELSE B[i - Len(V)]
      BY <1>3, <1>6, <2>0
    <2>2. \A n \in 1..Len(V) : n \in 1..(Len(V) + (Len(W) - 1)) /\ n <= Len(V)
      BY <1>5
    <2>3. \A n \in 1..(Len(W) - 1) : /\ Len(V) + n \in 1..(Len(V) + (Len(W) - 1))
                                     /\ ~(Len(V) + n <= Len(V)) /\ Len(V) + n - Len(V) = n
      BY <1>5
    <2>4. Glue(V, W) = D
      BY <1>7 DEF D
    <2>5. \A n \in 1..Len(V) : D[n] = C[n]
      BY <2>1, <2>2
    <2>6. \A n \in 1..(Len(W) - 1) : D[Len(V) + n] = B[n]
      BY <2>1, <2>3
    <2> QED BY <2>1, <2>4, <2>5, <2>6
  <1>9. \A n \in 2..Len(W) : Glue(V, W)[Len(V) - 1 + n] = W[n]
    <2> TAKE n \in 2..Len(W)
    <2>1. n - 1 \in 1..(Len(W) - 1) /\ Len(V) + (n - 1) = Len(V) - 1 + n
      BY <1>5
    <2>2. Glue(V, W)[Len(V) + (n - 1)] = B[n - 1]
      BY <1>8, <2>1
    <2> QED BY <1>3, <2>1, <2>2
  <1>10. \A n \in 1..(Len(V) - 1) : Glue(V, W)[n] = V[n]
    <2>1. \A n \in 1..(Len(V) - 1) : n \in 1..Len(V)
      BY <1>5
    <2> QED BY <1>2, <1>6, <1>8, <2>1
  <1>11. Glue(V, W)[Len(V)] = l
    <2>1. Len(V) \in 1..Len(V)
      BY <1>5
    <2> QED BY <1>6, <1>8, <2>1
  <1> QED BY <1>5, <1>8, <1>9, <1>10, <1>11 DEF T, l

\* Putting texts together glues the last line of one to the first of the other.
LEMMA LinesOfBoth ==
  ASSUME NEW x \in Seq(Chars), NEW y \in Seq(Chars)
  PROVE  LinesOf(x \o y) = Glue(LinesOf(x), LinesOf(y))
  <1> DEFINE b == x \o y
             V == LinesOf(x)
             W == LinesOf(y)
             m == LineOf(x, Len(x))
             q == LineOf(y, Len(y))
  <1>0. /\ Len(x) \in Nat /\ Len(y) \in Nat /\ Len(b) = Len(x) + Len(y) /\ b \in Seq(Chars)
        /\ m \in Nat /\ q \in Nat
    BY LineBounds
  <1>1. LineOf(b, Len(b)) = m + q
    BY <1>0, SecondPart
  <1>2. /\ \A n \in 0..m : LineStart(b, n) = LineStart(x, n)
        /\ \A n \in 1..q : LineStart(b, m + n) = Len(x) + LineStart(y, n)
    BY StartsInParts
  <1>3. /\ \A n \in 0..m : LineEnd(x, n) = IF n < m THEN LineStart(x, n + 1) - 1 ELSE Len(x)
        /\ \A n \in 0..q : LineEnd(y, n) = IF n < q THEN LineStart(y, n + 1) - 1 ELSE Len(y)
        /\ \A n \in 0..(m + q) :
             LineEnd(b, n) = IF n < m + q THEN LineStart(b, n + 1) - 1 ELSE Len(b)
    BY <1>0, <1>1, EndOfLine
  <1>4. /\ \A n : LineStart(x, n) \in 0..Len(x) /\ LineEnd(x, n) \in LineStart(x, n)..Len(x)
        /\ \A n : LineStart(y, n) \in 0..Len(y) /\ LineEnd(y, n) \in LineStart(y, n)..Len(y)
    BY StartBounds, EndBounds
  <1>5. /\ V \in Seq(Seq(Chars)) /\ Len(V) = m + 1
        /\ W \in Seq(Seq(Chars)) /\ Len(W) = q + 1
        /\ LinesOf(b) \in Seq(Seq(Chars)) /\ Len(LinesOf(b)) = (m + q) + 1
    BY <1>0, <1>1, LinesAre
  <1>6. /\ \A n \in 0..m : V[n + 1] = SubSeq(x, LineStart(x, n) + 1, LineEnd(x, n))
        /\ \A n \in 0..q : W[n + 1] = SubSeq(y, LineStart(y, n) + 1, LineEnd(y, n))
        /\ \A n \in 0..(m + q) : LinesOf(b)[n + 1] = SubSeq(b, LineStart(b, n) + 1, LineEnd(b, n))
    BY <1>0, <1>1, LinesAre
  <1>7. LineStart(y, 0) = 0
    BY DEF LineStart
  <1>8. /\ \A s \in 0..Len(x) : \A e \in s..Len(x) :
              SubSeq(b, s + 1, e) = SubSeq(x, s + 1, e)
        /\ \A s \in 0..Len(y) : \A e \in s..Len(y) :
              SubSeq(b, (Len(x) + s) + 1, Len(x) + e) = SubSeq(y, s + 1, e)
        /\ \A s \in 0..Len(x) : \A e \in 0..Len(y) :
              SubSeq(b, s + 1, Len(x) + e) = SubSeq(x, s + 1, Len(x)) \o SubSeq(y, 1, e)
    BY CutsOfParts
  <1> HIDE DEF b, V, W, m, q
  <1>9. \A n \in 0..(m - 1) : LinesOf(b)[n + 1] = V[n + 1]
    <2> TAKE n \in 0..(m - 1)
    <2>1. n \in 0..m /\ n + 1 \in 0..m /\ n \in 0..(m + q) /\ n < m /\ n < m + q
      BY <1>0
    <2>2. LineStart(b, n) = LineStart(x, n) /\ LineEnd(b, n) = LineEnd(x, n)
      <3>1. LineEnd(b, n) = LineStart(b, n + 1) - 1 /\ LineEnd(x, n) = LineStart(x, n + 1) - 1
        BY <1>3, <2>1
      <3> QED BY <1>2, <2>1, <3>1
    <2>3. LineStart(x, n) \in 0..Len(x) /\ LineEnd(x, n) \in LineStart(x, n)..Len(x)
      BY <1>4
    <2>4. SubSeq(b, LineStart(x, n) + 1, LineEnd(x, n)) = SubSeq(x, LineStart(x, n) + 1, LineEnd(x, n))
      BY <1>8, <2>3
    <2> QED BY <1>6, <2>1, <2>2, <2>4
  <1>10. LinesOf(b)[m + 1] = V[m + 1] \o W[1]
    <2>1. m \in 0..m /\ m \in 0..(m + q) /\ 0 \in 0..q
      BY <1>0
    <2>2. LineEnd(b, m) = Len(x) + LineEnd(y, 0)
      <3>1. CASE q = 0
        <4>1. ~(m < m + q) /\ ~(0 < q)
          BY <1>0, <3>1
        <4>2. LineEnd(b, m) = Len(b) /\ LineEnd(y, 0) = Len(y)
          BY <1>3, <2>1, <4>1
        <4> QED BY <1>0, <4>2
      <3>2. CASE q # 0
        <4>1. 0 < q /\ m < m + q /\ 1 \in 1..q /\ 0 + 1 = 1
          BY <1>0, <3>2
        <4>2. LineEnd(y, 0) = LineStart(y, 1) - 1 /\ LineEnd(b, m) = LineStart(b, m + 1) - 1
          BY <1>3, <2>1, <4>1
        <4> QED BY <1>0, <1>2, <1>4, <4>1, <4>2
      <3> QED BY <3>1, <3>2
    <2>3. LinesOf(b)[m + 1] = SubSeq(b, LineStart(x, m) + 1, Len(x) + LineEnd(y, 0))
      BY <1>2, <1>6, <2>1, <2>2
    <2>4. V[m + 1] = SubSeq(x, LineStart(x, m) + 1, Len(x))
      BY <1>0, <1>3, <1>6, <2>1
    <2>5. W[1] = SubSeq(y, 1, LineEnd(y, 0))
      <3>1. W[0 + 1] = SubSeq(y, LineStart(y, 0) + 1, LineEnd(y, 0))
        BY <1>6, <2>1
      <3> QED BY <1>7, <3>1
    <2>6. LineStart(x, m) \in 0..Len(x) /\ LineEnd(y, 0) \in 0..Len(y)
      BY <1>4, <1>7
    <2> QED BY <1>8, <2>3, <2>4, <2>5, <2>6
  <1>11. \A n \in 1..q : LinesOf(b)[(m + n) + 1] = W[n + 1]
    <2> TAKE n \in 1..q
    <2>1. n \in 0..q /\ m + n \in 0..(m + q) /\ (m + n < m + q <=> n < q)
      BY <1>0
    <2>2. LineStart(b, m + n) = Len(x) + LineStart(y, n)
      BY <1>2
    <2>3. LineEnd(b, m + n) = Len(x) + LineEnd(y, n)
      <3>1. CASE n < q
        <4>1. n + 1 \in 1..q /\ (m + n) + 1 = m + (n + 1)
          BY <1>0, <3>1
        <4>2. LineStart(b, m + (n + 1)) = Len(x) + LineStart(y, n + 1)
          BY <1>2, <4>1
        <4>3. LineEnd(y, n) = LineStart(y, n + 1) - 1
          BY <1>3, <2>1, <3>1
        <4>4. LineEnd(b, m + n) = LineStart(b, (m + n) + 1) - 1
          BY <1>3, <2>1, <3>1
        <4> QED BY <1>0, <1>4, <4>1, <4>2, <4>3, <4>4
      <3>2. CASE ~(n < q)
        BY <1>0, <1>3, <2>1, <3>2
      <3> QED BY <3>1, <3>2
    <2>4. LinesOf(b)[(m + n) + 1] = SubSeq(b, (Len(x) + LineStart(y, n)) + 1, Len(x) + LineEnd(y, n))
      BY <1>6, <2>1, <2>2, <2>3
    <2>5. LineStart(y, n) \in 0..Len(y) /\ LineEnd(y, n) \in LineStart(y, n)..Len(y)
      BY <1>4
    <2> QED BY <1>6, <1>8, <2>1, <2>4, <2>5
  <1> DEFINE G == Glue(V, W)
  <1>12. /\ G \in Seq(Seq(Chars)) /\ Len(G) = Len(V) + Len(W) - 1
         /\ \A n \in 1..(Len(V) - 1) : G[n] = V[n]
         /\ G[Len(V)] = V[Len(V)] \o W[1]
         /\ \A n \in 2..Len(W) : G[Len(V) - 1 + n] = W[n]
    <2>1. Len(V) > 0 /\ Len(W) > 0
      BY <1>0, <1>5
    <2> QED BY <1>5, <2>1, GlueIs
  <1> HIDE DEF G
  <1>13. \A k \in 1..Len(LinesOf(b)) : LinesOf(b)[k] = G[k]
    <2> TAKE k \in 1..Len(LinesOf(b))
    <2>0. k \in 1..((m + q) + 1)
      BY <1>5
    <2>1. CASE k <= m
      <3>1. k - 1 \in 0..(m - 1) /\ (k - 1) + 1 = k /\ k \in 1..(Len(V) - 1)
        BY <1>0, <1>5, <2>0, <2>1
      <3>2. LinesOf(b)[(k - 1) + 1] = V[(k - 1) + 1]
        BY <1>9, <3>1
      <3> QED BY <1>12, <3>1, <3>2
    <2>2. CASE k = m + 1
      BY <1>5, <1>10, <1>12, <2>2
    <2>3. CASE k > m + 1
      <3>1. k - m - 1 \in 1..q /\ (m + (k - m - 1)) + 1 = k /\ (k - m - 1) + 1 = k - m
            /\ k - m \in 2..Len(W) /\ Len(V) - 1 + (k - m) = k
        BY <1>0, <1>5, <2>0, <2>3
      <3>2. LinesOf(b)[(m + (k - m - 1)) + 1] = W[(k - m - 1) + 1]
        BY <1>11, <3>1
      <3>3. G[Len(V) - 1 + (k - m)] = W[k - m]
        BY <1>12, <3>1
      <3> QED BY <3>1, <3>2, <3>3
    <2> QED BY <1>0, <2>0, <2>1, <2>2, <2>3
  <1>14. Len(LinesOf(b)) = Len(G)
    BY <1>0, <1>5, <1>12
  <1> QED BY <1>5, <1>12, <1>13, <1>14, SeqEqual DEF G, b, V, W

------------------------------------------------------------------------------
(* The lines around the cursor *)

\* Two sequences put together, and taken apart again.
LEMMA PartsAre ==
  ASSUME NEW S, NEW f \in Seq(S), NEW g \in Seq(S)
  PROVE  /\ f \o g \in Seq(S) /\ Len(f \o g) = Len(f) + Len(g)
         /\ \A n \in 1..Len(f) : (f \o g)[n] = f[n]
         /\ \A n \in 1..Len(g) : (f \o g)[Len(f) + n] = g[n]
         /\ SubSeq(f \o g, 1, Len(f)) = f
         /\ SubSeq(f \o g, Len(f) + 1, Len(f \o g)) = g
  <1> DEFINE h == f \o g
  <1>1. /\ h \in Seq(S) /\ Len(h) = Len(f) + Len(g)
        /\ \A i \in 1..(Len(f) + Len(g)) : h[i] = IF i <= Len(f) THEN f[i] ELSE g[i - Len(f)]
    BY ConcatProperties
  <1>2. Len(f) \in Nat /\ Len(g) \in Nat
    OBVIOUS
  <1> HIDE DEF h
  <1>3. \A n \in 1..Len(f) : h[n] = f[n]
    <2>1. \A n \in 1..Len(f) : n \in 1..(Len(f) + Len(g)) /\ n <= Len(f)
      BY <1>2
    <2> QED BY <1>1, <2>1
  <1>4. \A n \in 1..Len(g) : h[Len(f) + n] = g[n]
    <2>1. \A n \in 1..Len(g) : /\ Len(f) + n \in 1..(Len(f) + Len(g)) /\ ~(Len(f) + n <= Len(f))
                               /\ Len(f) + n - Len(f) = n
      BY <1>2
    <2> QED BY <1>1, <2>1
  <1>5. SubSeq(h, 1, Len(f)) = f
    <2> DEFINE k == SubSeq(h, 1, Len(f))
    <2>1. 1 \in 1..(Len(h) + 1) /\ Len(f) \in (1 - 1)..Len(h) /\ Len(f) - 1 + 1 = Len(f)
      BY <1>1, <1>2
    <2>2. k \in Seq(S) /\ Len(k) = Len(f) /\ \A n \in 1..Len(f) : k[n] = h[1 + n - 1]
      BY <1>1, <2>1, CutIs
    <2> HIDE DEF k
    <2>3. \A n \in 1..Len(f) : 1 + n - 1 = n
      BY <1>2
    <2>4. \A n \in 1..Len(k) : k[n] = f[n]
      BY <1>3, <2>2, <2>3
    <2>5. k = f
      BY <2>2, <2>4, SeqEqual
    <2> QED BY <2>5 DEF k
  <1>6. SubSeq(h, Len(f) + 1, Len(h)) = g
    <2> DEFINE k == SubSeq(h, Len(f) + 1, Len(h))
    <2>1. /\ Len(f) + 1 \in 1..(Len(h) + 1) /\ Len(h) \in ((Len(f) + 1) - 1)..Len(h)
          /\ Len(h) - (Len(f) + 1) + 1 = Len(g)
      BY <1>1, <1>2
    <2>2. k \in Seq(S) /\ Len(k) = Len(g) /\ \A n \in 1..Len(g) : k[n] = h[(Len(f) + 1) + n - 1]
      BY <1>1, <2>1, CutIs
    <2> HIDE DEF k
    <2>3. \A n \in 1..Len(g) : (Len(f) + 1) + n - 1 = Len(f) + n
      BY <1>2
    <2>4. \A n \in 1..Len(k) : k[n] = g[n]
      BY <1>4, <2>2, <2>3
    <2>5. k = g
      BY <2>2, <2>4, SeqEqual
    <2> QED BY <2>5 DEF k
  <1> QED BY <1>1, <1>3, <1>4, <1>5, <1>6 DEF h

\* The sequence of one element.
LEMMA OneIs ==
  ASSUME NEW S, NEW l \in S
  PROVE  <<l>> \in Seq(S) /\ Len(<<l>>) = 1 /\ <<l>>[1] = l
  OBVIOUS

\* A sequence taken apart around one of its elements.
LEMMA AroundIs ==
  ASSUME NEW S, NEW A \in Seq(S), NEW l \in S, NEW B \in Seq(S),
         NEW t, t = A \o <<l>> \o B
  PROVE  /\ t \in Seq(S) /\ Len(t) = Len(A) + 1 + Len(B)
         /\ \A n \in 1..Len(A) : t[n] = A[n]
         /\ t[Len(A) + 1] = l
         /\ \A n \in 1..Len(B) : t[Len(A) + 1 + n] = B[n]
         /\ SubSeq(t, 1, Len(A)) = A
         /\ SubSeq(t, Len(A) + 1 + 1, Len(t)) = B
  <1> DEFINE C == A \o <<l>>
  <1>0. Len(A) \in Nat /\ Len(B) \in Nat
    OBVIOUS
  <1>1. /\ C \in Seq(S) /\ Len(C) = Len(A) + 1 /\ C[Len(A) + 1] = l
        /\ \A n \in 1..Len(A) : C[n] = A[n]
    <2>1. <<l>> \in Seq(S) /\ Len(<<l>>) = 1 /\ <<l>>[1] = l
      BY OneIs
    <2>2. 1 \in 1..Len(<<l>>)
      BY <2>1
    <2> QED BY <2>1, <2>2, PartsAre
  <1>2. SubSeq(t, 1, Len(A)) = A
    <2>1. <<l>> \o B \in Seq(S)
      BY OneIs, PartsAre
    <2>2. t = A \o (<<l>> \o B)
      BY OneIs, ConcatAssociative
    <2>3. SubSeq(A \o (<<l>> \o B), 1, Len(A)) = A
      BY <2>1, PartsAre
    <2> QED BY <2>2, <2>3
  <1>6. t = C \o B
    OBVIOUS
  <1> HIDE DEF C
  <1>3. /\ t \in Seq(S) /\ Len(t) = Len(C) + Len(B)
        /\ \A n \in 1..Len(C) : t[n] = C[n]
        /\ \A n \in 1..Len(B) : t[Len(C) + n] = B[n]
        /\ SubSeq(t, Len(C) + 1, Len(t)) = B
    <2>1. C \in Seq(S)
      BY <1>1
    <2>2. /\ C \o B \in Seq(S) /\ Len(C \o B) = Len(C) + Len(B)
          /\ \A n \in 1..Len(C) : (C \o B)[n] = C[n]
          /\ \A n \in 1..Len(B) : (C \o B)[Len(C) + n] = B[n]
          /\ SubSeq(C \o B, Len(C) + 1, Len(C \o B)) = B
      BY <2>1, PartsAre
    <2> QED BY <1>6, <2>2
  <1>4. Len(A) + 1 \in 1..Len(C) /\ \A n \in 1..Len(A) : n \in 1..Len(C)
    BY <1>0, <1>1
  <1>5. t[Len(A) + 1] = l /\ \A n \in 1..Len(A) : t[n] = A[n]
    BY <1>1, <1>3, <1>4
  <1> QED BY <1>1, <1>2, <1>3, <1>5

\* Glued are the lines at the joint, whatever stands above and below.
LEMMA GluesAround ==
  ASSUME NEW A \in Seq(Seq(Chars)), NEW f \in Seq(Chars),
         NEW g \in Seq(Chars), NEW B \in Seq(Seq(Chars))
  PROVE  Glue(A \o <<f>>, <<g>> \o B) = A \o <<f \o g>> \o B
  <1> DEFINE T == Seq(Chars)
             V == A \o <<f>>
             W == <<g>> \o B
  <1>0. A \in Seq(T) /\ B \in Seq(T) /\ <<f>> \in Seq(T) /\ <<g>> \in Seq(T) /\ Len(A) \in Nat
        /\ Len(<<f>>) = 1 /\ <<f>>[1] = f /\ Len(<<g>>) = 1 /\ <<g>>[1] = g
    OBVIOUS
  <1> HIDE DEF T
  <1>1. Len(V) = Len(A) + 1 /\ V[Len(A) + 1] = f /\ SubSeq(V, 1, Len(A)) = A
    <2>1. 1 \in 1..Len(<<f>>)
      BY <1>0
    <2> QED BY <1>0, <2>1, PartsAre
  <1>2. W[1] = g /\ SubSeq(W, 2, Len(W)) = B
    <2>1. 1 \in 1..Len(<<g>>) /\ Len(<<g>>) + 1 = 2
      BY <1>0
    <2> QED BY <1>0, <2>1, PartsAre
  <1>3. Len(V) - 1 = Len(A)
    BY <1>0, <1>1
  <1> QED BY <1>1, <1>2, <1>3 DEF Glue, V, W

\* The empty sequence adds nothing at either side.
LEMMA NothingAdds ==
  ASSUME NEW S, NEW s \in Seq(S)
  PROVE  s \o <<>> = s /\ <<>> \o s = s /\ <<>> \in Seq(S)
  BY ConcatEmptySeq

\* Every text has a last line and a first.
LEMMA LinesHaveEnds ==
  ASSUME NEW b \in Seq(Chars)
  PROVE  /\ \E A \in Seq(Seq(Chars)), f \in Seq(Chars) : LinesOf(b) = A \o <<f>>
         /\ \E g \in Seq(Chars), B \in Seq(Seq(Chars)) : LinesOf(b) = <<g>> \o B
  <1> DEFINE T == Seq(Chars)
             V == LinesOf(b)
  <1>1. V \in Seq(T) /\ Len(V) \in Nat /\ Len(V) # 0
    BY LinesAre, LineBounds
  <1> HIDE DEF T, V
  <1>2. 1 \in 1..Len(V) /\ Len(V) \in 1..Len(V) /\ V[1] \in T /\ V[Len(V)] \in T
    BY <1>1
  <1>3. SubSeq(V, 1, Len(V)) = V
    BY <1>1, SubSeqFull
  <1>4. V = <<V[1]>> \o SubSeq(V, 1 + 1, Len(V))
    BY <1>1, <1>2, <1>3, SubSeqRecursiveFirst
  <1>5. V = SubSeq(V, 1, Len(V) - 1) \o <<V[Len(V)]>>
    BY <1>1, <1>2, <1>3, SubSeqRecursiveSecond
  <1>6. SubSeq(V, 1 + 1, Len(V)) \in Seq(T)
    <2>1. 1 + 1 \in 1..(Len(V) + 1) /\ Len(V) \in ((1 + 1) - 1)..Len(V)
      BY <1>1
    <2> QED BY <1>1, <2>1, CutIs
  <1>7. SubSeq(V, 1, Len(V) - 1) \in Seq(T)
    <2>1. 1 \in 1..(Len(V) + 1) /\ Len(V) - 1 \in (1 - 1)..Len(V)
      BY <1>1
    <2> QED BY <1>1, <2>1, CutIs
  <1> QED BY <1>2, <1>4, <1>5, <1>6, <1>7 DEF T, V

\* A text without a newline is one line.
LEMMA OneLine ==
  ASSUME NEW b \in Seq(Chars), LineOf(b, Len(b)) = 0
  PROVE  LinesOf(b) = <<b>>
  <1> DEFINE n == 0
             m == LineOf(b, Len(b))
  <1>1. n \in 0..m /\ ~(n < m) /\ LineStart(b, n) = 0 /\ n + 1 = 1 /\ 0 + 1 = 1
    BY DEF LineStart
  <1> HIDE DEF n
  <1>2. LineEnd(b, n) = Len(b)
    BY <1>1, EndOfLine
  <1>3. /\ LinesOf(b)[n + 1] = SubSeq(b, LineStart(b, n) + 1, LineEnd(b, n))
        /\ LinesOf(b) \in Seq(Seq(Chars)) /\ Len(LinesOf(b)) = m + 1
    BY <1>1, LinesAre
  <1>4. SubSeq(b, 1, Len(b)) = b
    BY SubSeqFull
  <1>5. LinesOf(b)[1] = b /\ Len(LinesOf(b)) = 1
    BY <1>1, <1>2, <1>3, <1>4
  <1> QED BY <1>3, <1>5

\* The lines of a byte, and of the empty buffer the editor is opened on.
LEMMA LinesOfOne ==
  /\ \A c \in Letters : LinesOf(<<c>>) = << <<c>> >>
  /\ LinesOf(<<NL>>) = << <<>> >> \o << <<>> >>
  /\ LinesOf(<<>>) = << <<>> >>
  <1>0. \A b : LineOf(b, 0) = 0
    BY LineBounds
  <1>1. ASSUME NEW c \in Letters PROVE LinesOf(<<c>>) = << <<c>> >>
    <2> DEFINE b == <<c>>
    <2>1. b \in Seq(Chars) /\ Len(b) = 1 /\ b[1] # NL
      BY EditorAssumption, OneIs DEF Chars
    <2> HIDE DEF b
    <2>2. LineOf(b, 1) = 0
      <3> DEFINE n == 0
      <3>1. n \in Nat /\ n + 1 = 1 /\ LineOf(b, n) = 0
        BY <1>0
      <3> HIDE DEF n
      <3>2. LineOf(b, n + 1) = IF b[n + 1] = NL THEN LineOf(b, n) + 1 ELSE LineOf(b, n)
        BY <3>1, LineSteps
      <3> QED BY <2>1, <3>1, <3>2
    <2>3. LinesOf(b) = <<b>>
      BY <2>1, <2>2, OneLine
    <2> QED BY <2>3 DEF b
  <1>2. LinesOf(<<NL>>) = << <<>> >> \o << <<>> >>
    <2> DEFINE b == <<NL>>
    <2>1. b \in Seq(Chars) /\ Len(b) = 1 /\ b[1] = NL /\ 1 \in DOMAIN b
      BY DEF Chars
    <2>2. SubSeq(b, 1, 0) = <<>> /\ SubSeq(b, 2, 1) = <<>>
      OBVIOUS
    <2> HIDE DEF b
    <2> DEFINE n == 0
               l == 1
    <2>3. n \in Nat /\ n + 1 = l /\ l + 1 = 2 /\ n < l /\ ~(l < l) /\ l \in Nat /\ LineOf(b, n) = 0
          /\ LineStart(b, n) = 0 /\ l \in DOMAIN b /\ b[l] = NL /\ Len(b) = l
      BY <1>0, <2>1 DEF LineStart
    <2>4. LineOf(b, l) = l
      <3> HIDE DEF n, l
      <3>1. LineOf(b, n + 1) = IF b[n + 1] = NL THEN LineOf(b, n) + 1 ELSE LineOf(b, n)
        BY <2>3, LineSteps
      <3>2. LineOf(b, l) = 0 + 1
        BY <2>3, <3>1
      <3> QED BY <3>2 DEF l
    <2>5. l \in 0..LineOf(b, Len(b)) /\ n \in 0..LineOf(b, Len(b))
      BY <2>3, <2>4
    <2> HIDE DEF n, l
    <2>6. LineStart(b, l) = l
      <3>1. LineStart(b, LineOf(b, l)) = l
        BY <2>1, <2>3, StartFound
      <3> QED BY <2>4, <3>1
    <2>7. LineEnd(b, n) = l - 1 /\ LineEnd(b, l) = l
      <3>1. LineEnd(b, n) = IF n < LineOf(b, Len(b)) THEN LineStart(b, n + 1) - 1 ELSE Len(b)
        BY <2>1, <2>5, EndOfLine
      <3>2. LineEnd(b, l) = IF l < LineOf(b, Len(b)) THEN LineStart(b, l + 1) - 1 ELSE Len(b)
        BY <2>1, <2>5, EndOfLine
      <3> QED BY <2>3, <2>4, <2>6, <3>1, <3>2
    <2>8. /\ LinesOf(b)[n + 1] = SubSeq(b, LineStart(b, n) + 1, LineEnd(b, n))
          /\ LinesOf(b)[l + 1] = SubSeq(b, LineStart(b, l) + 1, LineEnd(b, l))
          /\ LinesOf(b) \in Seq(Seq(Chars)) /\ Len(LinesOf(b)) = LineOf(b, Len(b)) + 1
      BY <2>1, <2>5, LinesAre
    <2> DEFINE e == <<>>
    <2>9. /\ LinesOf(b)[1] = e /\ LinesOf(b)[2] = e /\ Len(LinesOf(b)) = 2
      BY <2>2, <2>3, <2>4, <2>6, <2>7, <2>8 DEF l
    <2> HIDE DEF e
    <2>10. LinesOf(b) = <<e>> \o <<e>>
      <3> DEFINE T == Seq(Chars)
                 t == <<e>> \o <<e>>
      <3>1. e \in T
        BY DEF e
      <3> HIDE DEF T
      <3>2. <<e>> \in Seq(T) /\ Len(<<e>>) = 1 /\ <<e>>[1] = e /\ 1 \in 1..Len(<<e>>)
        BY <3>1, OneIs
      <3>3. t \in Seq(T) /\ Len(t) = 1 + 1 /\ t[1] = e /\ t[1 + 1] = e
        BY <3>2, PartsAre
      <3> HIDE DEF t
      <3>4. \A i \in 1..Len(LinesOf(b)) : LinesOf(b)[i] = t[i]
        BY <2>9, <3>3
      <3>5. LinesOf(b) \in Seq(T) /\ Len(LinesOf(b)) = Len(t)
        <4>1. LinesOf(b) \in Seq(T)
          BY <2>8 DEF T
        <4>2. Len(LinesOf(b)) = Len(t)
          BY <2>9, <3>3
        <4> QED BY <4>1, <4>2
      <3>6. LinesOf(b) = t
        BY <3>3, <3>4, <3>5, SeqEqual
      <3> QED BY <3>6 DEF t
    <2> QED BY <2>10 DEF b, e
  <1>3. LinesOf(<<>>) = << <<>> >>
    <2> DEFINE b == <<>>
    <2>1. b \in Seq(Chars) /\ Len(b) = 0
      OBVIOUS
    <2> HIDE DEF b
    <2>2. LinesOf(b) = <<b>>
      BY <1>0, <2>1, OneLine
    <2> QED BY <2>2 DEF b
  <1> QED BY <1>1, <1>2, <1>3

\* The byte before the cursor ends the line of the cursor, or the line above it.
LEMMA LinesBefore ==
  ASSUME NEW x \in Seq(Chars), NEW A \in Seq(Seq(Chars)), NEW f \in Seq(Chars),
         LinesOf(x) = A \o <<f>>
  PROVE  /\ \A c \in Letters : LinesOf(x \o <<c>>) = A \o <<f \o <<c>> >>
         /\ LinesOf(x \o <<NL>>) = (A \o <<f>>) \o << <<>> >>
  <1> DEFINE T == Seq(Chars)
  <1>1. ASSUME NEW c \in Letters PROVE LinesOf(x \o <<c>>) = A \o <<f \o <<c>> >>
    <2>1. <<c>> \in Seq(Chars)
      BY DEF Chars
    <2>2. LinesOf(x \o <<c>>) = Glue(A \o <<f>>, << <<c>> >>)
      BY <2>1, LinesOfBoth, LinesOfOne
    <2>3. << <<c>> >> \in Seq(T) /\ f \o <<c>> \in T
      BY <2>1, OneIs, PartsAre
    <2>4. << <<c>> >> \o <<>> = << <<c>> >> /\ <<>> \in Seq(T)
      <3> HIDE DEF T
      <3> QED BY <2>3, NothingAdds
    <2>5. Glue(A \o <<f>>, << <<c>> >> \o <<>>) = A \o <<f \o <<c>> >> \o <<>>
      BY <2>1, <2>4, GluesAround
    <2>6. A \o <<f \o <<c>> >> \in Seq(T)
      <3>1. <<f \o <<c>> >> \in Seq(T)
        BY <2>3, OneIs
      <3> QED BY <3>1, PartsAre
    <2>7. (A \o <<f \o <<c>> >>) \o <<>> = A \o <<f \o <<c>> >>
      <3> HIDE DEF T
      <3> QED BY <2>6, NothingAdds
    <2> QED BY <2>2, <2>4, <2>5, <2>7
  <1>2. LinesOf(x \o <<NL>>) = (A \o <<f>>) \o << <<>> >>
    <2>1. <<NL>> \in Seq(Chars) /\ <<>> \in T
      BY DEF Chars
    <2>2. LinesOf(x \o <<NL>>) = Glue(A \o <<f>>, << <<>> >> \o << <<>> >>)
      BY <2>1, LinesOfBoth, LinesOfOne
    <2>3. << <<>> >> \in Seq(T)
      BY <2>1, OneIs
    <2>4. Glue(A \o <<f>>, << <<>> >> \o << <<>> >>) = A \o <<f \o <<>> >> \o << <<>> >>
      BY <2>1, <2>3, GluesAround
    <2>5. f \o <<>> = f
      BY NothingAdds
    <2> QED BY <2>2, <2>4, <2>5
  <1> QED BY <1>1, <1>2

\* The byte after it begins the line of the cursor, or ends it.
LEMMA LinesAfter ==
  ASSUME NEW y \in Seq(Chars), NEW g \in Seq(Chars), NEW B \in Seq(Seq(Chars)),
         LinesOf(y) = <<g>> \o B
  PROVE  /\ \A c \in Letters : LinesOf(<<c>> \o y) = << <<c>> \o g>> \o B
         /\ LinesOf(<<NL>> \o y) = << <<>> >> \o (<<g>> \o B)
  <1> DEFINE T == Seq(Chars)
  <1>0. B \in Seq(T) /\ <<g>> \in Seq(T) /\ <<>> \in Seq(T) /\ <<>> \in T
    BY OneIs, NothingAdds
  <1>1. ASSUME NEW c \in Letters PROVE LinesOf(<<c>> \o y) = << <<c>> \o g>> \o B
    <2>1. <<c>> \in Seq(Chars)
      BY DEF Chars
    <2>2. LinesOf(<<c>> \o y) = Glue(<< <<c>> >>, <<g>> \o B)
      BY <2>1, LinesOfBoth, LinesOfOne
    <2>3. << <<c>> >> \in Seq(T) /\ << <<c>> \o g>> \in Seq(T)
      BY <2>1, OneIs, PartsAre
    <2>4. <<>> \o << <<c>> >> = << <<c>> >> /\ <<>> \o << <<c>> \o g>> = << <<c>> \o g>>
      <3> HIDE DEF T
      <3> QED BY <2>3, NothingAdds
    <2>5. Glue(<<>> \o << <<c>> >>, <<g>> \o B) = <<>> \o << <<c>> \o g>> \o B
      BY <1>0, <2>1, GluesAround
    <2> QED BY <2>2, <2>4, <2>5
  <1>2. LinesOf(<<NL>> \o y) = << <<>> >> \o (<<g>> \o B)
    <2>1. <<NL>> \in Seq(Chars)
      BY DEF Chars
    <2>2. LinesOf(<<NL>> \o y) = Glue(<< <<>> >> \o << <<>> >>, <<g>> \o B)
      BY <2>1, LinesOfBoth, LinesOfOne
    <2>3. << <<>> >> \in Seq(T)
      BY <1>0, OneIs
    <2>4. Glue(<< <<>> >> \o << <<>> >>, <<g>> \o B) = << <<>> >> \o << <<>> \o g>> \o B
      BY <1>0, <2>3, GluesAround
    <2>5. <<>> \o g = g
      BY NothingAdds
    <2>6. << <<>> >> \o <<g>> \o B = << <<>> >> \o (<<g>> \o B)
      <3> HIDE DEF T
      <3> QED BY <1>0, <2>3, ConcatAssociative
    <2> QED BY <2>2, <2>4, <2>5, <2>6
  <1> QED BY <1>1, <1>2

\* The text before the position is x, the text after it y: how the lines stand
\* around the cursor.
Stands(b, p, A, f, g, B) ==
  /\ LinesOf(b) = A \o <<f \o g>> \o B
  /\ LineOf(b, p) + 1 = Len(A) + 1
  /\ ColOf(b, p) = Len(f)

\* The lines of the parts, glued, are the lines around the cursor.
LEMMA CursorStands ==
  ASSUME NEW x \in Seq(Chars), NEW y \in Seq(Chars),
         NEW A \in Seq(Seq(Chars)), NEW f \in Seq(Chars), LinesOf(x) = A \o <<f>>,
         NEW g \in Seq(Chars), NEW B \in Seq(Seq(Chars)), LinesOf(y) = <<g>> \o B
  PROVE  Stands(x \o y, Len(x), A, f, g, B)
  <1> DEFINE T == Seq(Chars)
             m == LineOf(x, Len(x))
  <1>1. LinesOf(x \o y) = A \o <<f \o g>> \o B
    <2>1. LinesOf(x \o y) = Glue(A \o <<f>>, <<g>> \o B)
      BY LinesOfBoth
    <2>2. Glue(A \o <<f>>, <<g>> \o B) = A \o <<f \o g>> \o B
      BY GluesAround
    <2> QED BY <2>1, <2>2
  <1>2. Len(x) \in 0..Len(x) /\ Len(A) \in Nat /\ m \in Nat
    BY LineBounds
  <1>3. LineOf(x \o y, Len(x)) = m /\ ColOf(x \o y, Len(x)) = ColOf(x, Len(x))
    BY <1>2, FirstPart
  <1>4. Len(LinesOf(x)) = m + 1 /\ m \in 0..m
    BY <1>2, LinesAre
  <1>5. Len(A \o <<f>>) = Len(A) + 1 /\ (A \o <<f>>)[Len(A) + 1] = f
    <2> HIDE DEF T
    <2>1. A \in Seq(T) /\ <<f>> \in Seq(T) /\ Len(<<f>>) = 1 /\ <<f>>[1] = f
      BY OneIs DEF T
    <2>2. 1 \in 1..Len(<<f>>)
      BY <2>1
    <2> QED BY <2>1, <2>2, PartsAre
  <1>6. m = Len(A) /\ LinesOf(x)[m + 1] = f
    BY <1>2, <1>4, <1>5
  <1>7. ColOf(x, Len(x)) = Len(x) - LineStart(x, m)
    BY <1>2, PositionIs
  <1>8. Len(LinesOf(x)[m + 1]) = LineEnd(x, m) - LineStart(x, m) /\ LineEnd(x, m) = Len(x)
    <2>1. ~(m < m)
      BY <1>2
    <2> QED BY <1>4, <2>1, LinesAre, EndOfLine
  <1> QED BY <1>1, <1>3, <1>6, <1>7, <1>8 DEF Stands

------------------------------------------------------------------------------
(* The keys do what TextLines promises *)

\* The element l of the sequence t stands between the sequences A and B.
Around(t, A, l, B) ==
  /\ Len(t) = Len(A) + 1 + Len(B)
  /\ \A n \in 1..Len(A) : t[n] = A[n]
  /\ t[Len(A) + 1] = l
  /\ \A n \in 1..Len(B) : t[Len(A) + 1 + n] = B[n]
  /\ SubSeq(t, 1, Len(A)) = A
  /\ SubSeq(t, Len(A) + 1 + 1, Len(t)) = B

\* The same of the sequence itself.
LEMMA AroundOne ==
  ASSUME NEW S, NEW A \in Seq(S), NEW l \in S, NEW B \in Seq(S)
  PROVE  Around(A \o <<l>> \o B, A, l, B)
  <1> DEFINE t == A \o <<l>> \o B
  <1>0. t = A \o <<l>> \o B
    OBVIOUS
  <1> HIDE DEF t
  <1>1. Len(t) = Len(A) + 1 + Len(B)
    BY <1>0, AroundIs
  <1>2. \A n \in 1..Len(A) : t[n] = A[n]
    BY <1>0, AroundIs
  <1>3. t[Len(A) + 1] = l
    BY <1>0, AroundIs
  <1>4. \A n \in 1..Len(B) : t[Len(A) + 1 + n] = B[n]
    BY <1>0, AroundIs
  <1>5. SubSeq(t, 1, Len(A)) = A /\ SubSeq(t, Len(A) + 1 + 1, Len(t)) = B
    BY <1>0, AroundIs
  <1> QED BY <1>1, <1>2, <1>3, <1>4, <1>5 DEF Around, t

\* The lines around the cursor in the words of TextLines.
SeenAround(lines, row, col, A, f, g, B) ==
  /\ Len(lines) = row + Len(B)
  /\ lines[row] = f \o g
  /\ SubSeq(lines[row], 1, col) = f
  /\ SubSeq(lines[row], col + 1, Len(lines[row])) = g
  /\ SubSeq(lines, 1, row - 1) = A
  /\ SubSeq(lines, row + 1, Len(lines)) = B
  /\ \A n \in 1..Len(B) : lines[row + n] = B[n]
  /\ \A n \in 1..Len(A) : lines[n] = A[n]

\* What TextLines calls Before, After, Above and Below are the parts.
LEMMA StandsAre ==
  ASSUME NEW A \in Seq(Seq(Chars)), NEW f \in Seq(Chars),
         NEW g \in Seq(Chars), NEW B \in Seq(Seq(Chars)),
         NEW lines, NEW row, NEW col,
         lines = A \o <<f \o g>> \o B, row = Len(A) + 1, col = Len(f)
  PROVE  SeenAround(lines, row, col, A, f, g, B)
  <1> DEFINE T == Seq(Chars)
             h == f \o g
  <1>1. /\ h \in T /\ Len(h) = Len(f) + Len(g)
        /\ SubSeq(h, 1, Len(f)) = f /\ SubSeq(h, Len(f) + 1, Len(h)) = g
    BY PartsAre
  <1>2. Len(A) \in Nat /\ Len(f) \in Nat /\ Len(B) \in Nat
    OBVIOUS
  <1> HIDE DEF T, h
  <1>3. /\ Len(lines) = Len(A) + 1 + Len(B)
        /\ (\A n \in 1..Len(A) : lines[n] = A[n])
        /\ lines[Len(A) + 1] = h
        /\ (\A n \in 1..Len(B) : lines[Len(A) + 1 + n] = B[n])
        /\ SubSeq(lines, 1, Len(A)) = A
        /\ SubSeq(lines, Len(A) + 1 + 1, Len(lines)) = B
    <2>1. A \in Seq(T) /\ B \in Seq(T) /\ h \in T /\ lines = A \o <<h>> \o B
      BY <1>1 DEF T, h
    <2>2. Around(A \o <<h>> \o B, A, h, B)
      BY <2>1, AroundOne
    <2>3. Around(lines, A, h, B)
      BY <2>1, <2>2, Zenon
    <2> QED BY <2>3 DEF Around
  <1>4. row - 1 = Len(A)
    BY <1>2
  <1>5. lines[row] = h /\ col = Len(f) /\ row = Len(A) + 1
    BY <1>3
  <1>6. SubSeq(lines[row], 1, col) = f /\ SubSeq(lines[row], col + 1, Len(lines[row])) = g
    BY <1>1, <1>5
  <1>8. SubSeq(lines, 1, row - 1) = A /\ SubSeq(lines, row + 1, Len(lines)) = B
    BY <1>3, <1>4
  <1>9. Len(lines) = row + Len(B) /\ \A n \in 1..Len(B) : lines[row + n] = B[n]
    BY <1>3
  <1>10. \A n \in 1..Len(A) : lines[n] = A[n]
    BY <1>3
  <1>12. lines[row] = f \o g
    BY <1>5 DEF h
  <1> QED BY <1>6, <1>8, <1>9, <1>10, <1>12 DEF SeenAround

\* The text, parted at a position.
LEMMA Parted ==
  ASSUME NEW b \in Seq(Chars), NEW p \in 0..Len(b)
  PROVE  \E x, y \in Seq(Chars) : b = x \o y /\ Len(x) = p
  <1> DEFINE x == SubSeq(b, 1, p)
             y == SubSeq(b, p + 1, Len(b))
  <1>0. Len(b) \in Nat
    OBVIOUS
  <1>1. x \in Seq(Chars) /\ Len(x) = p
    <2>1. 1 \in 1..(Len(b) + 1) /\ p \in (1 - 1)..Len(b) /\ p - 1 + 1 = p
      BY <1>0
    <2> QED BY <2>1, CutIs
  <1>2. y \in Seq(Chars)
    <2>1. p + 1 \in 1..(Len(b) + 1) /\ Len(b) \in ((p + 1) - 1)..Len(b)
      BY <1>0
    <2> QED BY <2>1, CutIs
  <1>3. x \o y = b
    <2>1. 1 \in 1..(Len(b) + 1) /\ p \in (1 - 1)..Len(b) /\ Len(b) \in p..Len(b)
      BY <1>0
    <2>2. x \o y = SubSeq(b, 1, Len(b))
      BY <2>1, ConcatAdjacentSubSeq
    <2> QED BY <2>2, SubSeqFull
  <1> QED BY <1>1, <1>2, <1>3

\* And parted around a byte.
LEMMA Regrouped ==
  ASSUME NEW x \in Seq(Chars), NEW c \in Chars, NEW y \in Seq(Chars)
  PROVE  /\ x \o <<c>> \o y = x \o (<<c>> \o y)
         /\ x \o <<c>> \in Seq(Chars) /\ <<c>> \o y \in Seq(Chars)
         /\ Len(x \o <<c>>) = Len(x) + 1
  <1>1. <<c>> \in Seq(Chars) /\ Len(<<c>>) = 1
    BY OneIs
  <1>2. (x \o <<c>>) \o y = x \o (<<c>> \o y)
    BY <1>1, ConcatAssociative
  <1>3. Len(x \o <<c>>) = Len(x) + Len(<<c>>) /\ x \o <<c>> \in Seq(Chars) /\ <<c>> \o y \in Seq(Chars)
    BY <1>1, PartsAre
  <1> QED BY <1>1, <1>2, <1>3

PartedBy(b, p, x, c, y) ==
  /\ b = x \o <<c>> \o y /\ b = x \o (<<c>> \o y) /\ Len(x) = p - 1
  /\ x \o <<c>> \in Seq(Chars) /\ <<c>> \o y \in Seq(Chars) /\ Len(x \o <<c>>) = p
  /\ SubSeq(b, 1, p - 1) = x /\ SubSeq(b, p + 1, Len(b)) = y

\* Every position but the first has a byte before it to part the text around.
LEMMA PartedAround ==
  ASSUME NEW b \in Seq(Chars), NEW p \in 1..Len(b)
  PROVE  \E x, y \in Seq(Chars), c \in Chars : PartedBy(b, p, x, c, y)
  <1>0. Len(b) \in Nat /\ p - 1 \in 0..Len(b) /\ p \in Nat /\ p - 1 \in Nat
    OBVIOUS
  <1>1. PICK x \in Seq(Chars), z \in Seq(Chars) : b = x \o z /\ Len(x) = p - 1
    BY <1>0, Parted
  <1>2. Len(b) = Len(x) + Len(z) /\ Len(z) \in Nat
    <2>1. Len(x \o z) = Len(x) + Len(z)
      BY PartsAre
    <2> QED BY <1>1, <2>1
  <1>3. 1 \in 0..Len(z)
    BY <1>0, <1>1, <1>2
  <1>4. PICK u \in Seq(Chars), y \in Seq(Chars) : z = u \o y /\ Len(u) = 1
    BY <1>3, Parted
  <1> DEFINE c == u[1]
  <1>5. c \in Chars /\ u = <<c>>
    <2>1. c \in Chars
      <3>1. 1 \in 1..Len(u)
        BY <1>4
      <3> QED BY <3>1
    <2>2. u = <<u[1]>>
      BY <1>4
    <2> QED BY <2>1, <2>2
  <1> HIDE DEF c
  <1>6. <<c>> \in Seq(Chars) /\ Len(<<c>>) = 1
    BY <1>5, OneIs
  <1>7. b = x \o (<<c>> \o y) /\ b = x \o <<c>> \o y
    <2>1. b = x \o (<<c>> \o y)
      BY <1>1, <1>4, <1>5
    <2>2. x \o <<c>> \o y = x \o (<<c>> \o y)
      BY <1>5, Regrouped
    <2> QED BY <2>1, <2>2
  <1>8. x \o <<c>> \in Seq(Chars) /\ <<c>> \o y \in Seq(Chars) /\ Len(x \o <<c>>) = p
    <2>1. Len(x \o <<c>>) = Len(x) + 1 /\ x \o <<c>> \in Seq(Chars) /\ <<c>> \o y \in Seq(Chars)
      BY <1>5, Regrouped
    <2> QED BY <1>0, <1>1, <2>1
  <1>9. SubSeq(b, 1, p - 1) = x
    BY <1>1, PartsAre
  <1>10. SubSeq(b, p + 1, Len(b)) = y
    BY <1>7, <1>8, PartsAre
  <1>11. PartedBy(b, p, x, c, y)
    BY <1>1, <1>7, <1>8, <1>9, <1>10 DEF PartedBy
  <1> QED BY <1>5, <1>11

\* How the cursor stands, in the words of TextLines.
CursorAmid(A, f, g, B) ==
  /\ Lines!Above = A /\ Lines!Before = f /\ Lines!After = g /\ Lines!Below = B
  /\ LineOf(buf, pos) + 1 = Len(A) + 1 /\ ColOf(buf, pos) = Len(f)
  /\ LinesOf(buf)[LineOf(buf, pos) + 1] = f \o g
  /\ Len(LinesOf(buf)) = Len(A) + 1 + Len(B)
  /\ \A n \in 1..Len(B) : LinesOf(buf)[LineOf(buf, pos) + 1 + n] = B[n]

\* The state of the editor shows them all.
LEMMA CursorIs ==
  ASSUME NEW A \in Seq(Seq(Chars)), NEW f \in Seq(Chars),
         NEW g \in Seq(Chars), NEW B \in Seq(Seq(Chars)), Stands(buf, pos, A, f, g, B)
  PROVE  CursorAmid(A, f, g, B)
  <1> DEFINE lines == LinesOf(buf)
             row == LineOf(buf, pos) + 1
             col == ColOf(buf, pos)
  <1>1. lines = A \o <<f \o g>> \o B /\ row = Len(A) + 1 /\ col = Len(f)
    BY DEF Stands
  <1> HIDE DEF lines, row, col
  <1>2. SeenAround(lines, row, col, A, f, g, B)
    BY <1>1, StandsAre
  <1>3. Len(lines) = Len(A) + 1 + Len(B)
    BY <1>1, <1>2 DEF SeenAround
  <1> QED BY <1>1, <1>2, <1>3
          DEF CursorAmid, SeenAround, lines, row, col, Lines!Above, Lines!Before, Lines!After, Lines!Below

\* The lines of the parts of the text tell how the cursor stands between them.
LEMMA Standing ==
  ASSUME NEW x \in Seq(Chars), NEW y \in Seq(Chars)
  PROVE  \E A, B \in Seq(Seq(Chars)), f, g \in Seq(Chars) :
           /\ LinesOf(x) = A \o <<f>> /\ LinesOf(y) = <<g>> \o B
           /\ Stands(x \o y, Len(x), A, f, g, B)
  <1>1. PICK A \in Seq(Seq(Chars)), f \in Seq(Chars) : LinesOf(x) = A \o <<f>>
    BY LinesHaveEnds
  <1>2. PICK g \in Seq(Chars), B \in Seq(Seq(Chars)) : LinesOf(y) = <<g>> \o B
    BY LinesHaveEnds
  <1>3. Stands(x \o y, Len(x), A, f, g, B)
    BY <1>1, <1>2, CursorStands
  <1> QED BY <1>1, <1>2, <1>3

\* A line break puts two lines where one was.
LEMMA TwoAre ==
  ASSUME NEW S, NEW a \in S, NEW b \in S
  PROVE  <<a>> \o <<b>> = <<a, b>>
  <1> DEFINE t == <<a>> \o <<b>>
             u == <<a, b>>
  <1>1. /\ <<a>> \in Seq(S) /\ Len(<<a>>) = 1 /\ <<a>>[1] = a
        /\ <<b>> \in Seq(S) /\ Len(<<b>>) = 1 /\ <<b>>[1] = b
    BY OneIs
  <1>2. t \in Seq(S) /\ Len(t) = 1 + 1 /\ t[1] = a /\ t[1 + 1] = b
    <2>1. 1 \in 1..1
      OBVIOUS
    <2> QED BY <1>1, <2>1, PartsAre
  <1>3. u \in Seq(S) /\ Len(u) = 2 /\ u[1] = a /\ u[2] = b
    OBVIOUS
  <1> HIDE DEF t, u
  <1>4. \A n \in 1..Len(t) : t[n] = u[n]
    BY <1>2, <1>3
  <1>5. t = u
    BY <1>2, <1>3, <1>4, SeqEqual
  <1> QED BY <1>5 DEF t, u

\* A byte typed at the cursor.
LEMMA InsertRefines ==
  ASSUME TypeOK, NEW c \in Chars, Insert(c)
  PROVE  Lines!Next
  <1>1. buf \in Seq(Chars) /\ pos \in 0..Len(buf) /\ Len(buf) \in Nat
    BY DEF TypeOK
  <1>2. PICK x \in Seq(Chars), y \in Seq(Chars) : buf = x \o y /\ Len(x) = pos
    BY <1>1, Parted
  <1>3. PICK A \in Seq(Seq(Chars)), B \in Seq(Seq(Chars)), f \in Seq(Chars), g \in Seq(Chars) :
          /\ LinesOf(x) = A \o <<f>> /\ LinesOf(y) = <<g>> \o B
          /\ Stands(x \o y, Len(x), A, f, g, B)
    BY Standing
  <1>4. Len(buf) = Len(x) + Len(y) /\ SubSeq(buf, 1, Len(x)) = x
        /\ SubSeq(buf, Len(x) + 1, Len(buf)) = y
    <2>1. /\ Len(x \o y) = Len(x) + Len(y) /\ SubSeq(x \o y, 1, Len(x)) = x
          /\ SubSeq(x \o y, Len(x) + 1, Len(x \o y)) = y
      BY PartsAre
    <2> QED BY <1>2, <2>1
  <1>5. Len(buf) < MaxLen /\ buf' = (x \o <<c>>) \o y /\ pos' = Len(x) + 1 /\ mod' = TRUE
    <2>1. (pos + 1) - 1 = Len(x) /\ pos + 1 = Len(x) + 1
      BY <1>1, <1>2
    <2> QED BY <1>4, <2>1 DEF Insert, Alter, InsertAt
  <1>6. /\ x \o <<c>> \in Seq(Chars) /\ Len(x \o <<c>>) = Len(x) + 1
        /\ Len((x \o <<c>>) \o y) = Len(x) + 1 + Len(y)
    <2>1. x \o <<c>> \in Seq(Chars) /\ Len(x \o <<c>>) = Len(x) + 1
      BY Regrouped
    <2> QED BY <2>1, PartsAre
  <1>7. Len(buf') = Len(buf) + 1 /\ pos' = Len(x \o <<c>>)
    BY <1>1, <1>4, <1>5, <1>6
  <1>8. /\ Lines!Above = A /\ Lines!Before = f /\ Lines!After = g /\ Lines!Below = B
        /\ LineOf(buf, pos) + 1 = Len(A) + 1 /\ ColOf(buf, pos) = Len(f)
    <2>1. CursorAmid(A, f, g, B)
      BY <1>2, <1>3, CursorIs
    <2> QED BY <2>1 DEF CursorAmid
  <1>9. CASE c \in Letters
    <2>1. LinesOf(x \o <<c>>) = A \o <<f \o <<c>> >>
      BY <1>3, <1>9, LinesBefore
    <2>2. f \o <<c>> \in Seq(Chars) /\ Len(f \o <<c>>) = Len(f) + 1
      BY Regrouped
    <2>3. Stands((x \o <<c>>) \o y, Len(x \o <<c>>), A, f \o <<c>>, g, B)
      BY <1>3, <1>6, <2>1, <2>2, CursorStands
    <2>4. /\ LinesOf(buf') = A \o <<(f \o <<c>>) \o g>> \o B
          /\ LineOf(buf', pos') + 1 = Len(A) + 1 /\ ColOf(buf', pos') = Len(f) + 1
      BY <1>5, <1>7, <2>2, <2>3 DEF Stands
    <2>5. Lines!Letter(c)
      BY <1>5, <1>7, <1>8, <2>4 DEF Lines!Letter, Lines!Changed, Lines!Place
    <2> QED BY <1>9, <2>5 DEF Lines!Next
  <1>10. CASE c = NL
    <2>1. LinesOf(x \o <<c>>) = (A \o <<f>>) \o << <<>> >>
      BY <1>3, <1>10, LinesBefore
    <2>2. /\ A \o <<f>> \in Seq(Seq(Chars)) /\ Len(A \o <<f>>) = Len(A) + 1
          /\ <<>> \in Seq(Chars) /\ Len(<<>>) = 0 /\ <<>> \o g = g
      <3>1. <<>> \in Seq(Chars) /\ Len(<<>>) = 0 /\ <<>> \o g = g
        BY NothingAdds
      <3>2. <<f>> \in Seq(Seq(Chars)) /\ Len(<<f>>) = 1
        BY OneIs
      <3> QED BY <3>1, <3>2, PartsAre
    <2>3. Stands((x \o <<c>>) \o y, Len(x \o <<c>>), A \o <<f>>, <<>>, g, B)
      BY <1>3, <1>6, <2>1, <2>2, CursorStands
    <2>4. /\ LinesOf(buf') = (A \o <<f>>) \o <<g>> \o B
          /\ LineOf(buf', pos') + 1 = Len(A) + 1 + 1 /\ ColOf(buf', pos') = 0
      BY <1>5, <1>7, <2>2, <2>3 DEF Stands
    <2>5. (A \o <<f>>) \o <<g>> = A \o <<f, g>>
      <3> DEFINE T == Seq(Chars)
      <3>1. A \in Seq(T) /\ <<f>> \in Seq(T) /\ <<g>> \in Seq(T)
        BY OneIs
      <3> HIDE DEF T
      <3>2. (A \o <<f>>) \o <<g>> = A \o (<<f>> \o <<g>>)
        BY <3>1, ConcatAssociative
      <3>3. <<f>> \o <<g>> = <<f, g>>
        <4>1. f \in T /\ g \in T
          BY DEF T
        <4> QED BY <4>1, TwoAre
      <3> QED BY <3>2, <3>3
    <2>6. LinesOf(buf') = A \o <<f, g>> \o B
      BY <2>4, <2>5
    <2>7. Lines!Break
      BY <1>5, <1>7, <1>8, <2>4, <2>6 DEF Lines!Break, Lines!Changed, Lines!Place
    <2> QED BY <2>7 DEF Lines!Next
  <1> QED BY <1>9, <1>10 DEF Chars

\* At any position, not only at the cursor's.
LEMMA StandsSeen ==
  ASSUME NEW A \in Seq(Seq(Chars)), NEW f \in Seq(Chars),
         NEW g \in Seq(Chars), NEW B \in Seq(Seq(Chars)),
         NEW b, NEW p, Stands(b, p, A, f, g, B)
  PROVE  SeenAround(LinesOf(b), Len(A) + 1, Len(f), A, f, g, B)
  BY StandsAre DEF Stands

\* A byte between two positions: how the cursor stands on either side of it.
ByteStands(b, p, A, f, c, g, B) ==
  /\ c \in Letters => /\ Stands(b, p, A, f, <<c>> \o g, B)
                      /\ Stands(b, p + 1, A, f \o <<c>>, g, B)
  /\ c = NL => /\ Stands(b, p, A, f, <<>>, <<g>> \o B)
               /\ Stands(b, p + 1, A \o <<f>>, <<>>, g, B)

\* A letter is in the line of the cursor; a newline ends one line and begins another.
LEMMA ByteDoesStand ==
  ASSUME NEW x \in Seq(Chars), NEW c \in Chars, NEW y \in Seq(Chars),
         NEW A \in Seq(Seq(Chars)), NEW f \in Seq(Chars), LinesOf(x) = A \o <<f>>,
         NEW g \in Seq(Chars), NEW B \in Seq(Seq(Chars)), LinesOf(y) = <<g>> \o B
  PROVE  ByteStands(x \o <<c>> \o y, Len(x), A, f, c, g, B)
  <1> DEFINE T == Seq(Chars)
             u == x \o <<c>>
             v == <<c>> \o y
  <1>1. u \in T /\ v \in T /\ x \o <<c>> \o y = u \o y /\ x \o <<c>> \o y = x \o v /\ Len(u) = Len(x) + 1
    BY Regrouped
  <1>2. <<c>> \in T /\ f \o <<c>> \in T /\ <<c>> \o g \in T
    BY Regrouped, OneIs
  <1>3. <<f>> \in Seq(T) /\ <<g>> \in Seq(T) /\ <<>> \in T
    BY OneIs, NothingAdds
  <1>4. A \o <<f>> \in Seq(T) /\ <<g>> \o B \in Seq(T)
    BY <1>3, PartsAre
  <1>5. ASSUME c \in Letters
        PROVE  Stands(x \o v, Len(x), A, f, <<c>> \o g, B) /\ Stands(u \o y, Len(u), A, f \o <<c>>, g, B)
    <2>1. LinesOf(v) = << <<c>> \o g>> \o B
      BY <1>5, LinesAfter
    <2>2. LinesOf(u) = A \o <<f \o <<c>> >>
      BY <1>5, LinesBefore
    <2> HIDE DEF u, v
    <2>3. Stands(x \o v, Len(x), A, f, <<c>> \o g, B)
      BY <1>1, <1>2, <2>1, <2>2, CursorStands
    <2>4. Stands(u \o y, Len(u), A, f \o <<c>>, g, B)
      BY <1>1, <1>2, <2>1, <2>2, CursorStands
    <2> QED BY <2>3, <2>4
  <1>6. ASSUME c = NL
        PROVE  Stands(x \o v, Len(x), A, f, <<>>, <<g>> \o B) /\ Stands(u \o y, Len(u), A \o <<f>>, <<>>, g, B)
    <2>1. LinesOf(v) = << <<>> >> \o (<<g>> \o B)
      BY <1>6, LinesAfter
    <2>2. LinesOf(u) = (A \o <<f>>) \o << <<>> >>
      BY <1>6, LinesBefore
    <2> HIDE DEF u, v
    <2>3. Stands(x \o v, Len(x), A, f, <<>>, <<g>> \o B)
      BY <1>1, <1>3, <1>4, <2>1, <2>2, CursorStands
    <2>4. Stands(u \o y, Len(u), A \o <<f>>, <<>>, g, B)
      BY <1>1, <1>3, <1>4, <2>1, <2>2, CursorStands
    <2> QED BY <2>3, <2>4
  <1> HIDE DEF u, v
  <1> QED BY <1>1, <1>5, <1>6 DEF ByteStands

\* The text parted around a byte, and how the cursor stands around it.
ByteAt(b, p, x, c, y, A, f, g, B) ==
  /\ b = x \o <<c>> \o y /\ Len(x) = p - 1 /\ RemoveAt(b, p) = x \o y /\ Len(x \o y) = Len(b) - 1
  /\ ByteStands(b, p - 1, A, f, c, g, B) /\ Stands(x \o y, p - 1, A, f, g, B)

\* Every byte of the text has the cursor's lines on either side of it, and those
\* that are left when it is removed.
LEMMA ByteIsThere ==
  ASSUME NEW b \in Seq(Chars), NEW p \in 1..Len(b)
  PROVE  \E x, y \in Seq(Chars), c \in Chars, A, B \in Seq(Seq(Chars)), f, g \in Seq(Chars) :
           ByteAt(b, p, x, c, y, A, f, g, B)
  <1>1. PICK x \in Seq(Chars), y \in Seq(Chars), c \in Chars : PartedBy(b, p, x, c, y)
    BY PartedAround
  <1>2. /\ b = x \o <<c>> \o y /\ Len(x) = p - 1 /\ Len(x \o <<c>>) = p /\ x \o <<c>> \in Seq(Chars)
        /\ SubSeq(b, 1, p - 1) = x /\ SubSeq(b, p + 1, Len(b)) = y
    BY <1>1 DEF PartedBy
  <1>3. PICK A \in Seq(Seq(Chars)), B \in Seq(Seq(Chars)), f \in Seq(Chars), g \in Seq(Chars) :
          /\ LinesOf(x) = A \o <<f>> /\ LinesOf(y) = <<g>> \o B
          /\ Stands(x \o y, Len(x), A, f, g, B)
    BY Standing
  <1>4. ByteStands(b, p - 1, A, f, c, g, B)
    <2>1. ByteStands(x \o <<c>> \o y, Len(x), A, f, c, g, B)
      BY <1>3, ByteDoesStand
    <2> QED BY <1>2, <2>1, Zenon
  <1>5. RemoveAt(b, p) = x \o y
    BY <1>2 DEF RemoveAt
  <1>6. Len(x \o y) = Len(b) - 1
    <2>1. Len(x \o y) = Len(x) + Len(y) /\ Len((x \o <<c>>) \o y) = Len(x \o <<c>>) + Len(y)
      BY <1>2, PartsAre
    <2>2. Len(x) \in Nat /\ Len(y) \in Nat /\ p \in Nat
      OBVIOUS
    <2>3. Len(b) = p + Len(y)
      BY <1>2, <2>1
    <2> QED BY <1>2, <2>1, <2>2, <2>3
  <1>7. ByteAt(b, p, x, c, y, A, f, g, B)
    BY <1>2, <1>3, <1>4, <1>5, <1>6 DEF ByteAt
  <1> QED BY <1>7

\* Tail takes off what was put in front.
LEMMA TailIs ==
  ASSUME NEW S, NEW l \in S, NEW s \in Seq(S)
  PROVE  Tail(<<l>> \o s) = s /\ Len(<<l>> \o s) = Len(s) + 1 /\ (<<l>> \o s)[1] = l
  <1> DEFINE t == <<l>> \o s
  <1>1. <<l>> \in Seq(S) /\ Len(<<l>>) = 1 /\ <<l>>[1] = l /\ 1 \in 1..1
    BY OneIs
  <1>2. t \in Seq(S) /\ Len(t) = 1 + Len(s) /\ SubSeq(t, 1 + 1, Len(t)) = s /\ t[1] = l
    BY <1>1, PartsAre
  <1> HIDE DEF t
  <1>3. Len(s) \in Nat /\ t # <<>>
    BY <1>2
  <1>4. Tail(t) = SubSeq(t, 2, Len(t))
    BY <1>2, <1>3, HeadTailProperties
  <1> QED BY <1>2, <1>3, <1>4 DEF t

\* The letter or the line break before the cursor is passed, or removed.
LEMMA BackwardRefines ==
  ASSUME TypeOK, Backspace \/ Left
  PROVE  Lines!Next
  <1>1. buf \in Seq(Chars) /\ Len(buf) \in Nat /\ pos \in 1..Len(buf) /\ pos - 1 + 1 = pos
    BY DEF TypeOK, Backspace, Left
  <1>2. PICK x \in Seq(Chars), y \in Seq(Chars), c \in Chars, A \in Seq(Seq(Chars)),
             B \in Seq(Seq(Chars)), f \in Seq(Chars), g \in Seq(Chars) :
          ByteAt(buf, pos, x, c, y, A, f, g, B)
    BY <1>1, ByteIsThere
  <1>3. /\ RemoveAt(buf, pos) = x \o y /\ Len(x \o y) = Len(buf) - 1
        /\ ByteStands(buf, pos - 1, A, f, c, g, B) /\ Stands(x \o y, pos - 1, A, f, g, B)
    BY <1>2 DEF ByteAt
  <1>4. pos' = pos - 1
    BY DEF Backspace, Left, Alter, MoveTo
  <1>5. ASSUME Backspace
        PROVE  /\ LinesOf(buf') = A \o <<f \o g>> \o B /\ Len(buf') = Len(buf) + (-1) /\ mod' = TRUE
               /\ LineOf(buf', pos') + 1 = Len(A) + 1 /\ ColOf(buf', pos') = Len(f)
    <2>1. buf' = x \o y /\ mod' = TRUE
      BY <1>3, <1>5 DEF Backspace, Alter
    <2>2. Len(buf) - 1 = Len(buf) + (-1)
      BY <1>1
    <2> QED BY <1>3, <1>4, <2>1, <2>2 DEF Stands
  <1>6. ASSUME Left PROVE buf' = buf /\ mod' = mod
    BY <1>6 DEF Left, MoveTo
  <1>7. Len(A) \in Nat /\ Len(f) \in Nat
    OBVIOUS
  <1>8. CASE c \in Letters
    <2>1. /\ Stands(buf, pos - 1, A, f, <<c>> \o g, B) /\ Stands(buf, pos, A, f \o <<c>>, g, B)
      BY <1>1, <1>3, <1>8 DEF ByteStands
    <2>2. /\ f \o <<c>> \in Seq(Chars) /\ Len(f \o <<c>>) = Len(f) + 1 /\ <<c>> \o g \in Seq(Chars)
      BY Regrouped
    <2>3. /\ Lines!Above = A /\ Lines!Before = f \o <<c>> /\ Lines!After = g /\ Lines!Below = B
          /\ LineOf(buf, pos) + 1 = Len(A) + 1 /\ ColOf(buf, pos) = Len(f) + 1
      <3>1. CursorAmid(A, f \o <<c>>, g, B)
        BY <2>1, <2>2, CursorIs
      <3> QED BY <2>2, <3>1 DEF CursorAmid
    <2>4. SubSeq(LinesOf(buf)[Len(A) + 1], 1, Len(f)) = f
      <3>1. SeenAround(LinesOf(buf), Len(A) + 1, Len(f), A, f, <<c>> \o g, B)
        BY <2>1, <2>2, StandsSeen
      <3> QED BY <3>1 DEF SeenAround
    <2>5. ColOf(buf, pos) > 0 /\ ColOf(buf, pos) - 1 = Len(f)
      BY <1>7, <2>3
    <2>6. CASE Backspace
      <3>1. LinesOf(buf)' = Lines!Above \o <<SubSeq(LinesOf(buf)[LineOf(buf, pos) + 1], 1, ColOf(buf, pos) - 1)
                                             \o Lines!After>> \o Lines!Below
        BY <1>5, <2>3, <2>4, <2>5, <2>6
      <3>2. Lines!Erase
        BY <1>5, <2>3, <2>5, <2>6, <3>1 DEF Lines!Erase, Lines!Changed, Lines!Place
      <3> QED BY <3>2 DEF Lines!Next
    <2>7. CASE Left
      <3>1. LineOf(buf', pos') + 1 = Len(A) + 1 /\ ColOf(buf', pos') = Len(f)
        BY <1>4, <1>6, <2>1, <2>7 DEF Stands
      <3>2. Lines!Left
        BY <1>6, <2>3, <2>5, <2>7, <3>1 DEF Lines!Left, Lines!Moved, Lines!Place
      <3> QED BY <3>2 DEF Lines!Next
    <2> QED BY <2>6, <2>7
  <1>9. CASE c = NL
    <2>1. Stands(buf, pos - 1, A, f, <<>>, <<g>> \o B) /\ Stands(buf, pos, A \o <<f>>, <<>>, g, B)
      BY <1>1, <1>3, <1>9 DEF ByteStands
    <2>2. <<>> \in Seq(Chars) /\ Len(<<>>) = 0 /\ <<>> \o g = g /\ f \o <<>> = f
      BY NothingAdds
    <2>3. /\ <<f>> \in Seq(Seq(Chars)) /\ Len(<<f>>) = 1 /\ <<g>> \in Seq(Seq(Chars))
      BY OneIs
    <2>4. /\ A \o <<f>> \in Seq(Seq(Chars)) /\ Len(A \o <<f>>) = Len(A) + 1
          /\ <<g>> \o B \in Seq(Seq(Chars))
      BY <2>3, PartsAre
    <2>5. /\ Lines!After = g /\ Lines!Below = B
          /\ LineOf(buf, pos) + 1 = Len(A) + 1 + 1 /\ ColOf(buf, pos) = 0
          /\ LinesOf(buf)[LineOf(buf, pos) + 1] = g
      <3> DEFINE e == <<>>
                 V == A \o <<f>>
      <3>1. /\ e \in Seq(Chars) /\ Len(e) = 0 /\ e \o g = g
            /\ V \in Seq(Seq(Chars)) /\ Len(V) = Len(A) + 1
            /\ Stands(buf, pos, V, e, g, B)
        BY <2>1, <2>2, <2>4
      <3> HIDE DEF e, V
      <3>2. CursorAmid(V, e, g, B)
        BY <3>1, CursorIs
      <3> QED BY <3>1, <3>2 DEF CursorAmid
    <2>6. LinesOf(buf)[Len(A) + 1] = f /\ SubSeq(LinesOf(buf), 1, (Len(A) + 1) - 1) = A
      <3> DEFINE e == <<>>
                 W == <<g>> \o B
      <3>1. /\ e \in Seq(Chars) /\ f \o e = f /\ W \in Seq(Seq(Chars))
            /\ Stands(buf, pos - 1, A, f, e, W)
        BY <2>1, <2>2, <2>4
      <3> HIDE DEF e, W
      <3>2. SeenAround(LinesOf(buf), Len(A) + 1, Len(f), A, f, e, W)
        BY <3>1, StandsSeen
      <3> QED BY <3>1, <3>2 DEF SeenAround
    <2>7. /\ LineOf(buf, pos) + 1 > 1 /\ (LineOf(buf, pos) + 1) - 2 = (Len(A) + 1) - 1
          /\ (LineOf(buf, pos) + 1) - 1 = Len(A) + 1
      <3> DEFINE row == LineOf(buf, pos) + 1
                 a == Len(A)
      <3>1. row = a + 1 + 1 /\ a \in Nat
        BY <1>7, <2>5
      <3> HIDE DEF row, a
      <3>2. row > 1 /\ row - 2 = (a + 1) - 1 /\ row - 1 = a + 1
        BY <3>1
      <3> QED BY <3>2 DEF row, a
    <2>8. CASE Backspace
      <3>1. LinesOf(buf)' = SubSeq(LinesOf(buf), 1, (LineOf(buf, pos) + 1) - 2)
              \o <<LinesOf(buf)[(LineOf(buf, pos) + 1) - 1] \o LinesOf(buf)[LineOf(buf, pos) + 1]>>
              \o Lines!Below
        BY <1>5, <2>5, <2>6, <2>7, <2>8
      <3>2. /\ (LineOf(buf, pos) + 1)' = (LineOf(buf, pos) + 1) - 1
            /\ ColOf(buf, pos)' = Len(LinesOf(buf)[(LineOf(buf, pos) + 1) - 1])
            /\ Len(buf)' = Len(buf) + (-1) /\ mod' = TRUE
        BY <1>5, <2>6, <2>7, <2>8
      <3>3. Lines!Changed(SubSeq(LinesOf(buf), 1, (LineOf(buf, pos) + 1) - 2)
              \o <<LinesOf(buf)[(LineOf(buf, pos) + 1) - 1] \o LinesOf(buf)[LineOf(buf, pos) + 1]>>
              \o Lines!Below, -1)
        BY <3>1, <3>2 DEF Lines!Changed
      <3>4. Lines!Place((LineOf(buf, pos) + 1) - 1, Len(LinesOf(buf)[(LineOf(buf, pos) + 1) - 1]))
        BY <3>2 DEF Lines!Place
      <3>5. Lines!Erase
        BY <2>5, <2>7, <3>3, <3>4, Zenon DEF Lines!Erase
      <3> QED BY <3>5 DEF Lines!Next
    <2>9. CASE Left
      <3>1. LineOf(buf', pos') + 1 = Len(A) + 1 /\ ColOf(buf', pos') = Len(f)
        BY <1>4, <1>6, <2>1, <2>9 DEF Stands
      <3>2. Lines!Left
        BY <1>6, <2>5, <2>6, <2>7, <2>9, <3>1 DEF Lines!Left, Lines!Moved, Lines!Place
      <3> QED BY <3>2 DEF Lines!Next
    <2> QED BY <2>8, <2>9
  <1> QED BY <1>8, <1>9 DEF Chars

\* And the one behind it.
LEMMA ForwardRefines ==
  ASSUME TypeOK, DelKey \/ Right
  PROVE  Lines!Next
  <1> DEFINE p == pos + 1
  <1>1. buf \in Seq(Chars) /\ Len(buf) \in Nat /\ p \in 1..Len(buf) /\ p - 1 = pos
    BY DEF TypeOK, DelKey, Right
  <1>2. PICK x \in Seq(Chars), y \in Seq(Chars), c \in Chars, A \in Seq(Seq(Chars)),
             B \in Seq(Seq(Chars)), f \in Seq(Chars), g \in Seq(Chars) :
          ByteAt(buf, p, x, c, y, A, f, g, B)
    <2> HIDE DEF p
    <2> QED BY <1>1, ByteIsThere
  <1>3. /\ RemoveAt(buf, pos + 1) = x \o y /\ Len(x \o y) = Len(buf) - 1
        /\ ByteStands(buf, pos, A, f, c, g, B) /\ Stands(x \o y, pos, A, f, g, B)
    <2>1. p = pos + 1
      OBVIOUS
    <2> HIDE DEF p
    <2>2. /\ RemoveAt(buf, p) = x \o y /\ Len(x \o y) = Len(buf) - 1
          /\ ByteStands(buf, p - 1, A, f, c, g, B) /\ Stands(x \o y, p - 1, A, f, g, B)
      BY <1>2 DEF ByteAt
    <2> QED BY <1>1, <2>1, <2>2
  <1>4. ASSUME DelKey
        PROVE  /\ LinesOf(buf') = A \o <<f \o g>> \o B /\ Len(buf') = Len(buf) + (-1) /\ mod' = TRUE
               /\ LineOf(buf', pos') + 1 = Len(A) + 1 /\ ColOf(buf', pos') = Len(f)
    <2>1. buf' = x \o y /\ mod' = TRUE /\ pos' = pos
      BY <1>3, <1>4 DEF DelKey, Alter
    <2>2. Len(buf) - 1 = Len(buf) + (-1)
      BY <1>1
    <2> QED BY <1>3, <2>1, <2>2 DEF Stands
  <1>5. ASSUME Right PROVE buf' = buf /\ mod' = mod /\ pos' = pos + 1
    BY <1>5 DEF Right, MoveTo
  <1>6. Len(A) \in Nat /\ Len(f) \in Nat /\ Len(g) \in Nat /\ Len(B) \in Nat
    OBVIOUS
  <1>7. CASE c \in Letters
    <2>1. Stands(buf, pos, A, f, <<c>> \o g, B) /\ Stands(buf, pos + 1, A, f \o <<c>>, g, B)
      BY <1>3, <1>7 DEF ByteStands
    <2>2. /\ f \o <<c>> \in Seq(Chars) /\ Len(f \o <<c>>) = Len(f) + 1
          /\ <<c>> \o g \in Seq(Chars) /\ Tail(<<c>> \o g) = g /\ Len(<<c>> \o g) = Len(g) + 1
      BY Regrouped, TailIs
    <2>3. /\ Lines!Above = A /\ Lines!Before = f /\ Lines!After = <<c>> \o g /\ Lines!Below = B
          /\ LineOf(buf, pos) + 1 = Len(A) + 1 /\ ColOf(buf, pos) = Len(f)
          /\ LinesOf(buf)[LineOf(buf, pos) + 1] = f \o (<<c>> \o g)
      <3>1. CursorAmid(A, f, <<c>> \o g, B)
        BY <2>1, <2>2, CursorIs
      <3> QED BY <3>1 DEF CursorAmid
    <2>4. ColOf(buf, pos) < Len(LinesOf(buf)[LineOf(buf, pos) + 1])
      <3>1. Len(f \o (<<c>> \o g)) = Len(f) + Len(<<c>> \o g)
        BY <2>2, PartsAre
      <3> QED BY <1>6, <2>2, <2>3, <3>1
    <2>5. CASE DelKey
      <3>1. LinesOf(buf)' = Lines!Above \o <<Lines!Before \o Tail(Lines!After)>> \o Lines!Below
        BY <1>4, <2>2, <2>3, <2>5
      <3>2. Lines!Delete
        BY <1>4, <2>3, <2>4, <2>5, <3>1 DEF Lines!Delete, Lines!Changed, Lines!Place
      <3> QED BY <3>2 DEF Lines!Next
    <2>6. CASE Right
      <3>1. LineOf(buf', pos') + 1 = Len(A) + 1 /\ ColOf(buf', pos') = Len(f) + 1
        BY <1>5, <2>1, <2>2, <2>6 DEF Stands
      <3>2. Lines!Right
        BY <1>5, <2>3, <2>4, <2>6, <3>1 DEF Lines!Right, Lines!Moved, Lines!Place
      <3> QED BY <3>2 DEF Lines!Next
    <2> QED BY <2>5, <2>6
  <1>8. CASE c = NL
    <2>1. Stands(buf, pos, A, f, <<>>, <<g>> \o B) /\ Stands(buf, pos + 1, A \o <<f>>, <<>>, g, B)
      BY <1>3, <1>8 DEF ByteStands
    <2>2. <<>> \in Seq(Chars) /\ Len(<<>>) = 0 /\ <<>> \o g = g /\ f \o <<>> = f
      BY NothingAdds
    <2>3. /\ <<f>> \in Seq(Seq(Chars)) /\ Len(<<f>>) = 1 /\ <<g>> \in Seq(Seq(Chars))
      BY OneIs
    <2>4. /\ A \o <<f>> \in Seq(Seq(Chars)) /\ Len(A \o <<f>>) = Len(A) + 1
          /\ <<g>> \o B \in Seq(Seq(Chars))
      BY <2>3, PartsAre
    <2>5. Tail(<<g>> \o B) = B /\ Len(<<g>> \o B) = Len(B) + 1 /\ (<<g>> \o B)[1] = g
      BY TailIs
    <2>6. /\ Lines!Above = A /\ Lines!Before = f /\ Lines!Below = <<g>> \o B
          /\ LineOf(buf, pos) + 1 = Len(A) + 1 /\ ColOf(buf, pos) = Len(f)
          /\ LinesOf(buf)[LineOf(buf, pos) + 1] = f
          /\ Len(LinesOf(buf)) = Len(A) + 1 + (Len(B) + 1)
          /\ LinesOf(buf)[LineOf(buf, pos) + 1 + 1] = g
      <3> DEFINE e == <<>>
                 W == <<g>> \o B
      <3>1. /\ e \in Seq(Chars) /\ f \o e = f /\ W \in Seq(Seq(Chars)) /\ Len(W) = Len(B) + 1
            /\ W[1] = g /\ Stands(buf, pos, A, f, e, W) /\ W = <<g>> \o B
        BY <2>1, <2>2, <2>4, <2>5
      <3> HIDE DEF e, W
      <3>2. CursorAmid(A, f, e, W)
        BY <3>1, CursorIs
      <3>3. 1 \in 1..Len(W)
        BY <1>6, <3>1
      <3> QED BY <3>1, <3>2, <3>3 DEF CursorAmid
    <2>7. LineOf(buf, pos) + 1 < Len(LinesOf(buf))
      BY <1>6, <2>6
    <2>8. CASE DelKey
      <3>1. LinesOf(buf)' = Lines!Above
              \o <<LinesOf(buf)[LineOf(buf, pos) + 1] \o LinesOf(buf)[LineOf(buf, pos) + 1 + 1]>>
              \o Tail(Lines!Below)
        BY <1>4, <2>5, <2>6, <2>8
      <3>2. Lines!Delete
        BY <1>4, <2>6, <2>7, <2>8, <3>1 DEF Lines!Delete, Lines!Changed, Lines!Place
      <3> QED BY <3>2 DEF Lines!Next
    <2>9. CASE Right
      <3>1. LineOf(buf', pos') + 1 = Len(A) + 1 + 1 /\ ColOf(buf', pos') = 0
        BY <1>5, <2>1, <2>2, <2>4, <2>9 DEF Stands
      <3>2. Lines!Right
        BY <1>5, <2>6, <2>7, <2>9, <3>1 DEF Lines!Right, Lines!Moved, Lines!Place
      <3> QED BY <3>2 DEF Lines!Next
    <2> QED BY <2>8, <2>9
  <1> QED BY <1>7, <1>8 DEF Chars

\* A column of a line is a position of the text.
LEMMA PlaceInLine ==
  ASSUME NEW b \in Seq(Chars), NEW n \in 0..LineOf(b, Len(b)), NEW k \in 0..Len(LinesOf(b)[n + 1])
  PROVE  LineOf(b, LineStart(b, n) + k) = n /\ ColOf(b, LineStart(b, n) + k) = k
  <1> DEFINE s == LineStart(b, n)
             e == LineEnd(b, n)
             p == s + k
  <1>1. s \in 0..Len(b) /\ e \in s..Len(b) /\ Len(b) \in Nat
    BY StartBounds, EndBounds
  <1>2. Len(LinesOf(b)[n + 1]) = e - s
    BY LinesAre
  <1>3. \A q \in s..e : LineOf(b, q) = n
    BY EndOfLine
  <1>4. s = LineStart(b, n)
    OBVIOUS
  <1> HIDE DEF s, e
  <1>5. p \in s..e /\ p \in 0..Len(b) /\ p - s = k
    BY <1>1, <1>2
  <1> HIDE DEF p
  <1>6. LineOf(b, p) = n
    BY <1>3, <1>5
  <1>7. ColOf(b, p) = p - LineStart(b, LineOf(b, p))
    BY <1>5, PositionIs
  <1> QED BY <1>4, <1>5, <1>6, <1>7 DEF p, s

\* A key that moves the position to a column of a line.
LEMMA MoveInLine ==
  ASSUME TypeOK, NEW n \in 0..LineOf(buf, Len(buf)), NEW k \in 0..Len(LinesOf(buf)[n + 1]),
         MoveTo(LineStart(buf, n) + k)
  PROVE  Lines!Moved(n + 1, k)
  <1>1. buf' = buf /\ mod' = mod /\ pos' = LineStart(buf, n) + k
    BY DEF MoveTo
  <1>2. LineOf(buf', pos') = n /\ ColOf(buf', pos') = k
    <2>1. buf \in Seq(Chars)
      BY DEF TypeOK
    <2> QED BY <1>1, <2>1, PlaceInLine
  <1> QED BY <1>1, <1>2 DEF Lines!Moved, Lines!Place

\* The lesser column is in both lines.
LEMMA LesserIs ==
  ASSUME NEW a \in Nat, NEW b \in Nat
  PROVE  Lesser(a, b) \in 0..a /\ Lesser(a, b) \in 0..b /\ Lines!Lesser(a, b) = Lesser(a, b)
  BY DEF Lesser, Lines!Lesser

\* The keys that find their line by counting newlines.
LEMMA ByLineRefines ==
  ASSUME TypeOK, Home \/ End \/ MoveUp \/ MoveDown
  PROVE  Lines!Next \/ UNCHANGED Lines!vars
  <1> DEFINE n == LineOf(buf, pos)
             m == LineOf(buf, Len(buf))
             c == ColOf(buf, pos)
  <1>1. buf \in Seq(Chars) /\ pos \in 0..Len(buf) /\ Len(buf) \in Nat /\ pos \in Nat
    BY DEF TypeOK
  <1>2. n \in 0..m /\ m \in Nat /\ c = pos - LineStart(buf, n) /\ c \in Nat
    BY <1>1, PositionIs, LineBounds, ColBounds
  <1>3. /\ LinesOf(buf) \in Seq(Seq(Chars)) /\ Len(LinesOf(buf)) = m + 1
        /\ \A i \in 0..m : /\ Len(LinesOf(buf)[i + 1]) = LineEnd(buf, i) - LineStart(buf, i)
                           /\ Len(LinesOf(buf)[i + 1]) \in Nat
    <2>1. \A i : /\ LineStart(buf, i) \in 0..Len(buf)
                 /\ LineEnd(buf, i) \in LineStart(buf, i)..Len(buf)
      BY <1>1, StartBounds, EndBounds
    <2>2. \A i : LineEnd(buf, i) - LineStart(buf, i) \in Nat
      BY <1>1, <2>1
    <2> QED BY <1>1, <2>2, LinesAre
  <1>4. CASE Home
    <2> DEFINE z == 0
    <2>1. z \in 0..Len(LinesOf(buf)[n + 1])
      BY <1>2, <1>3
    <2>2. MoveTo(LineStart(buf, n) + z)
      <3>1. LineStart(buf, n) \in 0..Len(buf)
        BY <1>1, StartBounds
      <3>2. LineStart(buf, n) + z = LineStart(buf, n)
        BY <1>1, <3>1
      <3> QED BY <1>4, <3>2 DEF Home
    <2>3. Lines!Moved(n + 1, z)
      <3> HIDE DEF n, m, z
      <3> QED BY <1>2, <2>1, <2>2, MoveInLine DEF m
    <2>4. Lines!Home
      BY <2>3 DEF Lines!Home
    <2> QED BY <2>4 DEF Lines!Next
  <1>5. CASE End
    <2> DEFINE k == Len(LinesOf(buf)[n + 1])
    <2>1. k \in 0..k /\ k = LineEnd(buf, n) - LineStart(buf, n)
      BY <1>2, <1>3
    <2>2. MoveTo(LineStart(buf, n) + k)
      <3>1. LineStart(buf, n) \in 0..Len(buf) /\ LineEnd(buf, n) \in LineStart(buf, n)..Len(buf)
        BY <1>1, StartBounds, EndBounds
      <3>2. LineStart(buf, n) + k = LineEnd(buf, n)
        <4> HIDE DEF n, k
        <4> QED BY <1>1, <2>1, <3>1
      <3> QED BY <1>5, <3>2 DEF End
    <2>3. Lines!Moved(n + 1, k)
      <3> HIDE DEF n, m
      <3> QED BY <1>2, <2>1, <2>2, MoveInLine DEF m
    <2>4. Lines!End
      BY <2>3 DEF Lines!End
    <2> QED BY <2>4 DEF Lines!Next
  <1>6. CASE MoveUp
    <2> DEFINE k == Lesser(c, Len(LinesOf(buf)[(n - 1) + 1]))
    <2>1. n > 0 /\ n - 1 \in 0..m /\ (n - 1) + 1 = n /\ (n + 1) - 1 = n
      BY <1>2, <1>6 DEF MoveUp
    <2>2. Len(LinesOf(buf)[(n - 1) + 1]) = LineEnd(buf, n - 1) - LineStart(buf, n - 1)
          /\ Len(LinesOf(buf)[(n - 1) + 1]) \in Nat
      <3> HIDE DEF n, m
      <3> QED BY <1>3, <2>1
    <2>3. MoveTo(LineStart(buf, n - 1) + k)
      BY <1>6, <2>2 DEF MoveUp
    <2>4. k \in 0..Len(LinesOf(buf)[(n - 1) + 1]) /\ k = Lines!Lesser(c, Len(LinesOf(buf)[(n - 1) + 1]))
      <3> HIDE DEF n, c
      <3> QED BY <1>2, <2>2, LesserIs
    <2>5. Lines!Moved((n - 1) + 1, k)
      <3> HIDE DEF n, k, m
      <3> QED BY <2>1, <2>3, <2>4, MoveInLine DEF m
    <2>6. Lines!Moved((n + 1) - 1, Lines!Lesser(c, Len(LinesOf(buf)[(n + 1) - 1])))
      BY <2>1, <2>4, <2>5
    <2>7. Lines!Up
      <3>1. n + 1 > 1
        BY <1>2, <2>1
      <3> QED BY <2>6, <3>1 DEF Lines!Up
    <2> QED BY <2>7 DEF Lines!Next
  <1>7. CASE MoveDown /\ n < m
    <2> DEFINE k == Lesser(c, Len(LinesOf(buf)[(n + 1) + 1]))
    <2>1. n + 1 \in 0..m
      BY <1>2, <1>7
    <2>2. Len(LinesOf(buf)[(n + 1) + 1]) = LineEnd(buf, n + 1) - LineStart(buf, n + 1)
          /\ Len(LinesOf(buf)[(n + 1) + 1]) \in Nat
      <3> HIDE DEF n, m
      <3> QED BY <1>3, <2>1
    <2>3. MoveTo(LineStart(buf, n + 1) + k)
      BY <1>7, <2>2 DEF MoveDown
    <2>4. k \in 0..Len(LinesOf(buf)[(n + 1) + 1]) /\ k = Lines!Lesser(c, Len(LinesOf(buf)[(n + 1) + 1]))
      <3> HIDE DEF n, c
      <3> QED BY <1>2, <2>2, LesserIs
    <2>5. Lines!Moved((n + 1) + 1, k)
      <3> HIDE DEF n, k, m
      <3> QED BY <2>1, <2>3, <2>4, MoveInLine DEF m
    <2>6. Lines!Down
      <3>1. n + 1 < Len(LinesOf(buf))
        BY <1>2, <1>3, <1>7
      <3> QED BY <2>4, <2>5, <3>1 DEF Lines!Down
    <2> QED BY <2>6 DEF Lines!Next
  \* The text ends in a newline and the cursor is behind it: the key leaves it there.
  <1>8. CASE MoveDown /\ ~(n < m)
    <2>1. n = m /\ n + 1 \in Nat /\ ~(n + 1 <= m)
      BY <1>2, <1>8
    <2>2. LineStart(buf, n + 1) = Len(buf)
      BY <1>1, <2>1, StartIs
    <2>3. LineEnd(buf, n + 1) = Len(buf)
      BY <1>1, <2>2, EndBounds
    <2>4. buf # <<>> /\ Last(buf) = NL
      BY <1>1, <1>8, <2>2 DEF MoveDown
    <2>5. Len(buf) \in DOMAIN buf /\ buf[Len(buf)] = NL
      BY <1>1, <2>4 DEF Last
    <2>6. LineStart(buf, m) = Len(buf)
      BY <1>1, <2>5, StartFound
    <2>7. pos = Len(buf) /\ c = 0
      BY <1>1, <1>2, <2>1, <2>6
    <2>8. Len(buf) + Lesser(c, Len(buf) - Len(buf)) = pos
      BY <1>1, <2>7 DEF Lesser
    <2>9. MoveTo(pos)
      BY <1>8, <2>2, <2>3, <2>8 DEF MoveDown
    <2> QED BY <2>9 DEF MoveTo, Lines!vars
  <1> QED BY <1>4, <1>5, <1>6, <1>7, <1>8

\* Every key is a step of TextLines, or none.
LEMMA StepRefines == TypeOK /\ [Next]_vars => [Lines!Next]_(Lines!vars)
  <1> SUFFICES ASSUME TypeOK, [Next]_vars PROVE Lines!Next \/ UNCHANGED Lines!vars
    OBVIOUS
  <1>1. CASE \E c \in Chars : Insert(c)
    BY <1>1, InsertRefines
  <1>2. CASE Backspace \/ Left
    BY <1>2, BackwardRefines
  <1>3. CASE DelKey \/ Right
    BY <1>3, ForwardRefines
  <1>4. CASE Home \/ End \/ MoveUp \/ MoveDown
    BY <1>4, ByLineRefines
  <1>5. CASE Save
    <2>1. Lines!Saved
      BY <1>5 DEF Save, Lines!Saved
    <2> QED BY <2>1 DEF Lines!Next
  <1>6. CASE UNCHANGED vars
    BY <1>6 DEF vars, Lines!vars
  <1> QED BY <1>1, <1>2, <1>3, <1>4, <1>5, <1>6 DEF Next

\* The empty buffer is one empty line (desktop.c 1049-1052).
LEMMA InitRefines == Init => Lines!Init
  <1> SUFFICES ASSUME Init PROVE Lines!Init
    OBVIOUS
  <1>1. buf = <<>> /\ pos = 0 /\ mod = FALSE /\ Len(buf) = 0
    BY DEF Init
  <1>2. LinesOf(buf) = << <<>> >>
    BY <1>1, LinesOfOne
  <1> DEFINE z == 0
  <1>3. LineOf(buf, z) = 0 /\ ColOf(buf, z) = 0
    <2>1. z \in Nat /\ 0..z = {0}
      OBVIOUS
    <2> HIDE DEF z
    <2> QED BY <2>1, LineBounds, ColBounds
  <1> QED BY <1>1, <1>2, <1>3 DEF Lines!Init

\* The bytes behave as lines with a cursor, for texts and buffers of any size: every
\* key does to the lines what TextLines says it does, or nothing (desktop.c 844-872,
\* 967-1014).
THEOREM EditorRefinesLines == Spec => ImplementsTextLines
  BY TypeCorrect, InitRefines, StepRefines, PTL DEF Spec, ImplementsTextLines, Lines!Spec
===============================================================================
