---------------------------- MODULE PagingProofs ----------------------------
(***************************************************************************)
(* PagingInv is an invariant of Paging, for any files, any page length and *)
(* any resolution of the cursor; with it, the properties of PagingProps.   *)
(***************************************************************************)
EXTENDS PagingProps, FiniteSetTheorems, SequenceTheorems, TLAPS

-----------------------------------------------------------------------------
(* The order of the files *)

LEMMA SortValueType ==
  ASSUME NEW c, NEW f \in Files
  PROVE  SortValue(c, f) \in Nat /\ f \in Nat /\ Created[f] \in Nat /\ Size[f] \in Nat
  BY PagingAssumption DEF SortValue

LEMMA BeforeIsOrder ==
  ASSUME NEW c, NEW f \in Files, NEW g \in Files
  PROVE  /\ ~Before(c, f, f)
         /\ \A h \in Files : Before(c, f, g) /\ Before(c, g, h) => Before(c, f, h)
         /\ f # g => Before(c, f, g) \/ Before(c, g, f)
  BY SortValueType DEF Before

LEMMA FilesFinite ==
  ASSUME NEW S \in SUBSET Files
  PROVE  IsFiniteSet(S) /\ Cardinality(S) \in Nat
  BY PagingAssumption, FS_Subset, FS_CardinalityType

\* A file of S with no others of S before it, by the finiteness of what is before.
LEMMA FirstExists ==
  ASSUME NEW c, NEW S \in SUBSET Files, S # {}
  PROVE  \E f \in S : \A g \in S \ {f} : Before(c, f, g)
<1> DEFINE Earlier(f) == {g \in S : Before(c, g, f)}
           T == {Earlier(f) : f \in S}
<1>1. T \subseteq FiniteSubsetsOf(Files) /\ T # {}
  BY FilesFinite DEF FiniteSubsetsOf
<1>2. PICK x \in T : \A y \in T : ~(<<y, x>> \in StrictSubsetOrdering(Files))
  <2> HIDE DEF T
  <2> QED
    BY <1>1, FS_StrictSubsetOrderingWellFounded, WFMin
<1>3. PICK f \in S : x = Earlier(f)
  BY <1>2
<1>4. ASSUME NEW g \in S, Before(c, g, f)
      PROVE  FALSE
  <2>1. Earlier(g) \subseteq Earlier(f)
    BY <1>4, BeforeIsOrder
  <2>2. g \in Earlier(f) /\ g \notin Earlier(g)
    BY <1>4, BeforeIsOrder
  <2>3. <<Earlier(g), Earlier(f)>> \in StrictSubsetOrdering(Files)
    BY <2>1, <2>2 DEF StrictSubsetOrdering
  <2>4. Earlier(g) \in T
    OBVIOUS
  <2> QED
    BY <1>2, <1>3, <2>3, <2>4
<1> QED
  BY <1>4, BeforeIsOrder

LEMMA LastExists ==
  ASSUME NEW c, NEW S \in SUBSET Files, S # {}
  PROVE  \E f \in S : \A g \in S \ {f} : Before(c, g, f)
<1> DEFINE Later(f) == {g \in S : Before(c, f, g)}
           T == {Later(f) : f \in S}
<1>1. T \subseteq FiniteSubsetsOf(Files) /\ T # {}
  BY FilesFinite DEF FiniteSubsetsOf
<1>2. PICK x \in T : \A y \in T : ~(<<y, x>> \in StrictSubsetOrdering(Files))
  <2> HIDE DEF T
  <2> QED
    BY <1>1, FS_StrictSubsetOrderingWellFounded, WFMin
<1>3. PICK f \in S : x = Later(f)
  BY <1>2
<1>4. ASSUME NEW g \in S, Before(c, f, g)
      PROVE  FALSE
  <2>1. Later(g) \subseteq Later(f)
    BY <1>4, BeforeIsOrder
  <2>2. g \in Later(f) /\ g \notin Later(g)
    BY <1>4, BeforeIsOrder
  <2>3. <<Later(g), Later(f)>> \in StrictSubsetOrdering(Files)
    BY <2>1, <2>2 DEF StrictSubsetOrdering
  <2>4. Later(g) \in T
    OBVIOUS
  <2> QED
    BY <1>2, <1>3, <2>3, <2>4
<1> QED
  BY <1>4, BeforeIsOrder

-----------------------------------------------------------------------------
(* A page *)

Rows(P, c, cur) == {f \in P : Matches(c, f) /\ Ahead(c, f, cur)}
Earlier(P, c, cur, f) == {g \in Rows(P, c, cur) : Before(c, g, f)}
Items(P, c, cur) == {f \in Rows(P, c, cur) : Cardinality(Earlier(P, c, cur, f)) < Limit}
Last(c, S) == CHOOSE f \in S : \A g \in S \ {f} : Before(c, g, f)

LEMMA PageIs ==
  ASSUME NEW P, NEW c, NEW cur
  PROVE  PageFrom(P, c, cur) =
           [items |-> Items(P, c, cur),
            next |-> IF Rows(P, c, cur) = Items(P, c, cur) THEN None
                     ELSE EncodeCursor(c, Last(c, Items(P, c, cur))),
            present |-> P]
  BY Zenon DEF PageFrom, Rows, Items, Earlier, Last, Ahead

LEMMA CursorType ==
  ASSUME NEW c, NEW f \in Files
  PROVE  EncodeCursor(c, f) \in Cursors /\ EncodeCursor(c, f) # None
<1>1. (IF BySize(c) THEN Size[f] ELSE (Created[f] \div PerMs) * PerMs) \in Nat
  BY SortValueType, PagingAssumption
<1>2. EncodeCursor(c, f) \in [value : Nat, id : Files]
  BY <1>1 DEF EncodeCursor
<1>3. EncodeCursor(c, f) \in [value : Nat, id : Nat]
  BY <1>1, SortValueType DEF EncodeCursor
<1> QED
  BY <1>2, <1>3, PagingAssumption DEF Cursors

\* Fewer rows are before an earlier row.
LEMMA EarlierCount ==
  ASSUME NEW P \in SUBSET Files, NEW c, NEW cur, NEW f \in Rows(P, c, cur), NEW g \in Rows(P, c, cur),
         Before(c, g, f)
  PROVE  Cardinality(Earlier(P, c, cur, g)) < Cardinality(Earlier(P, c, cur, f))
<1> DEFINE E(h) == Earlier(P, c, cur, h)
<1>1. E(f) \in SUBSET Files /\ E(g) \in SUBSET Files /\ f \in Files /\ g \in Files
  BY DEF Rows, Earlier
<1>2. E(g) \subseteq E(f)
  BY <1>1, BeforeIsOrder DEF Rows, Earlier
<1>3. g \in E(f) /\ g \notin E(g)
  BY <1>1, BeforeIsOrder DEF Earlier
<1>4. IsFiniteSet(E(f)) /\ Cardinality(E(f)) \in Nat /\ Cardinality(E(g)) \in Nat
  BY <1>1, FilesFinite
<1>5. Cardinality(E(g)) <= Cardinality(E(f)) /\ Cardinality(E(f)) # Cardinality(E(g))
  <2> HIDE DEF E
  <2> QED
    BY <1>2, <1>3, <1>4, FS_Subset
<1> QED
  BY <1>4, <1>5

\* What a page shows, and where its cursor leads.
LEMMA PageFacts ==
  ASSUME NEW p, NEW c, NEW cur, IsPage(p, c, cur)
  PROVE  /\ p.items \subseteq Rows(p.present, c, cur) /\ Rows(p.present, c, cur) \subseteq Files
         /\ p.next = None => p.items = Rows(p.present, c, cur)
         /\ p.next # None =>
              \E l \in p.items :
                /\ p.next = EncodeCursor(c, l)
                /\ \A g \in p.items \ {l} : Before(c, g, l)
                /\ \A g \in Rows(p.present, c, cur) \ p.items : Before(c, l, g)
         /\ p \in Pages
<1> DEFINE P == p.present
           R == Rows(P, c, cur)
           I == Items(P, c, cur)
           l == Last(c, I)
<1>0. P \in SUBSET Files /\ R \in SUBSET Files /\ I \in SUBSET R
  BY DEF IsPage, Rows, Items
<1>1. p = [items |-> I, next |-> IF R = I THEN None ELSE EncodeCursor(c, l), present |-> P]
  BY PageIs DEF IsPage
<1>2. p.items = I /\ p.next = IF R = I THEN None ELSE EncodeCursor(c, l)
  BY <1>1
<1> HIDE DEF P, R, I, l
<1>3. ASSUME NEW g \in R \ I, NEW f \in I
      PROVE  Before(c, f, g)
  <2>1. f \in Files /\ g \in Files /\ f # g
    BY <1>0, <1>3
  <2>2. ~Before(c, g, f)
    <3>1. ASSUME Before(c, g, f)
          PROVE  FALSE
      <4>1. Cardinality(Earlier(P, c, cur, g)) < Cardinality(Earlier(P, c, cur, f))
        BY <1>0, <1>3, <3>1, EarlierCount DEF R
      <4>2. Cardinality(Earlier(P, c, cur, f)) < Limit /\ Limit \in Nat
        BY <1>3, PagingAssumption DEF I, Items
      <4>3. Cardinality(Earlier(P, c, cur, g)) \in Nat /\ Cardinality(Earlier(P, c, cur, f)) \in Nat
        BY <1>0, FilesFinite DEF Earlier, R
      <4>4. Cardinality(Earlier(P, c, cur, g)) < Limit
        BY <4>1, <4>2, <4>3
      <4> QED
        BY <1>3, <4>4 DEF I, Items, R
    <3> QED
      BY <3>1
  <2> QED
    BY <2>1, <2>2, BeforeIsOrder
<1>4. CASE R = I
  <2>1. p.next = None /\ p.items = R
    BY <1>2, <1>4
  <2>2. p \in Pages
    BY <1>0, <1>1, <1>4 DEF Pages
  <2> QED
    BY <1>0, <2>1, <2>2 DEF R, P
<1>5. CASE R # I
  <2>1. I # {}
    <3>1. PICK f \in R : \A g \in R \ {f} : Before(c, f, g)
      BY <1>0, <1>5, FirstExists
    <3>2. Earlier(P, c, cur, f) = {}
      <4>1. ASSUME NEW g \in R, Before(c, g, f)
            PROVE  FALSE
        <5>1. f \in Files /\ g \in Files
          BY <1>0
        <5> QED
          BY <3>1, <4>1, <5>1, BeforeIsOrder
      <4> QED
        BY <4>1 DEF Earlier, R
    <3>3. Cardinality(Earlier(P, c, cur, f)) < Limit
      BY <3>2, FS_EmptySet, PagingAssumption
    <3> QED
      BY <3>3 DEF I, Items, R
  <2>2. \E f \in I : \A g \in I \ {f} : Before(c, g, f)
    BY <1>0, <2>1, LastExists
  <2>3. l \in I /\ \A g \in I \ {l} : Before(c, g, l)
    BY <2>2 DEF l, Last
  <2>4. p.next = EncodeCursor(c, l) /\ p.next # None /\ EncodeCursor(c, l) \in Cursors
    BY <1>0, <1>2, <1>5, <2>3, CursorType
  <2>5. p \in Pages
    BY <1>0, <1>1, <1>5, <2>4 DEF Pages
  <2> QED
    BY <1>0, <1>2, <1>3, <2>3, <2>4, <2>5 DEF R, P
<1> QED
  BY <1>4, <1>5

LEMMA PageMade ==
  ASSUME NEW P \in SUBSET Files, NEW c, NEW cur
  PROVE  IsPage(PageFrom(P, c, cur), c, cur)
  BY PageIs DEF IsPage

-----------------------------------------------------------------------------
(* Cursors *)

Floor(x) == (x \div PerMs) * PerMs

\* The milliseconds of a time, of a later one, and of a time of a later millisecond.
LEMMA FloorFacts ==
  ASSUME NEW x \in Nat, NEW y \in Nat
  PROVE  /\ Floor(x) \in Nat /\ Floor(x) <= x
         /\ x <= y /\ Floor(x) # Floor(y) => x < Floor(y)
<1> DEFINE a == x \div PerMs
           b == y \div PerMs
<1>0. PerMs \in Nat \ {0}
  BY PagingAssumption
<1>1. /\ a \in Nat /\ a * PerMs \in Nat /\ a * PerMs <= x /\ x < a * PerMs + PerMs
      /\ b \in Nat /\ b * PerMs \in Nat /\ b * PerMs <= y /\ y < b * PerMs + PerMs
  BY <1>0
<1> HIDE DEF a, b
<1>4. ASSUME x <= y, a * PerMs # b * PerMs
      PROVE  x < b * PerMs
  <2>1. a # b
    BY <1>4
  <2>2. CASE a < b
    <3>1. a + 1 <= b
      BY <1>1, <2>2
    <3>2. (a + 1) * PerMs <= b * PerMs
      BY <1>0, <1>1, <3>1
    <3>3. (a + 1) * PerMs = a * PerMs + PerMs
      BY <1>0, <1>1
    <3> QED
      BY <1>0, <1>1, <3>2, <3>3
  <2>3. CASE b < a
    <3>1. b + 1 <= a
      BY <1>1, <2>3
    <3>2. (b + 1) * PerMs <= a * PerMs
      BY <1>0, <1>1, <3>1
    <3>3. (b + 1) * PerMs = b * PerMs + PerMs
      BY <1>0, <1>1
    <3> QED
      BY <1>0, <1>1, <1>4, <3>2, <3>3
  <2> QED
    BY <1>1, <2>1, <2>2, <2>3
<1> QED
  BY <1>1, <1>4 DEF a, b, Floor

LEMMA CursorFacts ==
  ASSUME NEW c, NEW l \in Files
  PROVE  /\ EncodeCursor(c, l).id = l /\ EncodeCursor(c, l).value \in Nat
         /\ EncodeCursor(c, l).value <= SortValue(c, l)
         /\ BySize(c) => EncodeCursor(c, l).value = Size[l]
         /\ ~BySize(c) => EncodeCursor(c, l).value = Floor(Created[l])
<1>1. EncodeCursor(c, l).id = l
      /\ EncodeCursor(c, l).value = IF BySize(c) THEN Size[l] ELSE Floor(Created[l])
  BY DEF EncodeCursor, Floor
<1> QED
  BY <1>1, SortValueType, FloorFacts DEF SortValue

\* A page's cursor leads past all it shows.
LEMMA NotAgain ==
  ASSUME NEW c, NEW l \in Files, NEW g \in Files, g = l \/ Before(c, g, l)
  PROVE  ~Beyond(c, g, EncodeCursor(c, l))
  BY SortValueType, CursorFacts DEF Before, Beyond

\* A later cursor leads to nothing that an earlier one has left behind.
LEMMA Downward ==
  ASSUME NEW c, NEW l \in Files, NEW f \in Files, NEW cur \in Cursors \cup {None},
         Ahead(c, l, cur), Beyond(c, f, EncodeCursor(c, l))
  PROVE  Ahead(c, f, cur)
<1> SUFFICES ASSUME cur # None
             PROVE  Beyond(c, f, cur)
  BY DEF Ahead
<1>1. cur.value \in Nat /\ cur.id \in Nat /\ Beyond(c, l, cur)
  BY SortValueType DEF Cursors, Ahead
<1> QED
  BY <1>1, SortValueType, CursorFacts DEF Beyond

\* A row after the last of the page is beyond its cursor, unless the cursor forgets the difference.
LEMMA Onward ==
  ASSUME NEW c, NEW l \in Files, NEW f \in Files, Before(c, l, f),
         BySize(c) \/ Floor(Created[f]) # EncodeCursor(c, l).value
  PROVE  Beyond(c, f, EncodeCursor(c, l))
<1>1. CASE BySize(c)
  BY <1>1, SortValueType, CursorFacts DEF Before, Beyond, SortValue
<1>2. CASE ~BySize(c)
  <2>1. Created[f] <= Created[l]
    BY <1>2, SortValueType DEF Before, SortValue
  <2>2. Created[f] < Floor(Created[l])
    BY <1>2, <2>1, SortValueType, CursorFacts, FloorFacts
  <2> QED
    BY <1>2, <2>2, CursorFacts DEF Beyond, SortValue
<1> QED
  BY <1>1, <1>2

-----------------------------------------------------------------------------
(* Walks *)

LEMMA ListTypes ==
  ASSUME PagingTypes
  PROVE  /\ index \in Nat \ {0} /\ Len(stack) \in Nat /\ index <= Len(stack) /\ Len(trail) = index - 1
         /\ \A i \in 1..index : stack[i] \in Cursors \cup {None}
         /\ \A i \in 1..(index - 1) : trail[i] \in Pages
<1>1. index \in Nat \ {0} /\ Len(stack) \in Nat /\ index <= Len(stack) /\ Len(trail) = index - 1
  BY DEF PagingTypes
<1>2. ASSUME NEW i \in 1..index
      PROVE  stack[i] \in Cursors \cup {None}
  <2>1. i \in 1..Len(stack)
    BY <1>1
  <2> QED
    BY <2>1, ElementOfSeq DEF PagingTypes
<1>3. ASSUME NEW i \in 1..(index - 1)
      PROVE  trail[i] \in Pages
  BY <1>1, <1>3, ElementOfSeq DEF PagingTypes
<1> QED
  BY <1>1, <1>2, <1>3

\* Next: the walk has one more cursor and one more page.
Extends ==
  /\ index' = index + 1 /\ Len(stack') = index + 1
  /\ stack' \in Seq(Cursors \cup {None}) /\ trail' \in Seq(Pages) /\ Len(trail') = index
  /\ \A i \in 1..index : stack'[i] = stack[i]
  /\ stack'[index + 1] = data.next /\ data.next # None
  /\ \A i \in 1..(index - 1) : trail'[i] = trail[i]
  /\ trail'[index] = data /\ IsPage(data, chip, stack[index])
  /\ chip' = chip

LEMMA NextExtends ==
  ASSUME PagingTypes, Shown, GoNext
  PROVE  Extends
<1> DEFINE D == Cursors \cup {None}
           s == SubSeq(stack, 1, index)
<1>1. /\ stack' = Append(s, data.next) /\ index' = index + 1 /\ trail' = Append(trail, data)
      /\ chip' = chip /\ data # None /\ data.next # None /\ ~IsFetching
  BY DEF GoNext, Visit, Pageable
<1>2. IsPage(data, chip, stack[index]) /\ data \in Pages /\ data.next \in D
  BY <1>1 DEF Shown, PagingTypes, Pages
<1>3. index \in Nat \ {0} /\ \A i \in 1..index : stack[i] \in D
  BY ListTypes
<1>4. /\ s \in Seq(D) /\ Len(s) = index
      /\ \A i \in 1..index : s[i] = stack[i]
  <2> HIDE DEF D
  <2>1. /\ SubSeq(stack, 1, index) \in Seq(D)
        /\ Len(SubSeq(stack, 1, index)) = IF 1 <= index THEN index - 1 + 1 ELSE 0
        /\ \A i \in 1..(index - 1 + 1) : SubSeq(stack, 1, index)[i] = stack[1 + i - 1]
    BY <1>3, SubSeqProperties
  <2> QED
    BY <1>3, <2>1
<1> HIDE DEF s, D
<1>5. /\ stack' \in Seq(D) /\ Len(stack') = index + 1
      /\ \A i \in 1..index : stack'[i] = stack[i]
      /\ stack'[index + 1] = data.next
  BY <1>1, <1>2, <1>3, <1>4, AppendProperties
<1>6. /\ trail' \in Seq(Pages) /\ Len(trail') = index
      /\ \A i \in 1..(index - 1) : trail'[i] = trail[i]
      /\ trail'[index] = data
  <2>1. trail \in Seq(Pages) /\ Len(trail) = index - 1
    BY DEF PagingTypes
  <2> QED
    BY <1>1, <1>2, <1>3, <2>1, AppendProperties
<1> QED
  BY <1>1, <1>2, <1>5, <1>6 DEF Extends, D

\* Previous: the walk is as it was a page earlier.
Shortens ==
  /\ index' = index - 1 /\ index' \in Nat \ {0} /\ stack' = stack /\ chip' = chip
  /\ trail' \in Seq(Pages) /\ Len(trail') = index - 2
  /\ \A i \in 1..(index - 2) : trail'[i] = trail[i]

LEMMA PreviousShortens ==
  ASSUME PagingTypes, GoPrevious
  PROVE  Shortens
<1>1. /\ stack' = stack /\ index' = index - 1 /\ trail' = SubSeq(trail, 1, index - 2)
      /\ chip' = chip /\ index > 1
  BY DEF GoPrevious, Visit
<1>2. index \in Nat \ {0} /\ \A i \in 1..(index - 2) : trail[i] \in Pages
  BY ListTypes
<1>3. /\ SubSeq(trail, 1, index - 2) \in Seq(Pages)
      /\ Len(SubSeq(trail, 1, index - 2)) = IF 1 <= index - 2 THEN index - 2 - 1 + 1 ELSE 0
      /\ \A i \in 1..(index - 2 - 1 + 1) : SubSeq(trail, 1, index - 2)[i] = trail[1 + i - 1]
  BY <1>2, SubSeqProperties
<1> QED
  BY <1>1, <1>2, <1>3 DEF Shortens

\* Paging begins again.
Restarts == stack' = <<None>> /\ index' = 1 /\ trail' = <<>>

Walks == Trodden /\ Descending /\ Covered

LEMMA WalksRestart ==
  ASSUME Restarts
  PROVE  Walks'
<1>1. stack'[1] = None /\ index' = 1
  BY DEF Restarts
<1>2. Trodden'
  BY <1>1 DEF Trodden
<1>3. Descending'
  BY <1>1 DEF Descending
<1>4. Covered'
  BY <1>1 DEF Covered, Ahead
<1> QED
  BY <1>2, <1>3, <1>4 DEF Walks

LEMMA WalksStay ==
  ASSUME Walks, UNCHANGED list
  PROVE  Walks'
  BY DEF Walks, Trodden, Descending, Covered, BlurredAt, IsPage, list

LEMMA WalksShorten ==
  ASSUME PagingTypes, Walks, Shortens
  PROVE  Walks'
<1>0. /\ index' = index - 1 /\ index \in Nat /\ index > 1 /\ stack' = stack /\ chip' = chip
      /\ \A i \in 1..(index' - 1) : trail'[i] = trail[i]
      /\ 1..index' \subseteq 1..index /\ 1..(index' - 1) \subseteq 1..(index - 1)
  BY DEF PagingTypes, Shortens
<1>1. Trodden'
  BY <1>0 DEF Walks, Trodden, IsPage
<1>2. Descending'
  BY <1>0 DEF Walks, Descending
<1>3. Covered'
  <2> SUFFICES ASSUME NEW j \in 1..index', NEW f \in Files,
                      Matches(chip, f), \A i \in 2..j : ~BlurredAt(f, i)',
                      \A i \in 1..(j - 1) : f \in trail'[i].present
               PROVE  (\E i \in 1..(j - 1) : f \in trail'[i].items) \/ Ahead(chip, f, stack[j])
    BY <1>0 DEF Covered
  <2>1. \A i \in 1..(j - 1) : trail'[i] = trail[i]
    BY <1>0
  <2>2. \A i \in 2..j : ~BlurredAt(f, i)
    BY <1>0 DEF BlurredAt
  <2> QED
    BY <1>0, <2>1, <2>2 DEF Walks, Covered
<1> QED
  BY <1>1, <1>2, <1>3 DEF Walks

\* The cursor of the page on the screen, in terms of that page's last row.
LEMMA NextCursor ==
  ASSUME PagingTypes, Extends
  PROVE  \E l \in data.items :
           /\ l \in Files /\ data.next = EncodeCursor(chip, l) /\ Ahead(chip, l, stack[index])
           /\ \A g \in Rows(data.present, chip, stack[index]) \ data.items : g \in Files /\ Before(chip, l, g)
BY PageFacts DEF Extends, Rows

LEMMA TroddenExtends ==
  ASSUME PagingTypes, Trodden, Extends
  PROVE  Trodden'
<1>0. index \in Nat \ {0}
  BY DEF PagingTypes
<1>1. stack'[1] = None
  BY <1>0 DEF Trodden, Extends
<1>2. ASSUME NEW i \in 1..index
      PROVE  /\ IsPage(trail'[i], chip, stack'[i])
             /\ stack'[i + 1] = trail'[i].next /\ stack'[i + 1] # None
  <2>1. CASE i = index
    BY <1>0, <2>1 DEF Extends
  <2>2. CASE i # index
    <3>1. i \in 1..(index - 1) /\ i + 1 \in 1..index
      BY <1>0, <2>2
    <3>2. trail'[i] = trail[i] /\ stack'[i] = stack[i] /\ stack'[i + 1] = stack[i + 1]
      BY <3>1 DEF Extends
    <3> QED
      BY <3>1, <3>2 DEF Trodden
  <2> QED
    BY <2>1, <2>2
<1>3. index' - 1 = index /\ chip' = chip
  BY <1>0 DEF Extends
<1> QED
  BY <1>1, <1>2, <1>3 DEF Trodden, IsPage

LEMMA DescendingExtends ==
  ASSUME PagingTypes, Descending, Extends
  PROVE  Descending'
<1>0. index \in Nat \ {0} /\ index' = index + 1 /\ chip' = chip
  BY DEF PagingTypes, Extends
<1>1. PICK l \in data.items :
        l \in Files /\ data.next = EncodeCursor(chip, l) /\ Ahead(chip, l, stack[index])
  BY NextCursor
<1>2. ASSUME NEW f \in Files, Ahead(chip, f, stack'[index + 1])
      PROVE  Ahead(chip, f, stack[index])
  <2>1. Beyond(chip, f, EncodeCursor(chip, l))
    BY <1>1, <1>2 DEF Extends, Ahead
  <2>2. stack[index] \in Cursors \cup {None}
    BY <1>0, ListTypes
  <2> QED
    BY <1>1, <2>1, <2>2, Downward
<1>3. ASSUME NEW i \in 1..(index + 1), NEW j \in 1..(index + 1), i < j,
             NEW f \in Files, Ahead(chip, f, stack'[j])
      PROVE  Ahead(chip, f, stack'[i])
  <2>1. i \in 1..index /\ stack'[i] = stack[i]
    BY <1>0, <1>3 DEF Extends
  <2>2. CASE j = index + 1
    <3>1. Ahead(chip, f, stack[index])
      BY <1>2, <1>3, <2>2
    <3>2. CASE i = index
      BY <2>1, <3>1, <3>2
    <3>3. CASE i # index
      BY <1>0, <2>1, <3>1, <3>3 DEF Descending
    <3> QED
      BY <3>2, <3>3
  <2>3. CASE j # index + 1
    <3>1. j \in 1..index /\ stack'[j] = stack[j]
      BY <1>0, <2>3 DEF Extends
    <3> QED
      BY <1>3, <2>1, <3>1 DEF Descending
  <2> QED
    BY <2>2, <2>3
<1> QED
  BY <1>0, <1>3 DEF Descending

LEMMA CoveredExtends ==
  ASSUME PagingTypes, Covered, Extends
  PROVE  Covered'
<1>0. /\ index \in Nat \ {0} /\ index' = index + 1 /\ chip' = chip
      /\ data.present \subseteq Files
  BY DEF PagingTypes, Extends, IsPage
<1>1. PICK l \in data.items :
        /\ l \in Files /\ data.next = EncodeCursor(chip, l)
        /\ \A g \in Rows(data.present, chip, stack[index]) \ data.items : g \in Files /\ Before(chip, l, g)
  BY NextCursor
<1>2. ASSUME NEW j \in 1..index, NEW f \in Files, Matches(chip, f),
             \A i \in 2..j : ~BlurredAt(f, i)',
             \A i \in 1..(j - 1) : f \in trail'[i].present
      PROVE  (\E i \in 1..(j - 1) : f \in trail'[i].items) \/ Ahead(chip, f, stack[j])
  <2>1. \A i \in 1..(j - 1) : trail'[i] = trail[i]
    BY <1>0 DEF Extends
  <2>2. \A i \in 2..j : ~BlurredAt(f, i)
    BY <1>0, <1>2 DEF BlurredAt, Extends
  <2> QED
    BY <1>2, <2>1, <2>2 DEF Covered
<1>3. ASSUME NEW f \in Files, Matches(chip, f),
             \A i \in 2..(index + 1) : ~BlurredAt(f, i)',
             \A i \in 1..index : f \in trail'[i].present
      PROVE  (\E i \in 1..index : f \in trail'[i].items) \/ Ahead(chip, f, data.next)
  <2>1. (\E i \in 1..(index - 1) : f \in trail'[i].items) \/ Ahead(chip, f, stack[index])
    <3>1. /\ \A i \in 2..index : ~BlurredAt(f, i)'
          /\ \A i \in 1..(index - 1) : f \in trail'[i].present
      BY <1>0, <1>3
    <3> QED
      BY <1>0, <1>2, <1>3, <3>1
  <2>2. CASE \E i \in 1..(index - 1) : f \in trail'[i].items
    BY <1>0, <2>2
  <2>3. CASE Ahead(chip, f, stack[index]) /\ f \in data.items
    BY <1>0, <2>3 DEF Extends
  <2>4. CASE Ahead(chip, f, stack[index]) /\ f \notin data.items
    <3>1. f \in data.present
      BY <1>0, <1>3 DEF Extends
    <3>2. Before(chip, l, f)
      BY <1>1, <1>3, <2>4, <3>1 DEF Rows
    <3>3. \A i \in 2..(index + 1) : BySize(chip) \/ Floor(Created[f]) # stack'[i].value
      BY <1>0, <1>3 DEF BlurredAt, Floor
    <3>4. BySize(chip) \/ Floor(Created[f]) # EncodeCursor(chip, l).value
      <4>1. index + 1 \in 2..(index + 1) /\ stack'[index + 1] = EncodeCursor(chip, l)
        BY <1>0, <1>1 DEF Extends
      <4> QED
        BY <3>3, <4>1
    <3>5. Beyond(chip, f, data.next)
      BY <1>1, <3>2, <3>4, Onward
    <3> QED
      BY <3>5 DEF Ahead
  <2> QED
    BY <2>1, <2>2, <2>3, <2>4
<1> SUFFICES ASSUME NEW j \in 1..(index + 1), NEW f \in Files,
                    Matches(chip, f), \A i \in 2..j : ~BlurredAt(f, i)',
                    \A i \in 1..(j - 1) : f \in trail'[i].present
             PROVE  (\E i \in 1..(j - 1) : f \in trail'[i].items) \/ Ahead(chip, f, stack'[j])
  BY <1>0 DEF Covered
<1>4. CASE j = index + 1
  <2>1. j - 1 = index /\ stack'[j] = data.next
    BY <1>0, <1>4 DEF Extends
  <2> QED
    BY <1>3, <1>4, <2>1
<1>5. CASE j # index + 1
  <2>1. j \in 1..index /\ stack'[j] = stack[j]
    BY <1>0, <1>5 DEF Extends
  <2> QED
    BY <1>2, <2>1
<1> QED
  BY <1>4, <1>5

LEMMA WalksExtend ==
  ASSUME PagingTypes, Walks, Extends
  PROVE  Walks'
  BY TroddenExtends, DescendingExtends, CoveredExtends DEF Walks

-----------------------------------------------------------------------------
(* The screen and the cache *)

LEMMA AnswerTypes ==
  ASSUME Answers
  PROVE  \A k \in DOMAIN cache : cache[k] \in Pages
  BY PageFacts DEF Answers

\* A page with another key shows its own answer, or is being fetched.
LEMMA ShowsOwn ==
  ASSUME PagingTypes, Answers, NEW c \in Chips \cup {"all"}, NEW cur \in Cursors \cup {None},
         NEW usable \in SUBSET (DOMAIN cache), Show(c, cur, usable)
  PROVE  /\ data' \in Pages \cup {None} /\ fetching' \subseteq Keys
         /\ QueryKey(c, cur) \notin fetching' => IsPage(data', c, cur)
<1> DEFINE k == QueryKey(c, cur)
<1>1. k \in Keys /\ k.chip = c /\ k.cursor = cur
  BY DEF QueryKey, Keys
<1>2. /\ data' = IF k \in DOMAIN cache THEN cache[k] ELSE data
      /\ fetching' = fetching \cup {k} \/ (k \in usable /\ fetching' = fetching)
  BY DEF Show
<1> HIDE DEF k
<1>3. data' \in Pages \cup {None} /\ fetching' \subseteq Keys
  BY <1>1, <1>2, AnswerTypes DEF PagingTypes
<1>4. k \notin fetching' => IsPage(data', c, cur)
  BY <1>1, <1>2 DEF Answers
<1> QED
  BY <1>3, <1>4 DEF k

\* The key on the screen, as long as the list stays as it is.
LEMMA CurrentStays ==
  ASSUME UNCHANGED list
  PROVE  Current' = Current
  BY DEF list, Current, QueryKey

LEMMA CurrentType ==
  ASSUME PagingTypes
  PROVE  Current \in Keys /\ Current.chip = chip /\ Current.cursor = stack[index]
<1>1. stack[index] \in Cursors \cup {None}
  BY ListTypes
<1> QED
  BY <1>1 DEF PagingTypes, Current, QueryKey, Keys

\* A list that goes to another page: the walk of that page, and what is shown.
LEMMA InvShow ==
  ASSUME PagingInv, NEW c \in Chips \cup {"all"}, NEW cur, NEW usable \in SUBSET (DOMAIN cache),
         Show(c, cur, usable), chip' = c, cache' = cache, present' \subseteq Files,
         index' \in Nat \ {0}, stack' \in Seq(Cursors \cup {None}), index' <= Len(stack'),
         trail' \in Seq(Pages), Len(trail') = index' - 1, stack'[index'] = cur, Walks'
  PROVE  PagingInv'
<1>1. cur \in Cursors \cup {None}
  <2>1. index' \in 1..Len(stack')
    OBVIOUS
  <2> QED
    BY <2>1, ElementOfSeq
<1>2. /\ data' \in Pages \cup {None} /\ fetching' \subseteq Keys
      /\ QueryKey(c, cur) \notin fetching' => IsPage(data', c, cur)
  BY <1>1, ShowsOwn DEF PagingInv
<1>3. PagingTypes'
  BY <1>2 DEF PagingInv, PagingTypes
<1>4. Answers'
  BY DEF PagingInv, Answers, IsPage
<1>5. Shown'
  BY <1>2 DEF Shown, IsFetching, Current, QueryKey, IsPage
<1> QED
  BY <1>3, <1>4, <1>5 DEF PagingInv, Walks

\* A list that stays where it is.
LEMMA InvStay ==
  ASSUME PagingInv, UNCHANGED list, present' \subseteq Files,
         data' \in Pages \cup {None}, DOMAIN cache' \subseteq Keys, fetching' \subseteq Keys,
         Answers', Shown'
  PROVE  PagingInv'
<1>1. PagingTypes'
  BY DEF PagingInv, PagingTypes, list
<1>2. Walks'
  BY WalksStay DEF PagingInv, Walks
<1> QED
  BY <1>1, <1>2 DEF PagingInv, Walks

LEMMA EmptyTrail == <<>> \in Seq(Pages) /\ Len(<<>>) = 0 /\ <<None>> \in Seq(Cursors \cup {None})
                    /\ Len(<<None>>) = 1 /\ <<None>>[1] = None
  BY EmptySeq

LEMMA InvPages ==
  ASSUME PagingInv, GoNext \/ GoPrevious \/ CloseForm
  PROVE  PagingInv'
<1>1. /\ Show(chip, stack'[index'], DOMAIN cache) /\ UNCHANGED <<present, chip, cache>>
      /\ chip \in Chips \cup {"all"} /\ present \subseteq Files
  BY DEF GoNext, GoPrevious, CloseForm, Visit, PagingInv, PagingTypes
<1>2. /\ index' \in Nat \ {0} /\ stack' \in Seq(Cursors \cup {None}) /\ index' <= Len(stack')
      /\ trail' \in Seq(Pages) /\ Len(trail') = index' - 1 /\ Walks'
  <2>1. CASE GoNext
    <3>1. Extends
      BY <2>1, NextExtends DEF PagingInv
    <3>2. Walks'
      BY <3>1, WalksExtend DEF PagingInv, Walks
    <3> QED
      BY <3>1, <3>2 DEF Extends, PagingInv, PagingTypes
  <2>2. CASE GoPrevious
    <3>1. Shortens
      BY <2>2, PreviousShortens DEF PagingInv
    <3>2. Walks'
      BY <3>1, WalksShorten DEF PagingInv, Walks
    <3> QED
      BY <3>1, <3>2 DEF Shortens, PagingInv, PagingTypes
  <2>3. CASE CloseForm
    <3>1. Restarts
      BY <2>3 DEF CloseForm, Visit, Restarts
    <3> QED
      BY <3>1, WalksRestart, EmptyTrail DEF Restarts
  <2> QED
    BY <2>1, <2>2, <2>3
<1> QED
  BY <1>1, <1>2, InvShow

\* Another query, or this one after a file was created: the list begins again.
LEMMA InvRestarts ==
  ASSUME PagingInv, (\E c \in Chips : Choose(c)) \/ (\E f \in Files : CreateHere(f))
  PROVE  PagingInv'
<1>1. PICK usable \in SUBSET (DOMAIN cache) :
        /\ Restarts /\ Show(chip', None, usable)
        /\ chip' \in Chips \cup {"all"} /\ cache' = cache /\ present' \subseteq Files
  <2>1. CASE \E c \in Chips : Choose(c)
    BY <2>1 DEF Choose, Restarts, PagingInv, PagingTypes
  <2>2. CASE \E f \in Files : CreateHere(f)
    BY <2>2 DEF CreateHere, Change, Restarts, PagingInv, PagingTypes
  <2> QED
    BY <2>1, <2>2
<1>2. Walks'
  BY <1>1, WalksRestart
<1>3. /\ index' = 1 /\ stack' = <<None>> /\ trail' = <<>>
  BY <1>1 DEF Restarts
<1> QED
  BY <1>1, <1>2, <1>3, EmptyTrail, InvShow

LEMMA InvFetches ==
  ASSUME PagingInv, NEW k \in fetching, Fetched(k) \/ FetchFails(k)
  PROVE  PagingInv'
<1>1. /\ UNCHANGED list /\ present' = present /\ fetching' = fetching \ {k}
      /\ k \in Keys /\ present \subseteq Files /\ Current' = Current
  BY CurrentStays DEF Fetched, FetchFails, PagingInv, PagingTypes
<1>2. CASE Fetched(k)
  <2> DEFINE page == ListPage(k.chip, k.cursor)
  <2>1. /\ cache' = [j \in DOMAIN cache \cup {k} |-> IF j = k THEN page ELSE cache[j]]
        /\ data' = IF k = Current THEN page ELSE data
    BY <1>2 DEF Fetched
  <2>2. IsPage(page, k.chip, k.cursor) /\ page \in Pages
    BY <1>1, PageMade, PageFacts DEF ListPage
  <2> HIDE DEF page
  <2>3. Answers'
    BY <2>1, <2>2 DEF PagingInv, Answers, IsPage
  <2>4. Shown'
    <3>1. CASE k = Current
      <4>1. data' = page /\ k.chip = chip' /\ k.cursor = stack'[index']
        BY <1>1, <2>1, <3>1, CurrentType DEF PagingInv, list
      <4> QED
        BY <2>2, <4>1 DEF Shown, IsPage
    <3>2. CASE k # Current
      <4>1. data' = data /\ (IsFetching => IsFetching')
        BY <1>1, <2>1, <3>2 DEF IsFetching
      <4> QED
        BY <1>1, <4>1 DEF PagingInv, Shown, IsPage, list
    <3> QED
      BY <3>1, <3>2
  <2>5. DOMAIN cache' \subseteq Keys /\ data' \in Pages \cup {None} /\ fetching' \subseteq Keys
    BY <1>1, <2>1, <2>2 DEF PagingInv, PagingTypes
  <2> QED
    BY <1>1, <2>3, <2>4, <2>5, InvStay
<1>3. CASE FetchFails(k)
  <2>1. cache' = cache /\ data' = IF k = Current THEN None ELSE data
    BY <1>3 DEF FetchFails
  <2>2. Answers'
    BY <2>1 DEF PagingInv, Answers, IsPage
  <2>3. Shown'
    <3>1. CASE k = Current
      BY <2>1, <3>1 DEF Shown
    <3>2. CASE k # Current
      <4>1. data' = data /\ (IsFetching => IsFetching')
        BY <1>1, <2>1, <3>2 DEF IsFetching
      <4> QED
        BY <1>1, <4>1 DEF PagingInv, Shown, IsPage, list
    <3> QED
      BY <3>1, <3>2
  <2>4. DOMAIN cache' \subseteq Keys /\ data' \in Pages \cup {None} /\ fetching' \subseteq Keys
    BY <1>1, <2>1 DEF PagingInv, PagingTypes
  <2> QED
    BY <1>1, <2>2, <2>3, <2>4, InvStay
<1> QED
  BY <1>2, <1>3

\* A refetch, a deletion and the changes of others leave the answers and the page where they are.
LEMMA InvOthers ==
  ASSUME PagingInv,
         \/ Refetch
         \/ \E f \in Files : \/ DeleteHere(f)
                             \/ ChangeElsewhere(present \cup {f})
                             \/ ChangeElsewhere(present \ {f})
         \/ UNCHANGED vars
  PROVE  PagingInv'
<1>1. /\ UNCHANGED list /\ UNCHANGED <<data, cache>> /\ present' \subseteq Files
      /\ fetching' \in {fetching, fetching \cup {Current}}
  BY DEF Refetch, DeleteHere, ChangeElsewhere, Change, PagingInv, PagingTypes, vars, list
<1>2. Current' = Current /\ Current \in Keys
  BY <1>1, CurrentStays, CurrentType DEF PagingInv
<1>3. Answers'
  BY <1>1 DEF PagingInv, Answers, IsPage
<1>4. Shown'
  <2>1. IsFetching => IsFetching'
    BY <1>1, <1>2 DEF IsFetching
  <2> QED
    BY <1>1, <2>1 DEF PagingInv, Shown, IsPage, list
<1>5. DOMAIN cache' \subseteq Keys /\ data' \in Pages \cup {None} /\ fetching' \subseteq Keys
  BY <1>1, <1>2 DEF PagingInv, PagingTypes
<1> QED
  BY <1>1, <1>3, <1>4, <1>5, InvStay

-----------------------------------------------------------------------------
(* The theorems *)

LEMMA InvInit ==
  ASSUME Init
  PROVE  PagingInv
<1>1. /\ present \subseteq Files /\ chip = "all" /\ stack = <<None>> /\ index = 1 /\ trail = <<>>
      /\ data = None /\ cache = <<>> /\ fetching = {QueryKey("all", None)} /\ stack[1] = None
  BY PagingAssumption DEF Init
<1>2. DOMAIN cache = {}
  BY <1>1
<1>3. fetching \subseteq Keys
  BY <1>1 DEF Keys, QueryKey
<1>4. PagingTypes
  BY <1>1, <1>2, <1>3, EmptyTrail DEF PagingTypes
<1>5. Answers /\ Shown
  BY <1>1, <1>2 DEF Answers, Shown
<1>6. Trodden /\ Descending /\ Covered
  BY <1>1 DEF Trodden, Descending, Covered, Ahead
<1> QED
  BY <1>4, <1>5, <1>6 DEF PagingInv

\* However pages are turned, fetched, restarted and dropped while files come and go, what is cached
\* is some answer of its own query, and the walk to the page on the screen has left nothing behind
\* that was there all along (cursor.util.ts, resource.repository.ts, useResources and DataTable).
THEOREM PagingHolds == Spec => []PagingInv
<1>1. Init => PagingInv
  BY InvInit
<1>2. PagingInv /\ [Next]_vars => PagingInv'
  <2> SUFFICES ASSUME PagingInv, [Next]_vars
               PROVE  PagingInv'
    OBVIOUS
  <2>1. CASE GoNext \/ GoPrevious \/ CloseForm
    BY <2>1, InvPages
  <2>2. CASE Refetch \/ UNCHANGED vars
    BY <2>2, InvOthers
  <2>3. CASE \E c \in Chips : Choose(c)
    BY <2>3, InvRestarts
  <2>4. CASE \E k \in fetching : Fetched(k) \/ FetchFails(k)
    BY <2>4, InvFetches
  <2>5. CASE \E f \in Files : CreateHere(f)
    BY <2>5, InvRestarts
  <2>6. CASE \E f \in Files : \/ DeleteHere(f)
                              \/ ChangeElsewhere(present \cup {f})
                              \/ ChangeElsewhere(present \ {f})
    BY <2>6, InvOthers
  <2> QED
    BY <2>1, <2>2, <2>3, <2>4, <2>5, <2>6 DEF Next
<1> QED
  BY <1>1, <1>2, PTL DEF Spec

\* The walk with the page on the screen: each of its pages is an answer to its cursor.
LEMMA WalkIs ==
  ASSUME PagingInv, Settled
  PROVE  /\ index \in Nat \ {0} /\ Walk[index] = data
         /\ \A i \in 1..(index - 1) : Walk[i] = trail[i]
         /\ \A i \in 1..index : stack[i] \in Cursors \cup {None} /\ IsPage(Walk[i], chip, stack[i])
         /\ \A i \in 1..(index - 1) : stack[i + 1] = Walk[i].next /\ Walk[i].next # None
<1>1. /\ index \in Nat \ {0} /\ Len(trail) = index - 1 /\ trail \in Seq(Pages)
      /\ data \in Pages /\ IsPage(data, chip, stack[index])
      /\ \A i \in 1..index : stack[i] \in Cursors \cup {None}
  BY ListTypes DEF PagingInv, PagingTypes, Settled, Shown
<1>2. Walk[index] = data /\ \A i \in 1..(index - 1) : Walk[i] = trail[i]
  BY <1>1, AppendProperties DEF Walk
<1>3. ASSUME NEW i \in 1..index
      PROVE  IsPage(Walk[i], chip, stack[i])
  <2>1. CASE i = index
    BY <1>1, <1>2, <2>1
  <2>2. CASE i # index
    <3>1. i \in 1..(index - 1)
      BY <1>1, <2>2
    <3> QED
      BY <1>2, <3>1 DEF PagingInv, Trodden
  <2> QED
    BY <2>1, <2>2
<1>4. \A i \in 1..(index - 1) : stack[i + 1] = Walk[i].next /\ Walk[i].next # None
  BY <1>2 DEF PagingInv, Trodden
<1> QED
  BY <1>1, <1>2, <1>3, <1>4

LEMMA Apart ==
  ASSUME PagingInv, Settled, NEW i \in 1..index, NEW j \in 1..index, i < j
  PROVE  Walk[i].items \cap Walk[j].items = {}
<1>0. index \in Nat \ {0} /\ i \in 1..(index - 1) /\ i + 1 \in 1..index /\ i + 1 <= j
  BY WalkIs
<1>1. /\ IsPage(Walk[i], chip, stack[i]) /\ IsPage(Walk[j], chip, stack[j])
      /\ stack[i + 1] = Walk[i].next /\ Walk[i].next # None
  BY <1>0, WalkIs
<1>2. PICK l \in Walk[i].items :
        /\ Walk[i].next = EncodeCursor(chip, l)
        /\ \A g \in Walk[i].items \ {l} : Before(chip, g, l)
  BY <1>1, PageFacts
<1>3. Walk[i].items \subseteq Files
  BY <1>1, PageFacts
<1>4. ASSUME NEW f \in Walk[i].items, f \in Walk[j].items
      PROVE  FALSE
  <2>1. Ahead(chip, f, stack[j])
    BY <1>1, <1>4, PageFacts DEF Rows
  <2>2. Ahead(chip, f, stack[i + 1])
    <3>1. CASE i + 1 = j
      BY <2>1, <3>1
    <3>2. CASE i + 1 # j
      <4>1. i + 1 < j
        BY <1>0, <3>2
      <4> QED
        BY <1>0, <1>3, <1>4, <2>1, <4>1 DEF PagingInv, Descending
    <3> QED
      BY <3>1, <3>2
  <2>3. Beyond(chip, f, EncodeCursor(chip, l))
    BY <1>1, <1>2, <2>2 DEF Ahead
  <2>4. ~Beyond(chip, f, EncodeCursor(chip, l))
    BY <1>2, <1>3, <1>4, NotAgain
  <2> QED
    BY <2>3, <2>4
<1> QED
  BY <1>4

\* Going forward shows no file twice: each page starts beyond the last row of the one before, which
\* the cursor names, and the cursors only go down (decodeCursor and the keyset condition).
THEOREM ShownOnce == Spec => []NothingTwice
<1>1. PagingInv => NothingTwice
  <2> SUFFICES ASSUME PagingInv, Settled, NEW i \in 1..index, NEW j \in 1..index, i # j
               PROVE  Walk[i].items \cap Walk[j].items = {}
    BY DEF NothingTwice
  <2>1. index \in Nat
    BY WalkIs
  <2>2. CASE i < j
    BY <2>2, Apart
  <2>3. CASE j < i
    BY <2>3, Apart
  <2> QED
    BY <2>1, <2>2, <2>3
<1> QED
  BY <1>1, PagingHolds, PTL

\* A walk to the end has shown every file that was there when each page was read, except for one
\* created in the millisecond a cursor of the walk names (toISOString).
THEOREM ShownAll == Spec => []NothingMissed
<1>1. PagingInv => NothingMissed
  <2> SUFFICES ASSUME PagingInv, Settled, data.next = None, NEW f \in Files, Matches(chip, f),
                      ~Blurred(f), \A i \in 1..index : f \in Walk[i].present
               PROVE  \E i \in 1..index : f \in Walk[i].items
    BY DEF NothingMissed
  <2>0. /\ index \in Nat \ {0} /\ index \in 1..index /\ Walk[index] = data
        /\ \A i \in 1..(index - 1) : Walk[i] = trail[i] /\ i \in 1..index
        /\ IsPage(data, chip, stack[index])
    BY WalkIs
  <2>1. (\E i \in 1..(index - 1) : f \in trail[i].items) \/ Ahead(chip, f, stack[index])
    <3>1. \A i \in 2..index : ~BlurredAt(f, i)
      BY DEF Blurred
    <3>2. \A i \in 1..(index - 1) : f \in trail[i].present
      BY <2>0
    <3> QED
      BY <2>0, <3>1, <3>2 DEF PagingInv, Covered
  <2>2. CASE \E i \in 1..(index - 1) : f \in trail[i].items
    BY <2>0, <2>2
  <2>3. CASE Ahead(chip, f, stack[index])
    <3>1. data.items = Rows(data.present, chip, stack[index])
      BY <2>0, PageFacts
    <3>2. f \in data.items
      BY <2>0, <2>3, <3>1 DEF Rows
    <3> QED
      BY <2>0, <3>2
  <2> QED
    BY <2>1, <2>2, <2>3
<1> QED
  BY <1>1, PagingHolds, PTL
=============================================================================
