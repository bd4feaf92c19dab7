------------------------ MODULE PassportReadsProofs ------------------------
(***************************************************************************)
(* Theorems about traversals by cursor and about views, for every set of   *)
(* passports, every page limit and any number of writes in between.        *)
(***************************************************************************)
EXTENDS PassportReads, FiniteSetTheorems, WellFoundedInduction, SequenceTheorems, TLAPS

-----------------------------------------------------------------------------
(* The order of a search. *)

Stamped == records \in [Dpps -> [version : Nat, updatedAt : Nat, retired : BOOLEAN]]

LEMMA OrderIsTotal ==
  ASSUME Stamped
  PROVE  /\ \A a, b \in Dpps : a # b => Before(a, b) \/ Before(b, a)
         /\ \A a, b \in Dpps : Before(a, b) => ~Before(b, a)
         /\ \A a, b, c \in Dpps : Before(a, b) /\ Before(b, c) => Before(a, c)
         /\ \A a, b, c \in Dpps : ~Before(b, a) /\ ~Before(c, b) => ~Before(c, a)
<1>1. \A a \in Dpps : a \in Nat /\ records[a].updatedAt \in Nat
  BY DppAssumption DEF Stamped
<1> QED
  BY <1>1 DEF Before

(* The least of a set of numbers. *)
LEMMA LeastExists ==
  ASSUME NEW T \in SUBSET Nat, T # {}
  PROVE  \E n \in T : \A m \in T : n <= m
<1>1. PICK n \in T : \A m \in T : ~(<<m, n>> \in OpToRel(<, Nat))
  BY WFMin, NatLessThanWellFounded
<1>2. \A m \in T : ~(m < n)
  BY <1>1 DEF OpToRel
<1> QED
  BY <1>2

(* A set of passports that is not empty has a first and a last one: the    *)
(* one with the fewest before it, or behind it.                            *)
LEMMA FirstExists ==
  ASSUME Stamped, NEW S \in SUBSET Dpps, S # {}
  PROVE  \E d \in S : \A x \in S : ~Before(x, d)
<1> DEFINE earlier(d) == {x \in S : Before(x, d)}
           counts == {Cardinality(earlier(d)) : d \in S}
<1>1. \A d \in S : IsFiniteSet(earlier(d)) /\ Cardinality(earlier(d)) \in Nat
  BY FS_Subset, FS_CardinalityType, DppAssumption
<1>2. counts \in SUBSET Nat /\ counts # {}
  BY <1>1
<1>3. PICK n \in counts : \A m \in counts : n <= m
  <2> HIDE DEF counts
  <2> QED
    BY <1>2, LeastExists
<1>4. PICK d \in S : Cardinality(earlier(d)) = n
  BY <1>3
<1>5. ASSUME NEW x \in S, Before(x, d)
      PROVE  FALSE
  <2>1. earlier(x) \in SUBSET earlier(d) /\ x \in earlier(d) /\ x \notin earlier(x)
    BY <1>5, OrderIsTotal
  <2> HIDE DEF earlier
  <2>2. Cardinality(earlier(x)) <= Cardinality(earlier(d)) /\ Cardinality(earlier(x)) # Cardinality(earlier(d))
    BY <1>1, <2>1, FS_Subset
  <2>3. Cardinality(earlier(d)) <= Cardinality(earlier(x))
    BY <1>3, <1>4
  <2> QED
    BY <1>1, <2>2, <2>3
<1> QED
  BY <1>5

LEMMA LastExists ==
  ASSUME Stamped, NEW S \in SUBSET Dpps, S # {}
  PROVE  \E d \in S : \A x \in S : ~Before(d, x)
<1> DEFINE later(d) == {x \in S : Before(d, x)}
           counts == {Cardinality(later(d)) : d \in S}
<1>1. \A d \in S : IsFiniteSet(later(d)) /\ Cardinality(later(d)) \in Nat
  BY FS_Subset, FS_CardinalityType, DppAssumption
<1>2. counts \in SUBSET Nat /\ counts # {}
  BY <1>1
<1>3. PICK n \in counts : \A m \in counts : n <= m
  <2> HIDE DEF counts
  <2> QED
    BY <1>2, LeastExists
<1>4. PICK d \in S : Cardinality(later(d)) = n
  BY <1>3
<1>5. ASSUME NEW x \in S, Before(d, x)
      PROVE  FALSE
  <2>1. later(x) \in SUBSET later(d) /\ x \in later(d) /\ x \notin later(x)
    BY <1>5, OrderIsTotal
  <2> HIDE DEF later
  <2>2. Cardinality(later(x)) <= Cardinality(later(d)) /\ Cardinality(later(x)) # Cardinality(later(d))
    BY <1>1, <2>1, FS_Subset
  <2>3. Cardinality(later(d)) <= Cardinality(later(x))
    BY <1>3, <1>4
  <2> QED
    BY <1>1, <2>2, <2>3
<1> QED
  BY <1>5

(* A page is a beginning of what is left: unless it is all of it, it ends  *)
(* with a passport, none of it is behind that, and all that is left out    *)
(* is.                                                                     *)
LEMMA PageIsPrefix ==
  ASSUME Stamped, NEW rest \in SUBSET Dpps, Page(rest) # rest
  PROVE  /\ LastOf(Page(rest)) \in Page(rest)
         /\ \A x \in Page(rest) : ~Before(LastOf(Page(rest)), x)
         /\ \A x \in rest \ Page(rest) : Before(LastOf(Page(rest)), x)
<1> DEFINE earlier(d) == {x \in rest : Before(x, d)}
           page == Page(rest)
           last == LastOf(page)
<1>1. \A d \in rest : IsFiniteSet(earlier(d)) /\ Cardinality(earlier(d)) \in Nat
  BY FS_Subset, FS_CardinalityType, DppAssumption
<1>2. page \in SUBSET rest /\ \A d \in rest : d \in page <=> Cardinality(earlier(d)) < PageLimit
  BY DEF Page
<1>3. rest # {}
  BY <1>2
<1>4. PICK f \in rest : \A x \in rest : ~Before(x, f)
  BY <1>3, FirstExists
<1>5. earlier(f) = {}
  BY <1>4
<1>6. f \in page
  BY <1>2, <1>5, FS_EmptySet, LimitAssumption
<1>7. \E d \in page : \A x \in page : ~Before(d, x)
  <2>1. page \in SUBSET Dpps /\ page # {}
    BY <1>2, <1>6
  <2> HIDE DEF page
  <2> QED
    BY <2>1, LastExists
<1>8. last \in page /\ \A x \in page : ~Before(last, x)
  BY <1>7 DEF LastOf
<1>9. ASSUME NEW x \in rest, x \notin page
      PROVE  Before(last, x)
  <2>1. last \in Dpps /\ x \in Dpps /\ last # x /\ last \in rest
    BY <1>2, <1>8, <1>9
  <2>2. SUFFICES ASSUME Before(x, last) PROVE FALSE
    BY <2>1, OrderIsTotal
  <2>3. earlier(x) \in SUBSET earlier(last)
    BY <2>1, <2>2, OrderIsTotal
  <2> HIDE DEF earlier, last, page
  <2>4. Cardinality(earlier(x)) <= Cardinality(earlier(last))
    BY <1>1, <2>1, <2>3, FS_Subset
  <2> QED
    BY <1>1, <1>2, <1>8, <1>9, <2>1, <2>4, LimitAssumption
<1> QED
  BY <1>8, <1>9
-----------------------------------------------------------------------------
(* Traversals. *)

Item == [dpp : Dpps, version : Nat]
Shown == UNION {pages[n] : n \in DOMAIN pages}

(* The store: a commit that is being written has the time of the clock,    *)
(* and no record is newer.                                                 *)
StoreInv ==
  /\ Stamped
  /\ now \in Nat /\ \A d \in Dpps : records[d].updatedAt <= now
  /\ writer \in [dpp : Dpps \cup {NoDpp}, updatedAt : Nat]
  /\ writer # NotWriting => writer.dpp \in Dpps /\ writer.updatedAt = now

TraversalType ==
  /\ pages \in Seq(SUBSET Item)
  /\ cursor \in Stored \cup {NoDpp} /\ (cursor # NoDpp => pages # <<>>)
  /\ there \subseteq Stored /\ moved \in BOOLEAN

(* What has been listed was stored, and if it is as it was listed it is    *)
(* not behind the cursor: the next page cannot have it.                    *)
ListedBefore ==
  \A item \in Shown :
    /\ item.dpp \in Stored /\ item.version <= records[item.dpp].version
    /\ cursor # NoDpp /\ item.version = records[item.dpp].version => ~Before(cursor, item.dpp)

(* Nothing is left behind: as long as the cursor is as it was listed, what *)
(* is still to be listed comes after it.                                   *)
RestIsAhead ==
  pages # <<>> /\ ~moved =>
    IF cursor = NoDpp THEN there \subseteq Listed
    ELSE [dpp |-> cursor, version |-> records[cursor].version] \in pages[Len(pages)] =>
           \A d \in there : d \in Listed \/ Before(cursor, d)

TraversalInv == StoreInv /\ TraversalType /\ ListedBefore /\ NoVersionTwice /\ RestIsAhead

LEMMA TraversalInit == Init => TraversalInv
<1> SUFFICES ASSUME Init PROVE TraversalInv
  OBVIOUS
<1>1. NotWriting \in [dpp : Dpps \cup {NoDpp}, updatedAt : Nat]
  BY DEF NotWriting
<1>2. StoreInv
  BY <1>1 DEF Init, StoreInv, Stamped
<1>3. pages = <<>> /\ DOMAIN pages = {} /\ cursor = NoDpp /\ there = {} /\ moved = FALSE
  BY DEF Init
<1>4. Shown = {}
  BY <1>3 DEF Shown
<1>5. TraversalType
  <2>1. <<>> \in Seq(SUBSET Item)
    OBVIOUS
  <2> QED
    BY <1>3, <2>1 DEF TraversalType
<1>6. NoVersionTwice /\ RestIsAhead
  BY <1>3 DEF NoVersionTwice, RestIsAhead
<1> QED
  BY <1>2, <1>4, <1>5, <1>6 DEF TraversalInv, ListedBefore

LEMMA StampKeepsTraversal ==
  ASSUME TraversalInv, NEW d \in Dpps, NEW t \in now..MaxTime, Stamp(d, t)
  PROVE  TraversalInv'
<1>1. UNCHANGED <<records, cursor, pages, there, moved>>
  BY DEF Stamp, traversal
<1>3. StoreInv'
  <2>1. now \in Nat /\ t \in Nat /\ now <= t
    BY LimitAssumption DEF TraversalInv, StoreInv
  <2>2. \A x \in Dpps : records[x].updatedAt \in Nat /\ records[x].updatedAt <= now
    BY DEF TraversalInv, StoreInv, Stamped
  <2>3. \A x \in Dpps : records[x].updatedAt <= t
    BY <2>1, <2>2
  <2> QED
    BY <1>1, <2>1, <2>3 DEF TraversalInv, StoreInv, Stamp, Stamped, NotWriting
<1>4. Stored' = Stored /\ Shown' = Shown /\ Listed' = Listed
  BY <1>1 DEF Stored, Shown, Listed
<1>5. TraversalType' /\ NoVersionTwice' /\ ListedBefore' /\ RestIsAhead'
  BY <1>1, <1>4 DEF TraversalInv, TraversalType, NoVersionTwice, ListedBefore, RestIsAhead, Before
<1> QED
  BY <1>3, <1>5 DEF TraversalInv

(* A commit moves a passport to the end of the order and makes another     *)
(* version of it.                                                          *)
LEMMA PublishMoves ==
  ASSUME TraversalInv, NEW retired \in BOOLEAN, Publish(retired)
  PROVE  /\ writer.dpp \in Dpps
         /\ records'[writer.dpp].version = records[writer.dpp].version + 1
         /\ records[writer.dpp].updatedAt <= records'[writer.dpp].updatedAt
         /\ records'[writer.dpp].updatedAt = now
         /\ \A d \in Dpps \ {writer.dpp} : records'[d] = records[d]
         /\ Stamped' /\ StoreInv'
<1>1. writer.dpp \in Dpps /\ writer.updatedAt = now /\ now \in Nat /\ Stamped
  BY DEF TraversalInv, StoreInv, Publish
<1>2. records' = [records EXCEPT ![writer.dpp] =
        [version |-> records[writer.dpp].version + 1, updatedAt |-> now, retired |-> retired]]
  BY <1>1 DEF Publish
<1>3. Stamped'
  BY <1>1, <1>2 DEF Stamped
<1>4. /\ records'[writer.dpp] = [version |-> records[writer.dpp].version + 1, updatedAt |-> now, retired |-> retired]
      /\ \A d \in Dpps \ {writer.dpp} : records'[d] = records[d]
  BY <1>1, <1>2 DEF Stamped
<1>5. \A d \in Dpps : records[d].updatedAt <= now
  BY DEF TraversalInv, StoreInv
<1>6. \A d \in Dpps : records'[d].updatedAt <= now
  BY <1>1, <1>4, <1>5
<1>7. writer' = NotWriting /\ now' = now /\ NotWriting \in [dpp : Dpps \cup {NoDpp}, updatedAt : Nat]
  BY DEF Publish, NotWriting
<1>8. StoreInv'
  BY <1>1, <1>3, <1>6, <1>7 DEF StoreInv
<1> QED
  BY <1>1, <1>3, <1>4, <1>5, <1>8

LEMMA PublishKeepsTraversal ==
  ASSUME TraversalInv, NEW retired \in BOOLEAN, Publish(retired)
  PROVE  TraversalInv'
<1> DEFINE w == writer.dpp
           later(a, b) == \/ records'[a].updatedAt < records'[b].updatedAt
                          \/ records'[a].updatedAt = records'[b].updatedAt /\ a < b
<1>1. UNCHANGED <<cursor, pages, there, moved>>
  BY DEF Publish, traversal
<1>2. Stamped /\ \A x \in Dpps : x \in Nat /\ records[x].version \in Nat /\ records[x].updatedAt \in Nat
                                /\ records[x].updatedAt <= now
  BY DppAssumption DEF TraversalInv, StoreInv, Stamped
<1>3. /\ w \in Dpps /\ records'[w].version = records[w].version + 1
      /\ records[w].updatedAt <= now /\ records'[w].updatedAt = now /\ now \in Nat
      /\ \A d \in Dpps \ {w} : records'[d] = records[d]
      /\ StoreInv'
  BY <1>2, PublishMoves DEF TraversalInv, StoreInv
<1> HIDE DEF w
<1>4. Stored \subseteq Stored' /\ Shown' = Shown /\ Listed' = Listed
  BY <1>1, <1>2, <1>3 DEF Stored, Shown, Listed
<1>5. TraversalType' /\ NoVersionTwice'
  BY <1>1, <1>4 DEF TraversalInv, TraversalType, NoVersionTwice
<1>6. cursor \in Dpps \cup {NoDpp} /\ there \subseteq Dpps /\ NoDpp \notin Dpps
  BY DppAssumption DEF TraversalInv, TraversalType, Stored
<1>7. \A item \in Shown : item.dpp \in Dpps /\ item.version \in Nat
  BY DEF TraversalInv, TraversalType, Shown, Item
<1>8. \A c, d \in Dpps : d # w /\ ~Before(c, d) => ~later(c, d)
  BY <1>2, <1>3 DEF Before
<1>9. \A c, d \in Dpps : c # w /\ Before(c, d) => later(c, d)
  BY <1>2, <1>3 DEF Before
<1>10. ListedBefore'
  <2> SUFFICES ASSUME NEW item \in Shown
               PROVE  /\ item.dpp \in Stored' /\ item.version <= records'[item.dpp].version
                      /\ cursor # NoDpp /\ item.version = records'[item.dpp].version => ~later(cursor, item.dpp)
    BY <1>1, <1>4 DEF ListedBefore, Before
  <2>1. /\ item.dpp \in Dpps /\ item.version \in Nat /\ item.version <= records[item.dpp].version
        /\ item.dpp \in Stored'
    BY <1>4, <1>7 DEF TraversalInv, ListedBefore
  <2>2. CASE item.dpp = w
    BY <1>2, <1>3, <2>1, <2>2
  <2>3. CASE item.dpp # w
    <3>1. records'[item.dpp] = records[item.dpp]
      BY <1>3, <2>1, <2>3
    <3>2. cursor # NoDpp /\ item.version = records[item.dpp].version => ~Before(cursor, item.dpp)
      BY DEF TraversalInv, ListedBefore
    <3> HIDE DEF later
    <3> QED
      BY <1>6, <1>8, <2>1, <2>3, <3>1, <3>2
  <2> QED
    BY <2>2, <2>3
<1>11. RestIsAhead'
  <2> SUFFICES ASSUME pages # <<>>, ~moved
               PROVE  IF cursor = NoDpp THEN there \subseteq Listed
                      ELSE [dpp |-> cursor, version |-> records'[cursor].version] \in pages[Len(pages)] =>
                             \A d \in there : d \in Listed \/ later(cursor, d)
    BY <1>1, <1>4 DEF RestIsAhead, Before
  <2>1. IF cursor = NoDpp THEN there \subseteq Listed
        ELSE [dpp |-> cursor, version |-> records[cursor].version] \in pages[Len(pages)] =>
               \A d \in there : d \in Listed \/ Before(cursor, d)
    BY DEF TraversalInv, RestIsAhead
  <2>2. CASE cursor = w
    <3>1. pages[Len(pages)] \subseteq Shown
      BY DEF TraversalInv, TraversalType, Shown
    <3>2. \A item \in Shown : item.version <= records[item.dpp].version
      BY DEF TraversalInv, ListedBefore
    <3>3. [dpp |-> cursor, version |-> records'[cursor].version] \notin Shown
      BY <1>2, <1>3, <2>2, <3>2
    <3> QED
      BY <1>3, <1>6, <2>2, <3>1, <3>3
  <2>3. CASE cursor # w
    <3> HIDE DEF later
    <3> QED
      BY <1>3, <1>6, <1>9, <2>1, <2>3
  <2> QED
    BY <2>2, <2>3
<1> QED
  BY <1>3, <1>5, <1>10, <1>11 DEF TraversalInv

(* What one search answers. *)
LEMMA AnswerIsPage ==
  ASSUME TraversalInv, NEW c \in Stored \cup {NoDpp}, Answer(c)
  PROVE  /\ UNCHANGED <<now, records, writer>> /\ Stored' = Stored /\ StoreInv'
         /\ Page(Rest(c)) \subseteq Rest(c) /\ Rest(c) \subseteq Stored
         /\ Items(Page(Rest(c))) \subseteq Item
         /\ \A item : item \in Items(Page(Rest(c))) <=>
              \E d \in Page(Rest(c)) : item = [dpp |-> d, version |-> records[d].version]
         /\ cursor' \in Stored \cup {NoDpp}
         /\ cursor' = NoDpp => Page(Rest(c)) = Rest(c)
         /\ cursor' # NoDpp =>
              /\ cursor' \in Page(Rest(c))
              /\ \A x \in Page(Rest(c)) : ~Before(cursor', x)
              /\ \A x \in Rest(c) \ Page(Rest(c)) : Before(cursor', x)
<1> DEFINE rest == Rest(c)
           page == Page(Rest(c))
<1>1. Stamped /\ Stored \subseteq Dpps /\ NoDpp \notin Stored /\ NoDpp \notin Dpps
  BY DppAssumption DEF TraversalInv, StoreInv, Stored
<1>2. UNCHANGED <<now, records, writer>> /\ cursor' = IF page # rest THEN LastOf(page) ELSE NoDpp
  BY DEF Answer, store
<1>3. Stored' = Stored /\ StoreInv'
  BY <1>2 DEF Stored, StoreInv, TraversalInv, Stamped
<1>4. page \subseteq rest /\ rest \subseteq Stored
  BY DEF Page, Rest
<1>5. /\ Items(page) \subseteq Item
      /\ \A item : item \in Items(page) <=> \E d \in page : item = [dpp |-> d, version |-> records[d].version]
  BY <1>1, <1>4 DEF Items, Item, Stamped
<1>6. page # rest => /\ LastOf(page) \in page
                     /\ \A x \in page : ~Before(LastOf(page), x)
                     /\ \A x \in rest \ page : Before(LastOf(page), x)
  BY <1>1, <1>4, PageIsPrefix
<1> HIDE DEF rest, page
<1>7. CASE page = rest
  <2>1. cursor' = NoDpp
    BY <1>2, <1>7
  <2> QED
    BY <1>2, <1>3, <1>4, <1>5, <1>7, <2>1 DEF rest, page
<1>8. CASE page # rest
  <2>1. cursor' = LastOf(page)
    BY <1>2, <1>8
  <2>2. cursor' \in page /\ cursor' \in Stored /\ cursor' # NoDpp
    BY <1>1, <1>4, <1>6, <1>8, <2>1
  <2>3. /\ \A x \in page : ~Before(cursor', x)
        /\ \A x \in rest \ page : Before(cursor', x)
    BY <1>6, <1>8, <2>1
  <2> QED
    BY <1>2, <1>3, <1>4, <1>5, <2>2, <2>3 DEF rest, page
<1> QED
  BY <1>7, <1>8

LEMMA FirstPageKeepsTraversal ==
  ASSUME TraversalInv, FirstPage
  PROVE  TraversalInv'
<1> DEFINE rest == Rest(NoDpp)
           page == Page(Rest(NoDpp))
           before(a, b) == \/ records[a].updatedAt < records[b].updatedAt
                           \/ records[a].updatedAt = records[b].updatedAt /\ a < b
<1>1. Answer(NoDpp) /\ there' = Stored /\ moved' = FALSE
  BY DEF FirstPage
<1>2. /\ UNCHANGED <<now, records, writer>> /\ Stored' = Stored /\ StoreInv'
      /\ page \subseteq rest /\ rest \subseteq Stored
      /\ Items(page) \subseteq Item
      /\ \A item : item \in Items(page) <=> \E d \in page : item = [dpp |-> d, version |-> records[d].version]
      /\ cursor' \in Stored \cup {NoDpp}
      /\ cursor' = NoDpp => page = rest
      /\ cursor' # NoDpp =>
           /\ cursor' \in page
           /\ \A x \in page : ~before(cursor', x)
           /\ \A x \in rest \ page : before(cursor', x)
  BY <1>1, AnswerIsPage DEF Before
<1>3. pages' = <<Items(page)>>
  BY <1>1 DEF Answer
<1>4. rest = Stored
  BY DppAssumption DEF Rest, Stored
<1> HIDE DEF rest, page, before
<1>5. pages' \in Seq(SUBSET Item) /\ Len(pages') = 1 /\ pages'[1] = Items(page) /\ DOMAIN pages' = {1}
  BY <1>2, <1>3
<1>6. TraversalType' /\ NoVersionTwice'
  <2>1. pages' # <<>>
    BY <1>5
  <2>2. TraversalType'
    <3>1. there' \subseteq Stored'
      BY <1>1, <1>2
    <3> QED
      BY <1>1, <1>2, <1>5, <2>1, <3>1 DEF TraversalType
  <2>3. NoVersionTwice'
    BY <1>5 DEF NoVersionTwice
  <2> QED
    BY <2>2, <2>3
<1>7. Shown' = Items(page) /\ Listed' = {item.dpp : item \in Items(page)}
  BY <1>5 DEF Shown, Listed
<1>8. page \subseteq Listed'
  <2> SUFFICES ASSUME NEW d \in page PROVE d \in Listed'
    OBVIOUS
  <2>1. [dpp |-> d, version |-> records[d].version] \in Items(page)
    BY <1>2
  <2> QED
    BY <1>7, <2>1
<1>9. ListedBefore'
  <2> SUFFICES ASSUME NEW item \in Items(page)
               PROVE  /\ item.dpp \in Stored /\ item.version <= records[item.dpp].version
                      /\ cursor' # NoDpp => ~before(cursor', item.dpp)
    BY <1>2, <1>7 DEF ListedBefore, Before, before
  <2>1. PICK d \in page : item = [dpp |-> d, version |-> records[d].version]
    BY <1>2
  <2>2. records[d].version \in Nat
    BY <1>2, <2>1 DEF TraversalInv, StoreInv, Stamped, Stored
  <2> QED
    BY <1>2, <2>1, <2>2
<1>10. RestIsAhead'
  <2>1. cursor' = NoDpp => there' \subseteq Listed'
    BY <1>1, <1>2, <1>4, <1>8
  <2>2. cursor' # NoDpp => \A d \in there' : d \in Listed' \/ before(cursor', d)
    BY <1>1, <1>2, <1>4, <1>8
  <2> QED
    BY <1>2, <2>1, <2>2 DEF RestIsAhead, Before, before
<1> QED
  BY <1>2, <1>6, <1>9, <1>10 DEF TraversalInv

LEMMA NextPageKeepsTraversal ==
  ASSUME TraversalInv, NextPage
  PROVE  TraversalInv'
<1> DEFINE rest == Rest(cursor)
           page == Page(Rest(cursor))
           before(a, b) == \/ records[a].updatedAt < records[b].updatedAt
                           \/ records[a].updatedAt = records[b].updatedAt /\ a < b
           n == Len(pages)
<1>1. cursor # NoDpp /\ Answer(cursor) /\ there' = there
  BY DEF NextPage
<1>2. /\ cursor \in Stored /\ pages # <<>> /\ pages \in Seq(SUBSET Item)
      /\ there \subseteq Stored /\ Stored \subseteq Dpps /\ NoDpp \notin Stored /\ Stamped
  BY <1>1, DppAssumption DEF TraversalInv, TraversalType, StoreInv, Stored
<1>3. /\ UNCHANGED <<now, records, writer>> /\ Stored' = Stored /\ StoreInv'
      /\ page \subseteq rest /\ rest \subseteq Stored
      /\ Items(page) \subseteq Item
      /\ \A item : item \in Items(page) <=> \E d \in page : item = [dpp |-> d, version |-> records[d].version]
      /\ cursor' \in Stored \cup {NoDpp}
      /\ cursor' = NoDpp => page = rest
      /\ cursor' # NoDpp =>
           /\ cursor' \in page
           /\ \A x \in page : ~before(cursor', x)
           /\ \A x \in rest \ page : before(cursor', x)
  BY <1>1, <1>2, AnswerIsPage DEF Before
<1>4. \A d \in Stored : d \in rest <=> before(cursor, d)
  BY <1>2 DEF Rest, Before
<1>5. /\ \A a, b \in Stored : before(a, b) => ~before(b, a)
      /\ \A a, b, c \in Stored : before(a, b) /\ before(b, c) => before(a, c)
      /\ \A a \in Stored : ~before(a, a)
  BY <1>2, OrderIsTotal DEF Before
<1>6. pages' = Append(pages, Items(page))
  BY <1>1 DEF Answer
<1> HIDE DEF rest, page, before
<1>7. /\ n \in Nat /\ n >= 1 /\ DOMAIN pages = 1..n
      /\ pages' \in Seq(SUBSET Item) /\ Len(pages') = n + 1 /\ DOMAIN pages' = 1..(n + 1)
      /\ \A i \in 1..n : pages'[i] = pages[i]
      /\ pages'[n + 1] = Items(page)
  BY <1>2, <1>3, <1>6
<1> HIDE DEF n
<1>8. Shown' = Shown \cup Items(page)
  BY <1>7 DEF Shown
<1>9. Listed \subseteq Listed' /\ page \subseteq Listed'
  <2>1. Listed' = {item.dpp : item \in Shown'} /\ Listed = {item.dpp : item \in Shown}
    BY DEF Listed, Shown
  <2>2. \A d \in page : [dpp |-> d, version |-> records[d].version] \in Items(page)
    BY <1>3
  <2>3. Listed \subseteq Listed'
    BY <1>8, <2>1
  <2>4. ASSUME NEW d \in page PROVE d \in Listed'
    <3>1. [dpp |-> d, version |-> records[d].version] \in Shown'
      BY <1>8, <2>2
    <3> QED
      BY <2>1, <3>1
  <2> QED
    BY <2>3, <2>4
<1>10. \A item \in Shown :
         /\ item.dpp \in Stored /\ item.version <= records[item.dpp].version
         /\ item.version = records[item.dpp].version => ~before(cursor, item.dpp)
  <2>1. \A item \in Shown : item \in Item
    BY <1>2 DEF Shown
  <2> QED
    BY <1>1, <2>1 DEF TraversalInv, ListedBefore, Item, Before, before
<1>11. \A item \in Items(page) : item.dpp \in page /\ item.version = records[item.dpp].version /\ item.version \in Nat
  BY <1>2, <1>3 DEF Stamped
<1>12. Shown \cap Items(page) = {}
  BY <1>3, <1>4, <1>10, <1>11
<1>13. NoVersionTwice'
  <2> SUFFICES ASSUME NEW i \in 1..(n + 1), NEW j \in 1..(n + 1), i # j
               PROVE  pages'[i] \cap pages'[j] = {}
    BY <1>7 DEF NoVersionTwice
  <2>1. \A k \in 1..n : pages[k] \subseteq Shown
    BY <1>7 DEF Shown
  <2>2. CASE i \in 1..n /\ j \in 1..n
    BY <1>7, <2>2 DEF TraversalInv, NoVersionTwice
  <2>3. CASE i \in 1..n /\ j = n + 1
    BY <1>7, <1>12, <2>1, <2>3
  <2>4. CASE j \in 1..n /\ i = n + 1
    BY <1>7, <1>12, <2>1, <2>4
  <2> QED
    BY <1>7, <2>2, <2>3, <2>4
<1>14. TraversalType'
  <2>1. moved' \in BOOLEAN
    BY DEF NextPage, TraversalInv, TraversalType
  <2>2. pages' # <<>>
    BY <1>7
  <2> QED
    BY <1>1, <1>2, <1>3, <1>7, <2>1, <2>2 DEF TraversalType
<1>15. ListedBefore'
  <2> SUFFICES ASSUME NEW item \in Shown'
               PROVE  /\ item.dpp \in Stored /\ item.version <= records[item.dpp].version
                      /\ cursor' # NoDpp /\ item.version = records[item.dpp].version => ~before(cursor', item.dpp)
    BY <1>3 DEF ListedBefore, Before, before
  <2>1. CASE item \in Items(page)
    BY <1>3, <1>11, <2>1
  <2>2. CASE item \in Shown
    <3> SUFFICES ASSUME cursor' # NoDpp, item.version = records[item.dpp].version, before(cursor', item.dpp)
                 PROVE  FALSE
      BY <1>10, <2>2
    <3>1. cursor' \in Stored /\ before(cursor, cursor')
      BY <1>3, <1>4
    <3>2. item.dpp \in Stored
      BY <1>10, <2>2
    <3>3. before(cursor, item.dpp)
      BY <1>2, <1>5, <3>1, <3>2
    <3> QED
      BY <1>10, <2>2, <3>3
  <2> QED
    BY <1>8, <2>1, <2>2
<1>16. RestIsAhead'
  <2> SUFFICES ASSUME ~moved'
               PROVE  /\ cursor' = NoDpp => there \subseteq Listed'
                      /\ cursor' # NoDpp => \A d \in there : d \in Listed' \/ before(cursor', d)
    BY <1>1, <1>3 DEF RestIsAhead, Before, before
  <2>1. ~moved /\ [dpp |-> cursor, version |-> records[cursor].version] \in pages[n]
    BY DEF NextPage, n
  <2>2. \A d \in there : d \in Listed \/ before(cursor, d)
    BY <1>1, <1>2, <2>1 DEF TraversalInv, RestIsAhead, Before, before, n
  <2>3. \A d \in there : d \in Listed' \/ d \in rest \ page
    BY <1>2, <1>4, <1>9, <2>2
  <2> QED
    BY <1>3, <2>3
<1> QED
  BY <1>3, <1>13, <1>14, <1>15, <1>16 DEF TraversalInv

LEMMA TraversalStep == TraversalInv /\ [Next]_vars => TraversalInv'
<1> SUFFICES ASSUME TraversalInv, [Next]_vars PROVE TraversalInv'
  OBVIOUS
<1>1. ASSUME UNCHANGED <<now, records, writer, cursor, pages, there, moved>>
      PROVE  TraversalInv'
  <2>1. Stored' = Stored /\ Shown' = Shown /\ Listed' = Listed
    BY <1>1 DEF Stored, Shown, Listed
  <2> QED
    BY <1>1, <2>1 DEF TraversalInv, StoreInv, Stamped, TraversalType, ListedBefore, NoVersionTwice, RestIsAhead, Before
<1>2. ASSUME NEW d \in Dpps, NEW requested, NEW known, GetDpp(d, requested, known)
      PROVE  TraversalInv'
  BY <1>1, <1>2 DEF GetDpp, store, traversal
<1>3. CASE UNCHANGED vars
  BY <1>1, <1>3 DEF vars
<1> QED
  BY <1>2, <1>3, StampKeepsTraversal, PublishKeepsTraversal, FirstPageKeepsTraversal, NextPageKeepsTraversal DEF Next

LEMMA TraversalHolds == Spec => []TraversalInv
<1> QED
  BY TraversalInit, TraversalStep, PTL DEF Spec

(* Whatever is created or written during a traversal (api.py, search), it  *)
(* never lists one version of a passport twice.                            *)
THEOREM VersionsAreListedOnce == Spec => []NoVersionTwice
<1>1. TraversalInv => NoVersionTwice
  BY DEF TraversalInv
<1> QED
  BY <1>1, TraversalHolds, PTL

(* A traversal that has come to its end has listed all that was there when *)
(* it began, unless a passport was written while it was the cursor.        *)
THEOREM TraversalsAreComplete == Spec => []CompleteUnlessCursorMoves
<1>1. TraversalInv => CompleteUnlessCursorMoves
  BY DEF TraversalInv, RestIsAhead, CompleteUnlessCursorMoves
<1> QED
  BY <1>1, TraversalHolds, PTL

-----------------------------------------------------------------------------
(* Views. *)

Allowed(default, organised) == Entitled(default, organised) \cup Excess(default)

(* Which views are not wider than another: VIEW_RANK, written out. *)
LEMMA RankOrder ==
  ASSUME NEW default \in Views, NEW view \in Views, VIEW_RANK[view] <= VIEW_RANK[default]
  PROVE  \/ view \in {default, "integrityOnly"}
         \/ default = "full"
         \/ default = "authority" /\ view \in {"public", "partner", "sorting", "recycler"}
         \/ default = "recycler" /\ view \in {"public", "partner", "sorting"}
         \/ default = "sorting" /\ view \in {"public", "partner"}
         \/ default = "partner" /\ view = "public"
  BY DEF Views, VIEW_RANK

(* Each view shows what it grants, the envelope and its excess. *)
LEMMA ProjectIsGranted ==
  ASSUME NEW view \in Views, NEW organised \in BOOLEAN
  PROVE  Project(view, organised) \subseteq Envelope \cup Granted(view, organised) \cup Excess(view)
<1> USE DEF Project, Granted, Excess, ObservationFor, PublicProduct, SortingProduct, Envelope,
            PublicGrants, SortingGrants, RecyclerGrants
<1>1. CASE view = "integrityOnly"
  BY <1>1
<1>2. CASE view = "public"
  BY <1>2
<1>3. CASE view = "partner"
  BY <1>3
<1>4. CASE view = "sorting"
  BY <1>4
<1>5. CASE view = "recycler"
  BY <1>5
<1>6. CASE view = "authority"
  BY <1>6
<1>7. CASE view = "full"
  BY <1>7
<1> QED
  BY <1>1, <1>2, <1>3, <1>4, <1>5, <1>6, <1>7 DEF Views, VIEW_RANK

(* A wider view grants what a narrower one shows in excess, or shows it in *)
(* excess itself.                                                          *)
LEMMA ExcessIsAllowed ==
  ASSUME NEW default \in Views, NEW view \in Views, NEW organised \in BOOLEAN,
         VIEW_RANK[view] <= VIEW_RANK[default]
  PROVE  Excess(view) \subseteq Granted(default, organised) \cup Excess(default)
<1>1. CASE view = default \/ view \notin {"partner", "sorting"}
  BY <1>1 DEF Excess
<1>2. CASE default \in {"sorting", "recycler", "authority", "full"} /\ view \in {"partner", "sorting"}
  BY <1>2 DEF Excess, Granted, RecyclerGrants, SortingGrants, AllMembers, SortingProduct
<1> QED
  BY <1>1, <1>2, RankOrder

LEMMA NarrowerIsAllowed ==
  ASSUME NEW default \in Views, NEW view \in Views, NEW organised \in BOOLEAN,
         VIEW_RANK[view] <= VIEW_RANK[default]
  PROVE  Project(view, organised) \subseteq Allowed(default, organised)
<1>1. \A v \in Views : VIEW_RANK[v] \in Nat
  BY DEF Views, VIEW_RANK
<1> HIDE DEF Views, VIEW_RANK
<1>2. Granted(view, organised) \subseteq Entitled(default, organised)
  BY DEF Entitled
<1>3. Granted(default, organised) \subseteq Entitled(default, organised)
  BY <1>1 DEF Entitled
<1>4. Envelope \subseteq Entitled(default, organised)
  BY DEF Entitled
<1> QED
  BY <1>2, <1>3, <1>4, ProjectIsGranted, ExcessIsAllowed DEF Allowed

(* resolve_view never gives more than the rank of the default view. *)
LEMMA ResolvedIsNarrower ==
  ASSUME NEW role \in DOMAIN DefaultView, NEW requested, ResolveView(role, requested) # Forbidden
  PROVE  /\ DefaultView[role] \in Views /\ ResolveView(role, requested) \in Views
         /\ VIEW_RANK[ResolveView(role, requested)] <= VIEW_RANK[DefaultView[role]]
<1>1. DefaultView[role] \in Views
  BY DEF DefaultView, Views, VIEW_RANK
<1>2. \A v \in Views : VIEW_RANK[v] \in Nat
  BY DEF Views, VIEW_RANK
<1>3. CASE requested = NotRequested
  BY <1>1, <1>2, <1>3 DEF ResolveView
<1>4. CASE requested # NotRequested /\ requested \notin Views
  BY <1>4 DEF ResolveView
<1>5. CASE requested # NotRequested /\ requested \in Views
  <2> HIDE DEF Views, VIEW_RANK, DefaultView
  <2> QED
    BY <1>1, <1>2, <1>5 DEF ResolveView
<1> QED
  BY <1>3, <1>4, <1>5

HeldInv ==
  /\ caller \in Callers
  /\ held \subseteq Allowed(DefaultView[caller.role], caller.organised)

LEMMA HeldStep == HeldInv /\ [Next]_vars => HeldInv'
<1> SUFFICES ASSUME HeldInv, [Next]_vars PROVE HeldInv'
  OBVIOUS
<1> DEFINE allowed == Allowed(DefaultView[caller.role], caller.organised)
<1>1. caller.role \in DOMAIN DefaultView /\ caller.organised \in BOOLEAN
  BY CallerAssumption DEF HeldInv
<1>2. Project(DefaultView[caller.role], caller.organised) \subseteq allowed
  <2>1. DefaultView[caller.role] \in Views /\ VIEW_RANK[DefaultView[caller.role]] \in Nat
    BY <1>1 DEF DefaultView, Views, VIEW_RANK
  <2> QED
    BY <1>1, <2>1, NarrowerIsAllowed
<1>3. ASSUME caller' = caller, held' \subseteq held \cup allowed
      PROVE  HeldInv'
  BY <1>3 DEF HeldInv
<1> HIDE DEF allowed
<1>4. ASSUME NEW c, Answer(c)
      PROVE  HeldInv'
  BY <1>2, <1>3, <1>4 DEF Answer
<1>5. ASSUME NEW d \in Dpps, NEW requested, NEW known, GetDpp(d, requested, known)
      PROVE  HeldInv'
  <2> DEFINE view == ResolveView(caller.role, requested)
  <2>1. view # Forbidden /\ held' = held \cup Project(view, caller.organised) /\ caller' = caller
    BY <1>5 DEF GetDpp
  <2>2. Project(view, caller.organised) \subseteq allowed
    BY <1>1, <2>1, ResolvedIsNarrower, NarrowerIsAllowed DEF allowed
  <2> QED
    BY <1>3, <2>1, <2>2
<1>6. ASSUME NEW d \in Dpps, NEW t \in now..MaxTime, Stamp(d, t)
      PROVE  HeldInv'
  BY <1>3, <1>6 DEF Stamp
<1>7. ASSUME NEW retired \in BOOLEAN, Publish(retired)
      PROVE  HeldInv'
  BY <1>3, <1>7 DEF Publish
<1>8. CASE UNCHANGED vars
  BY <1>3, <1>8 DEF vars
<1> QED
  BY <1>4, <1>5, <1>6, <1>7, <1>8 DEF Next, FirstPage, NextPage

(* Whatever views a caller asks for, and however often (access.py,         *)
(* resolve_view and project), it is shown nothing but what the published   *)
(* policy grants its default view or a view of lower rank, save the three  *)
(* product members the partner and the sorting view show besides.          *)
THEOREM NothingIsShownBeyond == Spec => []NothingBeyondGrants
<1>1. Init => HeldInv
  BY DEF Init, HeldInv
<1>2. HeldInv => NothingBeyondGrants
  BY DEF HeldInv, NothingBeyondGrants, Allowed
<1> QED
  BY <1>1, <1>2, HeldStep, PTL DEF Spec

=============================================================================
