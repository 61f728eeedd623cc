------------------------------ MODULE Listing_proofs ------------------------------
(***************************************************************************)
(* Proofs about Listing: whoever reads a list page after page is shown     *)
(* nothing out of scope, and every miss and every repeat has its reason.   *)
(*                                                                         *)
(* The argument is about the rank of a row among those that match.  A row  *)
(* that has its place to itself has one rank in whatever order PostgreSQL  *)
(* puts the others (SortIsRank).  A page ends at an offset; a row that     *)
(* joins pushes at most one such row over it, a row that leaves pushes     *)
(* none.  So those beyond the offset that the caller has met already       *)
(* (Again) are no more than the rows that joined, and those it is owed and *)
(* has not met (Unmet) stay beyond the offset while none leaves.  Of all   *)
(* rows, ties or not, only their number is known: what was shown fills the *)
(* pages up to the offset, and a page ends where the list does (SumInv).   *)
(***************************************************************************)
EXTENDS Listing, FiniteSetTheorems, TLAPS

-----------------------------------------------------------------------------------
(* Positions in an order. *)

Position(order, r, among) == Cardinality({q \in among : order[q] <= order[r]})

IsOrder(order, S) == \A r \in S : order[r] \in Nat

\* No other member of S has the place of this one.
Single(order, r, S) == \A q \in S : order[q] = order[r] => q = r

SameOrder(first, second, S) ==
    \A r, q \in S : first[q] <= first[r] <=> second[q] <= second[r]

\* The members of M that some have beyond an offset.
Beyond(order, M, some, offset) == {r \in M \cap some : Position(order, r, some) > offset}

\* A member of a finite set has a position between one and the number of members
\* (the rank of a row that matches).
LEMMA PositionBounds ==
    ASSUME NEW S, IsFiniteSet(S), NEW order, IsOrder(order, S), NEW r \in S
    PROVE  Position(order, r, S) \in 1 .. Cardinality(S)
<1> DEFINE Q == {q \in S : order[q] <= order[r]}
<1>1. Q \in SUBSET S
  OBVIOUS
<1>2. r \in Q
  BY DEF IsOrder
<1>3. IsFiniteSet(Q) /\ Cardinality(Q) <= Cardinality(S)
  BY <1>1, FS_Subset
<1>4. Cardinality(Q) \in Nat /\ Cardinality(S) \in Nat
  BY <1>3, FS_CardinalityType
<1>5. Cardinality(Q) # 0
  BY <1>2, <1>3, FS_EmptySet
<1>6. Position(order, r, S) = Cardinality(Q)
  BY DEF Position
<1> QED
  BY <1>3, <1>4, <1>5, <1>6

\* Who comes later has the greater position.
LEMMA PositionRises ==
    ASSUME NEW S, IsFiniteSet(S), NEW order, IsOrder(order, S), NEW q \in S, NEW r \in S,
           order[q] < order[r]
    PROVE  Position(order, q, S) < Position(order, r, S)
<1> DEFINE Q == {s \in S : order[s] <= order[q]}
           R == {s \in S : order[s] <= order[r]}
<1>1. Q \in SUBSET R
  BY DEF IsOrder
<1>2. r \in R /\ r \notin Q
  BY DEF IsOrder
<1>3. IsFiniteSet(R)
  BY FS_Subset
<1>4. /\ IsFiniteSet(Q) /\ Cardinality(Q) <= Cardinality(R)
      /\ Cardinality(Q) # Cardinality(R)
  BY <1>1, <1>2, <1>3, FS_Subset
<1>5. Cardinality(Q) \in Nat /\ Cardinality(R) \in Nat
  BY <1>3, <1>4, FS_CardinalityType
<1>6. Position(order, q, S) = Cardinality(Q) /\ Position(order, r, S) = Cardinality(R)
  BY DEF Position
<1> QED
  BY <1>4, <1>5, <1>6

\* A member that has its place to itself shares its position with none.
LEMMA PositionsDiffer ==
    ASSUME NEW S, IsFiniteSet(S), NEW order, IsOrder(order, S), NEW q \in S, NEW r \in S,
           Single(order, r, S), Position(order, q, S) = Position(order, r, S)
    PROVE  q = r
<1>1. Position(order, q, S) \in Nat /\ Position(order, r, S) \in Nat
  <2>1. Cardinality(S) \in Nat
    BY FS_CardinalityType
  <2> QED
    BY <2>1, PositionBounds
<1>2. order[q] \in Nat /\ order[r] \in Nat
  BY DEF IsOrder
<1>3. ~ order[q] < order[r] /\ ~ order[r] < order[q]
  BY <1>1, PositionRises
<1>4. order[q] = order[r]
  BY <1>2, <1>3
<1> QED
  BY <1>4 DEF Single

\* A member that joins raises the positions after it by one.
LEMMA PositionJoined ==
    ASSUME NEW S, IsFiniteSet(S), NEW first, NEW second, SameOrder(first, second, S),
           NEW j, j \notin S, NEW r \in S
    PROVE  Position(second, r, S \cup {j})
             = Position(first, r, S) + (IF second[j] <= second[r] THEN 1 ELSE 0)
<1> DEFINE Q == {q \in S : first[q] <= first[r]}
           P == {q \in S \cup {j} : second[q] <= second[r]}
<1>1. IsFiniteSet(Q)
  BY FS_Subset
<1>2. Cardinality(Q) \in Nat
  BY <1>1, FS_CardinalityType
<1>3. /\ Position(first, r, S) = Cardinality(Q)
      /\ Position(second, r, S \cup {j}) = Cardinality(P)
  BY DEF Position
<1>4. ASSUME second[j] <= second[r]
      PROVE  Cardinality(P) = Cardinality(Q) + 1
  <2>1. P = Q \cup {j} /\ j \notin Q
    BY <1>4 DEF SameOrder
  <2> QED
    BY <1>1, <2>1, FS_AddElement
<1>5. ASSUME ~ second[j] <= second[r]
      PROVE  Cardinality(P) = Cardinality(Q)
  <2>1. P = Q
    BY <1>5 DEF SameOrder
  <2> QED
    BY <2>1
<1> HIDE DEF P, Q
<1> QED
  BY <1>2, <1>3, <1>4, <1>5

\* Members that leave raise no position.
LEMMA PositionLeft ==
    ASSUME NEW S, IsFiniteSet(S), NEW T \in SUBSET S, NEW order, NEW r
    PROVE  Position(order, r, T) <= Position(order, r, S)
<1> DEFINE Q == {q \in S : order[q] <= order[r]}
           P == {q \in T : order[q] <= order[r]}
<1>1. IsFiniteSet(Q)
  BY FS_Subset
<1>2. P \in SUBSET Q
  OBVIOUS
<1> QED
  BY <1>1, <1>2, FS_Subset DEF Position

\* Positions depend on the order only.
LEMMA PositionKept ==
    ASSUME NEW S, NEW first, NEW second, SameOrder(first, second, S), NEW r \in S
    PROVE  Position(second, r, S) = Position(first, r, S)
<1>1. {q \in S : second[q] <= second[r]} = {q \in S : first[q] <= first[r]}
  BY DEF SameOrder
<1> QED
  BY <1>1 DEF Position

\* A numbering of S from one on.
Numbers(sort, S) ==
    /\ sort \in [S -> 1 .. Cardinality(S)]
    /\ \A r, q \in S : sort[r] = sort[q] => r = q

PageOf(sort, S, a, n) == {r \in S : sort[r] \in a + 1 .. a + n}

LEMMA IntervalSize ==
    ASSUME NEW a \in Nat, NEW n \in Nat
    PROVE  IsFiniteSet(a + 1 .. a + n) /\ Cardinality(a + 1 .. a + n) = n
<1>1. a + 1 \in Int /\ a + n \in Int
  OBVIOUS
<1>2. /\ IsFiniteSet(a + 1 .. a + n)
      /\ Cardinality(a + 1 .. a + n) = IF a + 1 > a + n THEN 0 ELSE (a + n) - (a + 1) + 1
  BY <1>1, FS_Interval
<1> QED
  BY <1>2

\* As many members as numbers: each number up to that of a member is the number of one
\* no later.
LEMMA NumbersCount ==
    ASSUME NEW S, IsFiniteSet(S), NEW sort, Numbers(sort, S), NEW r \in S
    PROVE  Cardinality({q \in S : sort[q] <= sort[r]}) = sort[r]
<1> DEFINE Q == {q \in S : sort[q] <= sort[r]}
           f == [q \in Q |-> sort[q]]
           size == Cardinality(S)
<1>1. size \in Nat
  BY FS_CardinalityType
<1>2. IsFiniteSet(1 .. size) /\ Cardinality(1 .. size) = size
  BY <1>1, FS_Interval
<1>3. sort \in Injection(S, 1 .. size)
  BY DEF Numbers, Injection, IsInjective
<1>4. sort \in Surjection(S, 1 .. size)
  BY <1>2, <1>3, FS_Injection
<1> HIDE DEF size
<1>5. /\ \A k \in 1 .. size : \E q \in S : sort[q] = k
      /\ \A q \in S : sort[q] \in 1 .. size
  BY <1>3, <1>4 DEF Surjection, Injection
<1>6. sort[r] \in 1 .. size /\ sort[r] \in Nat
  BY <1>1, <1>5
<1>7. f \in [Q -> 1 .. sort[r]]
  <2>1. ASSUME NEW q \in Q PROVE sort[q] \in 1 .. sort[r]
    <3>1. sort[q] \in 1 .. size /\ sort[q] <= sort[r]
      BY <1>5
    <3> QED
      BY <1>1, <1>6, <3>1
  <2> QED
    BY <2>1
<1>8. \A k \in 1 .. sort[r] : \E q \in Q : f[q] = k
  <2>1. TAKE k \in 1 .. sort[r]
  <2>2. k \in 1 .. size
    BY <1>1, <1>6
  <2>3. PICK q \in S : sort[q] = k
    BY <1>5, <2>2
  <2>4. q \in Q
    BY <2>3
  <2> QED
    BY <2>3, <2>4
<1>9. \A q, s \in Q : f[q] = f[s] => q = s
  BY DEF Numbers
<1> HIDE DEF f
<1>10. f \in Surjection(Q, 1 .. sort[r])
  BY <1>7, <1>8 DEF Surjection
<1>11. f \in Injection(Q, 1 .. sort[r])
  BY <1>7, <1>9 DEF Injection, IsInjective
<1>12. IsFiniteSet(Q)
  <2>1. Q \in SUBSET S
    OBVIOUS
  <2> QED
    BY <2>1, FS_Subset
<1> HIDE DEF Q
<1>13. Cardinality(1 .. sort[r]) = Cardinality(Q)
  BY <1>10, <1>11, <1>12, FS_Surjection
<1>14. Cardinality(1 .. sort[r]) = sort[r]
  BY <1>6, FS_Interval
<1> QED
  BY <1>13, <1>14 DEF Q

\* Who has its place to itself has the number that the places give it, wherever the
\* members that share theirs come.
LEMMA NumberIsPosition ==
    ASSUME NEW S, IsFiniteSet(S), NEW sort, Numbers(sort, S), NEW order, IsOrder(order, S),
           \A q, s \in S : order[q] < order[s] => sort[q] < sort[s],
           NEW r \in S, Single(order, r, S)
    PROVE  sort[r] = Position(order, r, S)
<1>1. \A q \in S : sort[q] \in Int
  BY DEF Numbers
<1>2. ASSUME NEW q \in S
      PROVE  order[q] <= order[r] <=> sort[q] <= sort[r]
  <2>1. order[q] \in Nat /\ order[r] \in Nat /\ sort[q] \in Int /\ sort[r] \in Int
    BY <1>1 DEF IsOrder
  <2>2. CASE order[q] < order[r]
    <3>1. sort[q] < sort[r]
      BY <2>2
    <3> QED
      BY <2>1, <2>2, <3>1
  <2>3. CASE order[r] < order[q]
    <3>1. sort[r] < sort[q]
      BY <2>3
    <3> QED
      BY <2>1, <2>3, <3>1
  <2>4. CASE order[q] = order[r]
    <3>1. q = r
      BY <2>4 DEF Single
    <3> QED
      BY <2>1, <3>1
  <2> QED
    BY <2>1, <2>2, <2>3, <2>4
<1>3. {q \in S : order[q] <= order[r]} = {q \in S : sort[q] <= sort[r]}
  BY <1>2
<1> QED
  BY <1>3, NumbersCount DEF Position

\* A page of n numbers has at most n members, and if it has any, no more than there are
\* from its beginning on.
LEMMA PageSize ==
    ASSUME NEW S, IsFiniteSet(S), NEW sort, Numbers(sort, S), NEW a \in Nat, NEW n \in Nat,
           NEW Page, Page = PageOf(sort, S, a, n)
    PROVE  /\ IsFiniteSet(Page) /\ Cardinality(Page) <= n
           /\ Page # {} => a + Cardinality(Page) <= Cardinality(S)
<1>0. Page = {r \in S : sort[r] \in a + 1 .. a + n}
  BY DEF PageOf
<1> DEFINE f == [r \in Page |-> sort[r]]
           size == Cardinality(S)
<1>1. size \in Nat
  BY FS_CardinalityType
<1>2. \A q, r \in Page : f[q] = f[r] => q = r
  BY <1>0 DEF Numbers
<1>3. /\ f \in [Page -> a + 1 .. a + n]
      /\ \A r \in Page : f[r] \in 1 .. size /\ f[r] \in a + 1 .. a + n
  BY <1>0 DEF Numbers
<1> HIDE DEF f, size
<1>4. f \in Injection(Page, a + 1 .. a + n)
  BY <1>2, <1>3 DEF Injection, IsInjective
<1>5. IsFiniteSet(Page) /\ Cardinality(Page) <= n
  BY <1>4, IntervalSize, FS_Injection
<1>6. ASSUME Page # {}
      PROVE  a + Cardinality(Page) <= size
  <2>1. PICK r \in Page : TRUE
    BY <1>6
  <2>2. size - a \in Nat
    <3>1. f[r] \in 1 .. size /\ f[r] \in a + 1 .. a + n
      BY <1>3
    <3> QED
      BY <1>1, <3>1
  <2>3. \A q \in Page : f[q] \in a + 1 .. a + (size - a)
    BY <1>1, <1>3
  <2>4. f \in Injection(Page, a + 1 .. a + (size - a))
    BY <1>2, <1>3, <2>3 DEF Injection, IsInjective
  <2>5. Cardinality(Page) <= size - a
    BY <2>2, <2>4, IntervalSize, FS_Injection
  <2>6. Cardinality(Page) \in Nat
    BY <1>5, FS_CardinalityType
  <2> QED
    BY <1>1, <2>5, <2>6
<1> QED
  BY <1>5, <1>6 DEF size

\* Of the members of M, which have their places to themselves, a member that joins brings
\* at most one more beyond an offset: itself, or the one it pushes over.
LEMMA OneOverTheEdge ==
    ASSUME NEW S, IsFiniteSet(S), NEW first, NEW second, SameOrder(first, second, S),
           NEW j, j \notin S, IsOrder(first, S), IsOrder(second, S \cup {j}),
           NEW M, \A r \in M : Single(second, r, S \cup {j}), NEW offset \in Nat
    PROVE  Cardinality(Beyond(second, M, S \cup {j}, offset))
             <= Cardinality(Beyond(first, M, S, offset)) + 1
<1> DEFINE Over == {r \in M \cap S : Position(first, r, S) > offset}
           OverNow == {r \in M \cap (S \cup {j}) : Position(second, r, S \cup {j}) > offset}
<1>1. IsFiniteSet(S \cup {j})
  BY FS_AddElement
<1>2. \A r \in S : Position(first, r, S) \in Int
  <2>1. Cardinality(S) \in Nat
    BY FS_CardinalityType
  <2> QED
    BY <2>1, PositionBounds
<1>3. \A r \in S : Position(second, r, S \cup {j})
                     = Position(first, r, S) + (IF second[j] <= second[r] THEN 1 ELSE 0)
  BY PositionJoined
<1>4. \A r \in OverNow : r = j \/ r \in Over \/ (r \in S /\ Position(first, r, S) = offset
                                                /\ second[j] <= second[r])
  BY <1>2, <1>3
<1>5. \E x : OverNow \subseteq Over \cup {x}
  <2>1. CASE j \in OverNow
    <3>1. SUFFICES ASSUME NEW r \in OverNow, r # j, r \notin Over
                   PROVE  FALSE
      OBVIOUS
    <3>2. r \in S /\ Position(first, r, S) = offset /\ second[j] <= second[r]
      BY <1>4, <3>1
    <3>3. second[j] < second[r]
      <4>1. second[j] # second[r]
        BY <3>1 DEF Single
      <4>2. second[j] \in Nat /\ second[r] \in Nat
        BY <3>2 DEF IsOrder
      <4> QED
        BY <3>2, <4>1, <4>2
    <3>4. Position(second, j, S \cup {j}) < Position(second, r, S \cup {j})
      BY <1>1, <3>2, <3>3, PositionRises
    <3>5. Position(second, r, S \cup {j}) = offset + 1
      BY <1>3, <3>2
    <3>6. Position(second, j, S \cup {j}) \in Int
      <4>1. Cardinality(S \cup {j}) \in Nat
        BY <1>1, FS_CardinalityType
      <4>2. j \in S \cup {j}
        OBVIOUS
      <4>3. Position(second, j, S \cup {j}) \in 1 .. Cardinality(S \cup {j})
        BY <1>1, <4>2, PositionBounds
      <4> QED
        BY <4>1, <4>3
    <3>7. Position(second, j, S \cup {j}) > offset
      BY <2>1
    <3> QED
      BY <3>4, <3>5, <3>6, <3>7
  <2>2. CASE j \notin OverNow /\ \E x \in OverNow : x \notin Over
    <3>1. PICK x \in OverNow : x \notin Over
      BY <2>2
    <3>2. x \in S /\ Position(first, x, S) = offset
      BY <1>4, <2>2, <3>1
    <3>3. ASSUME NEW r \in OverNow, r \notin Over PROVE r = x
      <4>1. r \in S /\ Position(first, r, S) = offset
        BY <1>4, <2>2, <3>3
      <4>2. Single(first, x, S)
        <5>1. SUFFICES ASSUME NEW q \in S, first[q] = first[x]
                       PROVE  q = x
          BY DEF Single
        <5>2. first[q] \in Nat /\ first[x] \in Nat /\ second[q] \in Nat /\ second[x] \in Nat
          BY <3>2 DEF IsOrder
        <5>3. second[q] <= second[x] /\ second[x] <= second[q]
          BY <3>2, <5>1, <5>2 DEF SameOrder
        <5>4. second[q] = second[x]
          BY <5>2, <5>3
        <5> QED
          BY <3>1, <5>4 DEF Single
      <4> QED
        BY <3>2, <4>1, <4>2, PositionsDiffer
    <3> QED
      BY <3>3
  <2>3. CASE j \notin OverNow /\ ~ \E x \in OverNow : x \notin Over
    BY <2>3
  <2> QED
    BY <2>1, <2>2, <2>3
<1>6. PICK x : OverNow \subseteq Over \cup {x}
  BY <1>5
<1>7. IsFiniteSet(Over)
  <2>1. Over \in SUBSET S
    OBVIOUS
  <2> QED
    BY <2>1, FS_Subset
<1>8. /\ IsFiniteSet(Over \cup {x})
      /\ Cardinality(Over \cup {x}) <= Cardinality(Over) + 1
  <2> HIDE DEF Over
  <2>1. Cardinality(Over) \in Nat
    BY <1>7, FS_CardinalityType
  <2>2. /\ IsFiniteSet(Over \cup {x})
        /\ Cardinality(Over \cup {x}) = IF x \in Over THEN Cardinality(Over) ELSE Cardinality(Over) + 1
    BY <1>7, FS_AddElement
  <2> QED
    BY <2>1, <2>2
<1>9. Cardinality(OverNow) <= Cardinality(Over \cup {x}) /\ IsFiniteSet(OverNow)
  BY <1>6, <1>8, FS_Subset
<1>10. /\ Cardinality(OverNow) \in Nat /\ Cardinality(Over) \in Nat
       /\ Cardinality(Over \cup {x}) \in Nat
  BY <1>7, <1>8, <1>9, FS_CardinalityType
<1> HIDE DEF Over, OverNow
<1>11. Cardinality(OverNow) <= Cardinality(Over) + 1
  BY <1>8, <1>9, <1>10
<1> QED
  BY <1>11 DEF Beyond, Over, OverNow

-----------------------------------------------------------------------------------
(* The inductive invariant. *)

\* The rank of a row among others, by their places.
Rank(r, among) == Cardinality({q \in among : place[q] <= place[r]})

\* The rows of the next answer are there, and where the next page begins.
Read   == pc = "queries" /\ "findAll" \notin owed
Offset == IF Read THEN page * SafeLimit ELSE (page - 1) * SafeLimit

\* The rows that were met.  Of those with a place to themselves: the ones that the answer
\* under way shows again, the ones that would be met again, and the ones that are owed and
\* were not met.
Met   == seen \cup items
Twice == {r \in items \cap seen : ~ Tied(r)}
Again == {r \in Met \cap Matching : ~ Tied(r) /\ Rank(r, Matching) > Offset}
Unmet == {r \in since.owes \ Met : ~ Tied(r)}

\* All that was ever listed during the walk but for what joined it.
Listed == since.owes \cup since.left

Asking == pc \in {"ask", "queries"}

\* What a phase of the walk says of the answer, and of one without a query.
WalkInv ==
    /\ pc = "new" => seen = {} /\ since = NoHistory /\ page = 1 /\ alone = 0 /\ tied = 0
    /\ pc = "queries" => ~ NothingInScope
    /\ pc # "queries" => owed = {} /\ items = {} /\ total = 0
    /\ "findAll" \in owed => items = {}
    /\ pc # "new" /\ NothingInScope => seen = {} /\ alone = 0 /\ tied = 0

\* What was met is in scope, and what is owed is wanted.
ScopeInv ==
    /\ pc # "new" => Met \subseteq {r \in Table : InScope(r)}
    /\ pc # "new" => since.owes \subseteq {r \in Table : Wanted(r, flag)}

\* The repeats so far, and those to come, of rows with a place to themselves have their
\* rows that joined.
RepeatInv ==
    /\ alone + Cardinality(Twice) <= since.joined
    /\ Asking => alone + Cardinality(Twice) + Cardinality(Again) <= since.joined

\* What was shown, each time it was, fits the pages so far and what there was to list.
Shown == alone + tied + Cardinality(items \cap seen) + Cardinality(Met)

SumInv ==
    pc # "new" /\ ~ NothingInScope =>
        /\ Asking => Shown <= Offset
        /\ Shown <= Cardinality(Listed) + since.joined
        /\ Asking => Cardinality(Matching) <= Cardinality(Listed) + since.joined

\* While no row left, and none slipped in between the queries, what is owed and was not
\* met is still ahead, and the count says so.
Whole == since.left = {} /\ ~ since.split

AheadInv ==
    Whole /\ Asking /\ ~ NothingInScope => \A r \in Unmet : Rank(r, Matching) > Offset

CountInv ==
    Whole => /\ pc = "queries" /\ owed = {} /\ Unmet # {} => total > page * SafeLimit
             /\ Between => total = Cardinality(Matching)

IInv == /\ TypeOK /\ WalkInv /\ ScopeInv /\ RepeatInv /\ SumInv /\ AheadInv /\ CountInv
        /\ MissIsExplained

\* The limit of a page is between one and the largest (SafeLimit).
LEMMA LimitBounds ==
    asked \in Query => SafeLimit \in 1 .. MaxLimit
<1> SUFFICES ASSUME asked \in Query
             PROVE  SafeLimit \in 1 .. MaxLimit
  OBVIOUS
<1>1. asked.limit \in Int
  BY ListingAssumption DEF Query
<1>2. MaxLimit \in Nat /\ DefaultLimit \in 1 .. MaxLimit
  BY ListingAssumption
<1> QED
  BY <1>1, <1>2 DEF SafeLimit

\* Every table is finite, and so are the sets of rows the invariant is about.
LEMMA FiniteRows ==
    ASSUME NEW S \in SUBSET Rows
    PROVE  IsFiniteSet(S) /\ Cardinality(S) \in Nat
<1>1. IsFiniteSet(Rows)
  BY ListingAssumption
<1>2. IsFiniteSet(S)
  BY <1>1, FS_Subset
<1> QED
  BY <1>2, FS_CardinalityType

\* The places are an order of the rows that match.
LEMMA PlacesAreAnOrder ==
    TypeOK => IsOrder(place, Matching)
<1> SUFFICES ASSUME TypeOK
             PROVE  IsOrder(place, Matching)
  OBVIOUS
<1>1. \A r \in Table : r \in Rows /\ place[r] \in Nat
  BY DEF TypeOK, Table
<1>2. Matching \subseteq Table
  BY DEF Matching
<1> QED
  BY <1>1, <1>2 DEF IsOrder

LEMMA RankIsPosition ==
    ASSUME NEW r, NEW S
    PROVE  Rank(r, S) = Position(place, r, S)
BY DEF Rank, Position

\* The rank of a row that matches.
LEMMA RankBounds ==
    TypeOK => \A r \in Matching : /\ Rank(r, Matching) \in 1 .. Cardinality(Matching)
                                  /\ Rank(r, Matching) \in Nat
<1> SUFFICES ASSUME TypeOK, NEW r \in Matching
             PROVE  Rank(r, Matching) \in 1 .. Cardinality(Matching) /\ Rank(r, Matching) \in Nat
  OBVIOUS
<1>1. Matching \in SUBSET Rows
  BY DEF Matching, Table
<1>2. IsFiniteSet(Matching) /\ Cardinality(Matching) \in Nat
  BY <1>1, FiniteRows
<1>3. Rank(r, Matching) \in 1 .. Cardinality(Matching)
  BY <1>2, PlacesAreAnOrder, PositionBounds, RankIsPosition
<1> QED
  BY <1>2, <1>3

\* What the database is asked for is in scope, though the scope overrides the filter,
\* and holds all that is wanted (resolveListDepartmentScope and the access rules).
LEMMA FiltersAreTheScope ==
    ~ NothingInScope => \A r : /\ Matches(r, flag) => InScope(r)
                               /\ Wanted(r, flag) => Matches(r, flag)
<1> SUFFICES ASSUME ~ NothingInScope, NEW r
             PROVE  /\ Matches(r, flag) => InScope(r)
                    /\ Wanted(r, flag) => Matches(r, flag)
  OBVIOUS
<1>1. CASE Scoped /\ requester.role # "ADMIN"
  <2>1. Scope.scoped /\ Scope.department = requester.department
    BY <1>1 DEF Scope
  <2>2. /\ requester.department # NoDept
        /\ asked.department # NoDept => asked.department = requester.department
    BY <2>1 DEF NothingInScope
  <2>3. FilterDepartment = requester.department
    BY <2>1 DEF FilterDepartment
  <2> QED
    BY <1>1, <2>2, <2>3 DEF Matches, InScope, Wanted, CanAccess
<1>2. CASE ~ (Scoped /\ requester.role # "ADMIN")
  <2>1. ~ Scope.scoped
    BY <1>2 DEF Scope
  <2>2. FilterDepartment = asked.department
    BY <2>1 DEF FilterDepartment
  <2> QED
    BY <1>2, <2>2 DEF Matches, InScope, Wanted, CanAccess
<1> QED
  BY <1>1, <1>2

\* What matches in the scope is wanted.
LEMMA MatchesAreWanted ==
    ~ NothingInScope => \A q : Matches(q, flag) => Wanted(q, flag)
<1> SUFFICES ASSUME ~ NothingInScope, NEW q, Matches(q, flag)
             PROVE  Wanted(q, flag)
  OBVIOUS
<1>1. InScope(q)
  BY FiltersAreTheScope
<1>2. FlagMatches(q, flag)
  BY DEF Matches
<1> QED
  BY <1>1, <1>2 DEF Wanted

LEMMA MatchesAreWantedNow ==
    (~ NothingInScope => \A q : Matches(q, flag) => Wanted(q, flag))'
BY MatchesAreWanted, PTL

\* Who is told without a query that there is nothing is owed nothing, unless it is the
\* spelling of the department that differs.
LEMMA NothingIsOwed ==
    ASSUME requester \in Requester, NothingInScope, ~ (requester.role = "MANAGER" /\ asked.upper),
           NEW r
    PROVE  ~ Wanted(r, flag)
<1>1. Scoped /\ requester.role # "ADMIN" /\ Scope.department = requester.department
  BY DEF NothingInScope, Scope
<1>2. requester.role = "MANAGER"
  BY <1>1 DEF Requester
<1>3. CASE requester.department = NoDept
  BY <1>1, <1>3 DEF Wanted, InScope, CanAccess
<1>4. CASE requester.department # NoDept
  <2>1. asked.department # NoDept /\ asked.department # requester.department
    BY <1>1, <1>2, <1>4 DEF NothingInScope
  <2> QED
    BY <1>1, <2>1 DEF Wanted, InScope, CanAccess
<1> QED
  BY <1>3, <1>4

\* A row that shares its place with none that the caller may see and asked for shares it
\* with none that matches.
LEMMA UntiedIsSingle ==
    ~ NothingInScope => \A r : ~ Tied(r) => Single(place, r, Matching)
<1> SUFFICES ASSUME ~ NothingInScope, NEW r, ~ Tied(r), NEW q \in Matching, place[q] = place[r]
             PROVE  q = r
  BY DEF Single
<1>1. q \in Table /\ InScope(q)
  BY FiltersAreTheScope DEF Matching
<1> QED
  BY <1>1 DEF Tied

\* Such a row has the same number in every order PostgreSQL may put the rows in.
LEMMA SortIsRank ==
    TypeOK /\ ~ NothingInScope =>
        \A sort \in Sortings : /\ Numbers(sort, Matching)
                               /\ \A r \in Matching : ~ Tied(r) => sort[r] = Rank(r, Matching)
<1> SUFFICES ASSUME TypeOK, ~ NothingInScope, NEW sort \in Sortings
             PROVE  /\ Numbers(sort, Matching)
                    /\ \A r \in Matching : ~ Tied(r) => sort[r] = Rank(r, Matching)
  OBVIOUS
<1>1. Matching \in SUBSET Rows
  BY DEF Matching, Table
<1>2. IsFiniteSet(Matching) /\ IsOrder(place, Matching)
  BY <1>1, FiniteRows, PlacesAreAnOrder
<1>3. /\ Numbers(sort, Matching)
      /\ \A q, s \in Matching : place[q] < place[s] => sort[q] < sort[s]
  BY DEF Sortings, Numbers
<1>4. ASSUME NEW r \in Matching, ~ Tied(r)
      PROVE  sort[r] = Rank(r, Matching)
  <2>1. Single(place, r, Matching)
    BY <1>4, UntiedIsSingle
  <2> QED
    BY <1>2, <1>3, <2>1, NumberIsPosition, RankIsPosition
<1> QED
  BY <1>3, <1>4

\* While nobody changes a row or the query, what is listed stays.
LEMMA RowsStand ==
    ASSUME UNCHANGED <<rows, caller>>
    PROVE  /\ Table' = Table /\ Matching' = Matching /\ SafeLimit' = SafeLimit
           /\ NothingInScope' = NothingInScope
           /\ \A r : InScope(r)' = InScope(r) /\ Wanted(r, flag)' = Wanted(r, flag)
           /\ \A r : Tied(r)' = Tied(r)
           /\ \A r : Rank(r, Matching)' = Rank(r, Matching)
<1>1. /\ list' = list /\ place' = place /\ dept' = dept /\ flag' = flag
      /\ requester' = requester /\ asked' = asked
  BY DEF rows, caller
<1>2. Table' = Table
  BY <1>1 DEF Table
<1>3. Matching' = Matching
  BY <1>1, <1>2 DEF Matching, Matches, FilterDepartment, FlagMatches, Filtered, Scope, Scoped
<1>4. SafeLimit' = SafeLimit
  BY <1>1 DEF SafeLimit
<1>5. NothingInScope' = NothingInScope
  BY <1>1 DEF NothingInScope, Scope, Scoped
<1>6. \A r : InScope(r)' = InScope(r)
  BY <1>1 DEF InScope, CanAccess, Scoped
<1>7. \A r : Wanted(r, flag)' = Wanted(r, flag)
  BY <1>1, <1>6 DEF Wanted, FlagMatches, Filtered
<1>8. \A r : Tied(r)' = Tied(r)
  BY <1>1, <1>2, <1>6 DEF Tied
<1>9. \A r : Rank(r, Matching)' = Rank(r, Matching)
  BY <1>1, <1>3 DEF Rank
<1> QED
  BY <1>2, <1>3, <1>4, <1>5, <1>6, <1>7, <1>8, <1>9

-----------------------------------------------------------------------------------
(* The invariant holds at the start, and each step keeps it. *)

\* Arithmetic of pages: where they begin, and which is the last (TotalPages).
LEMMA PageOffsets ==
    ASSUME NEW p \in Nat \ {0}, NEW n \in Nat
    PROVE  /\ (p - 1) * n \in Nat /\ p * n \in Nat
           /\ (p - 1) * n + n = p * n
           /\ (p + 1 - 1) * n = p * n
OBVIOUS

LEMMA LastPage ==
    ASSUME NEW t \in Nat, NEW n \in Nat \ {0}, NEW p \in Nat, ~ p < (t + n - 1) \div n
    PROVE  t <= p * n
<1> DEFINE a == t + n - 1
           d == a \div n
<1>1. a \in Nat
  OBVIOUS
<1>2. d \in Nat
  BY <1>1
<1>3. a < n * d + n
  BY <1>1
<1> HIDE DEF d
<1>4. n * d \in Nat /\ p * n \in Nat
  BY <1>2
<1>5. d <= p
  BY <1>2 DEF d
<1>6. n * d <= p * n
  BY <1>2, <1>5
<1> QED
  BY <1>3, <1>4, <1>6

\* What the offset of the next page is, a number at any rate.
LEMMA OffsetIsNatural ==
    ASSUME TypeOK, pc # "new"
    PROVE  /\ Offset \in Nat
           /\ Read => Offset = page * SafeLimit
           /\ ~ Read => Offset = (page - 1) * SafeLimit
           /\ SafeLimit \in Nat \ {0} /\ SafeLimit <= MaxLimit
<1>1. SafeLimit \in 1 .. MaxLimit
  BY LimitBounds DEF TypeOK
<1>2. MaxLimit \in Nat
  BY ListingAssumption
<1>3. page \in Nat \ {0}
  BY DEF TypeOK
<1> QED
  BY <1>1, <1>2, <1>3, PageOffsets DEF Offset

\* The type of a state after a step that leaves the rows and the query alone.
LEMMA TypeStands ==
    ASSUME TypeOK, UNCHANGED <<rows, caller>>, pc # "new",
           page' \in Nat \ {0}, pc' \in {"ask", "queries", "done"},
           code' \in {"none", "200", "400", "500"},
           items' \subseteq Rows, Cardinality(items') <= MaxLimit,
           total' \in 0 .. Cardinality(Table), owed' \subseteq {"findAll", "countAll"},
           seen' \subseteq Rows, alone' \in Nat, tied' \in Nat, since' = since
    PROVE  TypeOK'
<1>1. /\ list' = list /\ place' = place /\ dept' = dept /\ flag' = flag
      /\ requester' = requester /\ asked' = asked
  BY DEF rows, caller
<1>2. Table' = Table
  BY RowsStand
<1>3. list' \in Lists /\ place' \in [Rows -> Nat]
  BY <1>1 DEF TypeOK
<1>4. Arranged'
  BY <1>1, <1>2 DEF TypeOK, Arranged
<1>5. dept' \in [Rows -> MaybeDept] /\ flag' \in [Rows -> BOOLEAN]
  BY <1>1 DEF TypeOK
<1>6. \A r \in Rows \ Table' : dept'[r] = NoDept /\ ~ flag'[r]
  BY <1>1, <1>2 DEF TypeOK
<1>7. requester' \in Requester /\ asked' \in Query
  BY <1>1 DEF TypeOK
<1>8. since' \in [owes : SUBSET Rows, joined : Nat, left : SUBSET Rows, split : BOOLEAN]
  BY DEF TypeOK
<1>9. total' \in 0 .. Cardinality(Table')
  BY <1>2
<1> QED
  BY <1>3, <1>4, <1>5, <1>6, <1>7, <1>8, <1>9 DEF TypeOK

\* Sizes of sets that have no member in common add up, and so do those of two sets and
\* what they have in common.
LEMMA SizesAdd ==
    ASSUME NEW S \in SUBSET Rows, NEW T \in SUBSET Rows
    PROVE  /\ Cardinality(S) + Cardinality(T) = Cardinality(S \cup T) + Cardinality(S \cap T)
           /\ S \cap T = {} => Cardinality(S \cup T) = Cardinality(S) + Cardinality(T)
<1>1. IsFiniteSet(S) /\ IsFiniteSet(T) /\ Cardinality(S) \in Nat /\ Cardinality(T) \in Nat
  BY FiniteRows
<1>2. Cardinality(S \cup T) = Cardinality(S) + Cardinality(T) - Cardinality(S \cap T)
  BY <1>1, FS_Union
<1>3. Cardinality(S \cap T) \in Nat
  <2>1. S \cap T \in SUBSET Rows
    OBVIOUS
  <2> QED
    BY <2>1, FiniteRows
<1>4. S \cap T = {} => Cardinality(S \cap T) = 0
  BY FS_EmptySet
<1> QED
  BY <1>1, <1>2, <1>3, <1>4

\* The sizes the invariant adds up are numbers.
LEMMA Sizes ==
    TypeOK =>
        /\ alone \in Nat /\ tied \in Nat /\ since.joined \in Nat
        /\ Twice \in SUBSET Rows /\ Again \in SUBSET Rows /\ Met \in SUBSET Rows
        /\ Listed \in SUBSET Rows /\ Matching \in SUBSET Rows
        /\ Cardinality(Twice) \in Nat /\ Cardinality(Again) \in Nat
        /\ Cardinality(items \cap seen) \in Nat /\ Cardinality(Met) \in Nat
        /\ Cardinality(Listed) \in Nat /\ Cardinality(Matching) \in Nat
        /\ Shown \in Nat
<1> SUFFICES ASSUME TypeOK
             PROVE  /\ alone \in Nat /\ tied \in Nat /\ since.joined \in Nat
                    /\ Twice \in SUBSET Rows /\ Again \in SUBSET Rows /\ Met \in SUBSET Rows
                    /\ Listed \in SUBSET Rows /\ Matching \in SUBSET Rows
                    /\ Cardinality(Twice) \in Nat /\ Cardinality(Again) \in Nat
                    /\ Cardinality(items \cap seen) \in Nat /\ Cardinality(Met) \in Nat
                    /\ Cardinality(Listed) \in Nat /\ Cardinality(Matching) \in Nat
                    /\ Shown \in Nat
  OBVIOUS
<1>1. /\ alone \in Nat /\ tied \in Nat /\ since.joined \in Nat
      /\ items \in SUBSET Rows /\ seen \in SUBSET Rows
      /\ since.owes \in SUBSET Rows /\ since.left \in SUBSET Rows
  BY DEF TypeOK
<1>2. /\ Twice \in SUBSET Rows /\ Again \in SUBSET Rows /\ Met \in SUBSET Rows
      /\ Listed \in SUBSET Rows /\ Matching \in SUBSET Rows /\ items \cap seen \in SUBSET Rows
  BY <1>1 DEF Twice, Again, Met, Listed, Matching, Table
<1>3. /\ Cardinality(Twice) \in Nat /\ Cardinality(Again) \in Nat
      /\ Cardinality(items \cap seen) \in Nat /\ Cardinality(Met) \in Nat
      /\ Cardinality(Listed) \in Nat /\ Cardinality(Matching) \in Nat
  BY <1>2, FiniteRows
<1> QED
  BY <1>1, <1>2, <1>3 DEF Shown

\* Init.
LEMMA StartHolds ==
    Init => IInv
<1> SUFFICES ASSUME Init PROVE IInv
  OBVIOUS
<1>1. TypeOK
  <2>1. place \in [Rows -> Nat] /\ Arranged
    BY ListingAssumption DEF Init
  <2>2. dept \in [Rows -> MaybeDept]
    BY DEF Init, MaybeDept
  <2>3. /\ IsFiniteSet({}) /\ Cardinality({}) = 0
    BY FS_EmptySet
  <2>4. MaxLimit \in Nat
    BY ListingAssumption
  <2>5. Table \in SUBSET Rows
    BY DEF Table
  <2>6. total \in 0 .. Cardinality(Table)
    BY <2>5, FiniteRows DEF Init
  <2>7. requester \in Requester
    BY DEF Init, Requester, Admin, MaybeDept
  <2>8. since \in [owes : SUBSET Rows, joined : Nat, left : SUBSET Rows, split : BOOLEAN]
    BY DEF Init, NoHistory
  <2>9. Cardinality(items) <= MaxLimit
    BY <2>3, <2>4 DEF Init
  <2> QED
    BY <2>1, <2>2, <2>6, <2>7, <2>8, <2>9 DEF TypeOK, Init
<1>2. pc = "new" /\ items = {} /\ seen = {} /\ alone = 0 /\ tied = 0
      /\ since = NoHistory /\ page = 1 /\ owed = {} /\ total = 0 /\ code = "none"
  BY DEF Init
<1>3. WalkInv
  BY <1>2 DEF WalkInv
<1>4. ScopeInv
  BY <1>2 DEF ScopeInv
<1>5. RepeatInv /\ SumInv
  <2>1. Cardinality(Twice) = 0
    BY <1>2, FS_EmptySet DEF Twice
  <2> QED
    BY <1>2, <2>1 DEF RepeatInv, SumInv, Asking, NoHistory
<1>6. AheadInv /\ CountInv
  BY <1>2 DEF AheadInv, CountInv, Asking, Between
<1>7. MissIsExplained
  BY <1>2 DEF MissIsExplained
<1> QED
  BY <1>1, <1>3, <1>4, <1>5, <1>6, <1>7 DEF IInv

\* Begin: nothing was met yet, and all that is owed is still ahead.
LEMMA BeginKeeps ==
    ASSUME IInv, NEW who \in Requester, NEW query \in Query, Begin(who, query)
    PROVE  IInv'
<1>1. /\ pc = "new" /\ pc' = "ask" /\ requester' = who /\ asked' = query
      /\ list' = list /\ place' = place /\ dept' = dept /\ flag' = flag
      /\ page' = page /\ code' = code /\ items' = items /\ total' = total /\ owed' = owed
      /\ seen' = seen /\ alone' = alone /\ tied' = tied
      /\ since' = [NoHistory EXCEPT !.owes = {r \in Table : Wanted(r, flag)'}]
  BY DEF Begin, rows, walk
<1>2. /\ items = {} /\ total = 0 /\ owed = {} /\ seen = {} /\ alone = 0 /\ tied = 0
      /\ page = 1
  BY <1>1 DEF IInv, WalkInv
<1>3. Table' = Table
  BY <1>1 DEF Table
<1>4. /\ since'.owes = {r \in Table : Wanted(r, flag)'}
      /\ since'.joined = 0 /\ since'.left = {} /\ since'.split = FALSE
      /\ since' \in [owes : SUBSET Rows, joined : Nat, left : SUBSET Rows, split : BOOLEAN]
  BY <1>1 DEF NoHistory, Table
<1>5. TypeOK'
  <2>1. Arranged'
    BY <1>1, <1>3 DEF IInv, TypeOK, Arranged
  <2>2. \A r \in Rows \ Table' : dept'[r] = NoDept /\ ~ flag'[r]
    BY <1>1, <1>3 DEF IInv, TypeOK
  <2>3. total' \in 0 .. Cardinality(Table')
    BY <1>1, <1>3 DEF IInv, TypeOK
  <2>4. Cardinality(items') <= MaxLimit
    BY <1>1 DEF IInv, TypeOK
  <2> QED
    BY <1>1, <1>4, <2>1, <2>2, <2>3, <2>4 DEF IInv, TypeOK
<1>6. Met' = {} /\ Again' = {} /\ Twice' = {}
  BY <1>1, <1>2 DEF Met, Again, Twice
<1>7. WalkInv'
  BY <1>1, <1>2 DEF WalkInv
<1>8. ScopeInv'
  BY <1>1, <1>3, <1>4, <1>6 DEF ScopeInv
<1>9. RepeatInv'
  <2>1. Cardinality({}) = 0
    BY FS_EmptySet
  <2> QED
    BY <1>1, <1>2, <1>4, <1>6, <2>1 DEF RepeatInv
<1>10. (~ NothingInScope => \A r : /\ Matches(r, flag) => InScope(r)
                                   /\ Wanted(r, flag) => Matches(r, flag))'
  BY FiltersAreTheScope, PTL
<1>11. (TypeOK => \A r \in Matching : /\ Rank(r, Matching) \in 1 .. Cardinality(Matching)
                                      /\ Rank(r, Matching) \in Nat)'
  BY RankBounds, PTL
<1>12. (asked \in Query => SafeLimit \in 1 .. MaxLimit)'
  BY LimitBounds, PTL
<1>13. Offset' = 0
  <2>1. SafeLimit' \in Nat
    BY <1>1, <1>12, ListingAssumption
  <2>2. Offset' = (1 - 1) * SafeLimit'
    BY <1>1, <1>2 DEF Offset, Read
  <2>3. \A n \in Nat : (1 - 1) * n = 0
    OBVIOUS
  <2> QED
    BY <2>1, <2>2, <2>3
<1>14. AheadInv'
  <2>1. SUFFICES ASSUME ~ NothingInScope', NEW r \in Unmet'
                 PROVE  Rank(r, Matching)' > Offset'
    BY DEF AheadInv
  <2>2. r \in Table' /\ Wanted(r, flag)'
    BY <1>3, <1>4 DEF Unmet
  <2>3. Matches(r, flag)'
    BY <1>10, <2>1, <2>2
  <2>4. r \in Matching'
    BY <2>2, <2>3 DEF Matching
  <2>5. Rank(r, Matching)' \in 1 .. Cardinality(Matching') /\ Rank(r, Matching)' \in Nat
    BY <1>5, <1>11, <2>4
  <2> QED
    BY <1>13, <2>5
<1>15. SumInv'
  <2>1. SUFFICES ASSUME ~ NothingInScope'
                 PROVE  /\ Shown' = 0
                        /\ Cardinality(Matching') <= Cardinality(Listed') + since'.joined
                        /\ Cardinality(Listed') + since'.joined \in Nat
    BY <1>13 DEF SumInv
  <2>2. Shown' = 0
    <3>1. items' \cap seen' = {}
      BY <1>1, <1>2
    <3>2. Cardinality({}) = 0
      BY FS_EmptySet
    <3> QED
      BY <1>1, <1>2, <1>6, <3>1, <3>2 DEF Shown
  <2>3. Matching' \subseteq Listed'
    <3>1. (~ NothingInScope => \A q : Matches(q, flag) => Wanted(q, flag))'
      BY MatchesAreWanted, PTL
    <3> QED
      BY <1>3, <1>4, <2>1, <3>1 DEF Matching, Listed
  <2>4. Listed' \in SUBSET Rows
    BY <1>4 DEF Listed
  <2>5. IsFiniteSet(Listed') /\ Cardinality(Listed') \in Nat
    BY <2>4, FiniteRows
  <2>6. Cardinality(Matching') <= Cardinality(Listed')
    BY <2>3, <2>5, FS_Subset
  <2> QED
    BY <1>4, <2>2, <2>5, <2>6
<1>16. CountInv' /\ MissIsExplained'
  BY <1>1 DEF CountInv, Between, MissIsExplained
<1> QED
  BY <1>5, <1>7, <1>8, <1>9, <1>14, <1>15, <1>16 DEF IInv

\* Ask: a page is asked for, or the answer is there already.
LEMMA AskKeeps ==
    ASSUME IInv, Ask
    PROVE  IInv'
<1>1. /\ UNCHANGED <<rows, caller>> /\ pc = "ask"
      /\ page' = page /\ items' = items /\ total' = total
      /\ seen' = seen /\ alone' = alone /\ tied' = tied /\ since' = since
  BY DEF Ask, walk
<1>2. \/ pc' = "done" /\ owed' = owed /\ (code' = "200" => NothingInScope)
                      /\ code' \in {"400", "200"}
      \/ pc' = "queries" /\ owed' = {"findAll", "countAll"} /\ code' = code /\ ~ NothingInScope
  BY DEF Ask, End
<1>3. owed = {} /\ items = {} /\ total = 0
  BY <1>1 DEF IInv, WalkInv
<1>4. TypeOK'
  <2>1. pc' \in {"ask", "queries", "done"} /\ owed' \subseteq {"findAll", "countAll"}
    BY <1>2, <1>3
  <2>2. code' \in {"none", "200", "400", "500"}
    BY <1>2 DEF IInv, TypeOK
  <2>3. /\ page' \in Nat \ {0} /\ items' \subseteq Rows /\ Cardinality(items') <= MaxLimit
        /\ total' \in 0 .. Cardinality(Table) /\ seen' \subseteq Rows
        /\ alone' \in Nat /\ tied' \in Nat
    BY <1>1 DEF IInv, TypeOK
  <2> QED
    BY <1>1, <2>1, <2>2, <2>3, TypeStands DEF IInv
<1>5. NothingInScope' = NothingInScope /\ Matching' = Matching /\ Table' = Table
  BY <1>1, RowsStand
<1>6. /\ Met' = Met /\ Unmet' = Unmet /\ Twice' = Twice /\ Shown' = Shown
      /\ Listed' = Listed
  BY <1>1, RowsStand DEF Met, Unmet, Twice, Shown, Listed
<1>7. WalkInv'
  BY <1>1, <1>2, <1>3, <1>5 DEF IInv, WalkInv
<1>8. ScopeInv'
  BY <1>1, <1>6, RowsStand DEF IInv, ScopeInv
<1>9. Offset' = Offset \/ pc' = "done"
  <2>1. ASSUME pc' = "queries" PROVE Offset' = Offset
    <3>1. ~ Read /\ ~ Read'
      BY <1>1, <1>2, <2>1 DEF Read
    <3> QED
      BY <1>1, <3>1, RowsStand DEF Offset
  <2> QED
    BY <1>2, <2>1
<1>10. RepeatInv'
  <2>1. ASSUME pc' = "queries" PROVE Again' = Again
    BY <1>5, <1>6, <1>9, <2>1, <1>1, RowsStand DEF Again
  <2>2. Asking
    BY <1>1 DEF Asking
  <2>3. Asking' => pc' = "queries"
    BY <1>2 DEF Asking
  <2> QED
    BY <1>1, <1>6, <2>1, <2>2, <2>3 DEF IInv, RepeatInv
<1>10a. SumInv'
  <2>1. Asking /\ (Asking' => Offset' = Offset)
    BY <1>1, <1>9 DEF Asking
  <2> QED
    BY <1>1, <1>5, <1>6, <2>1 DEF IInv, SumInv
<1>11. AheadInv'
  <2>1. Asking
    BY <1>1 DEF Asking
  <2>2. Asking' => pc' = "queries"
    BY <1>2 DEF Asking
  <2>3. Whole' = Whole
    BY <1>1 DEF Whole
  <2>4. SUFFICES ASSUME Whole, pc' = "queries", ~ NothingInScope, NEW r \in Unmet
                 PROVE  Rank(r, Matching)' > Offset'
    BY <1>5, <1>6, <2>2, <2>3 DEF AheadInv
  <2>5. Rank(r, Matching) > Offset
    BY <2>1, <2>4 DEF IInv, AheadInv
  <2> QED
    BY <1>1, <1>9, <2>4, <2>5, RowsStand
<1>12. CountInv'
  <2>1. pc' = "queries" => owed' = {"findAll", "countAll"}
    BY <1>2
  <2> QED
    BY <2>1 DEF CountInv, Between
<1>13. MissIsExplained'
  <2>1. SUFFICES ASSUME pc' = "done", code' = "200", ~ (requester.role = "MANAGER" /\ asked.upper)
                 PROVE  since.owes = {}
    <3>1. requester' = requester /\ asked' = asked
      BY <1>1 DEF caller
    <3> QED
      BY <1>1, <3>1 DEF MissIsExplained
  <2>2. NothingInScope
    BY <1>2, <2>1
  <2>3. requester \in Requester
    BY DEF IInv, TypeOK
  <2>4. \A r : ~ Wanted(r, flag)
    BY <2>1, <2>2, <2>3, NothingIsOwed
  <2> QED
    BY <1>1, <2>4 DEF IInv, ScopeInv
<1> QED
  BY <1>4, <1>7, <1>8, <1>10, <1>10a, <1>11, <1>12, <1>13 DEF IInv

\* FindAll: the rows of the page move from those ahead to those that were met.
LEMMA FindAllKeeps ==
    ASSUME IInv, FindAll
    PROVE  IInv'
<1> DEFINE a == (page - 1) * SafeLimit
<1>1. /\ UNCHANGED <<rows, caller>> /\ "findAll" \in owed /\ owed' = owed \ {"findAll"}
      /\ \E sort \in Sortings : items' = {r \in Matching : sort[r] \in a + 1 .. a + SafeLimit}
      /\ page' = page /\ pc' = pc /\ code' = code /\ total' = total
      /\ seen' = seen /\ alone' = alone /\ tied' = tied /\ since' = since
  BY DEF FindAll, PageFrom, walk
<1>1a. PICK sort \in Sortings : items' = {r \in Matching : sort[r] \in a + 1 .. a + SafeLimit}
  BY <1>1, Zenon
<1>2. pc = "queries" /\ items = {} /\ ~ NothingInScope
  BY <1>1 DEF IInv, WalkInv, TypeOK
<1>3. /\ a \in Nat /\ SafeLimit \in Nat \ {0} /\ SafeLimit <= MaxLimit
      /\ page * SafeLimit = a + SafeLimit /\ page * SafeLimit \in Nat
  <2>1. SafeLimit \in Nat \ {0} /\ SafeLimit <= MaxLimit
    BY <1>2, OffsetIsNatural DEF IInv
  <2>2. page \in Nat \ {0}
    BY DEF IInv, TypeOK
  <2> QED
    BY <2>1, <2>2, PageOffsets
<1>4. Offset = a
  BY <1>1 DEF Offset, Read
<1>5. Offset' = a + SafeLimit
  <2>1. Read'
    BY <1>1, <1>2 DEF Read
  <2>2. Offset' = page * SafeLimit
    BY <1>1, <2>1, RowsStand DEF Offset
  <2> QED
    BY <1>3, <2>2
<1>6. \A r \in Matching : Rank(r, Matching) \in Nat /\ Rank(r, Matching) <= Cardinality(Matching)
  <2>1. Matching \in SUBSET Rows
    BY DEF Matching, Table
  <2>2. Cardinality(Matching) \in Nat
    BY <2>1, FiniteRows
  <2> QED
    BY <2>2, RankBounds DEF IInv
<1>7. /\ Matching' = Matching /\ Table' = Table /\ NothingInScope' = NothingInScope
      /\ \A r : Tied(r)' = Tied(r)
      /\ \A r : Rank(r, Matching)' = Rank(r, Matching)
  BY <1>1, RowsStand
<1> HIDE DEF a
<1>7a. /\ IsFiniteSet(items') /\ Cardinality(items') <= SafeLimit
       /\ items' # {} => a + Cardinality(items') <= Cardinality(Matching)
       /\ items' \subseteq Matching
       /\ \A r \in Matching : ~ Tied(r) =>
             (r \in items' <=> Rank(r, Matching) \in a + 1 .. a + SafeLimit)
  <2>1. Matching \in SUBSET Rows
    BY DEF Matching, Table
  <2>2. IsFiniteSet(Matching)
    BY <2>1, FiniteRows
  <2>3. /\ Numbers(sort, Matching)
        /\ \A r \in Matching : ~ Tied(r) => sort[r] = Rank(r, Matching)
    BY <1>2, SortIsRank DEF IInv
  <2>4. SafeLimit \in Nat /\ a \in Nat /\ Numbers(sort, Matching)
    BY <1>3, <2>3
  <2>5. /\ IsFiniteSet(items') /\ Cardinality(items') <= SafeLimit
        /\ items' # {} => a + Cardinality(items') <= Cardinality(Matching)
    <3> DEFINE Page == items'
    <3>1. Page = PageOf(sort, Matching, a, SafeLimit)
      BY <1>1a DEF PageOf
    <3> HIDE DEF Page
    <3>2. /\ IsFiniteSet(Page) /\ Cardinality(Page) <= SafeLimit
          /\ Page # {} => a + Cardinality(Page) <= Cardinality(Matching)
      BY <2>2, <2>4, <3>1, PageSize
    <3> QED
      BY <3>2 DEF Page
  <2> QED
    BY <1>1a, <2>3, <2>5
<1>8. TypeOK'
  <2>1. Matching \subseteq Rows
    BY DEF Matching, Table
  <2>2. IsFiniteSet(items') /\ Cardinality(items') <= SafeLimit
    BY <1>7a
  <2>3. items' \subseteq Rows /\ Cardinality(items') <= MaxLimit
    <3>1. Cardinality(items') \in Nat /\ MaxLimit \in Nat
      BY <2>2, FS_CardinalityType, ListingAssumption
    <3>2. Cardinality(items') <= MaxLimit
      BY <1>3, <2>2, <3>1
    <3> QED
      BY <1>7a, <2>1, <3>2
  <2>4. /\ page' \in Nat \ {0} /\ code' \in {"none", "200", "400", "500"}
        /\ total' \in 0 .. Cardinality(Table) /\ seen' \subseteq Rows
        /\ alone' \in Nat /\ tied' \in Nat
        /\ owed' \subseteq {"findAll", "countAll"} /\ pc' \in {"ask", "queries", "done"}
    BY <1>1, <1>2 DEF IInv, TypeOK
  <2> QED
    BY <1>1, <1>2, <2>3, <2>4, TypeStands DEF IInv
<1>9. WalkInv'
  BY <1>1, <1>2, <1>7 DEF WalkInv
<1>10. ScopeInv'
  <2>1. items' \subseteq {r \in Table : InScope(r)}
    <3>1. \A r \in Matching : r \in Table /\ Matches(r, flag)
      BY DEF Matching
    <3>2. \A r \in items' : r \in Matching
      BY <1>7a
    <3> QED
      BY <1>2, <3>1, <3>2, FiltersAreTheScope
  <2>2. Met \subseteq {r \in Table : InScope(r)}
    BY <1>2 DEF IInv, ScopeInv
  <2>3. Met' \subseteq Met \cup items'
    BY <1>1 DEF Met
  <2>4. /\ \A r : InScope(r)' = InScope(r)
        /\ \A r : Wanted(r, flag)' = Wanted(r, flag)
    BY <1>1, RowsStand
  <2>5. Met' \subseteq {r \in Table' : InScope(r)'}
    BY <1>7, <2>1, <2>2, <2>3, <2>4
  <2>6. since'.owes \subseteq {r \in Table' : Wanted(r, flag)'}
    BY <1>1, <1>2, <1>7, <2>4 DEF IInv, ScopeInv
  <2> QED
    BY <2>5, <2>6 DEF ScopeInv
<1>11. RepeatInv'
  <2>1. Again \in SUBSET Rows /\ Again' \in SUBSET Rows /\ Twice' \in SUBSET Rows
    BY <1>7, <1>7a DEF Again, Twice, Matching, Table
  <2>2. Twice' = {r \in items' \cap seen : ~ Tied(r)}
    BY <1>1, <1>7 DEF Twice
  <2>3. Twice' \subseteq Again
    <3>1. \A r \in Twice' : r \in Matching /\ r \in seen /\ ~ Tied(r)
                            /\ Rank(r, Matching) \in a + 1 .. a + SafeLimit
      BY <1>7a, <2>2
    <3> QED
      BY <1>3, <1>4, <1>6, <3>1 DEF Again, Met
  <2>4. Again' \subseteq Again /\ Twice' \cap Again' = {}
    <3>1. Again' = {r \in (seen \cup items') \cap Matching :
                       ~ Tied(r) /\ Rank(r, Matching) > a + SafeLimit}
      BY <1>1, <1>5, <1>7 DEF Again, Met
    <3>2. \A r \in items' : ~ Tied(r) => ~ Rank(r, Matching) > a + SafeLimit
      BY <1>3, <1>6, <1>7a
    <3>3. \A r \in Matching : Rank(r, Matching) > a + SafeLimit => Rank(r, Matching) > a
      BY <1>3, <1>6
    <3> QED
      BY <1>4, <2>2, <3>1, <3>2, <3>3 DEF Again, Met
  <2>5. Cardinality(Twice') + Cardinality(Again') <= Cardinality(Again)
    <3>1. Cardinality(Twice' \cup Again') = Cardinality(Twice') + Cardinality(Again')
      BY <2>1, <2>4, SizesAdd
    <3>2. IsFiniteSet(Again)
      BY <2>1, FiniteRows
    <3>3. Cardinality(Twice' \cup Again') <= Cardinality(Again)
      BY <2>3, <2>4, <3>2, FS_Subset
    <3> QED
      BY <3>1, <3>3
  <2>6. /\ Cardinality(Twice') \in Nat /\ Cardinality(Again') \in Nat /\ Cardinality(Again) \in Nat
        /\ alone \in Nat /\ since.joined \in Nat
    BY <2>1, FiniteRows DEF IInv, TypeOK
  <2>7. alone + Cardinality(Again) <= since.joined
    <3>1. Twice = {}
      BY <1>2 DEF Twice
    <3>2. alone + Cardinality({}) + Cardinality(Again) <= since.joined
      BY <1>2, <3>1 DEF IInv, RepeatInv, Asking
    <3>3. Cardinality({}) = 0
      BY FS_EmptySet
    <3> QED
      BY <2>6, <3>2, <3>3
  <2>8. /\ alone + Cardinality(Twice') <= since.joined
        /\ alone + Cardinality(Twice') + Cardinality(Again') <= since.joined
    BY <2>5, <2>6, <2>7
  <2> QED
    BY <1>1, <2>8 DEF RepeatInv
<1>11a. SumInv'
  <2>1. /\ alone \in Nat /\ tied \in Nat /\ since.joined \in Nat /\ seen \in SUBSET Rows
        /\ items' \in SUBSET Rows /\ Cardinality(Listed) \in Nat
        /\ Cardinality(Matching) \in Nat
    BY <1>7a, Sizes DEF IInv, TypeOK
  <2>2. Cardinality(seen) \in Nat /\ Cardinality(items') \in Nat
    BY <2>1, FiniteRows
  <2>3. /\ Cardinality(items' \cap seen) \in Nat /\ Cardinality(items' \cup seen) \in Nat
    <3>1. items' \cap seen \in SUBSET Rows /\ items' \cup seen \in SUBSET Rows
      BY <2>1
    <3> QED
      BY <3>1, FiniteRows
  <2>4. Cardinality(items') + Cardinality(seen)
          = Cardinality(items' \cup seen) + Cardinality(items' \cap seen)
    BY <2>1, SizesAdd
  <2>5. Shown = alone + tied + Cardinality(seen)
    <3>1. items \cap seen = {} /\ Met = seen
      BY <1>2 DEF Met
    <3>2. Cardinality({}) = 0
      BY FS_EmptySet
    <3>3. Shown = alone + tied + 0 + Cardinality(seen)
      BY <3>1, <3>2, Zenon DEF Shown
    <3> QED
      BY <2>1, <2>2, <3>3
  <2>6. Shown' = alone + tied + Cardinality(seen) + Cardinality(items')
    <3>1. Met' = items' \cup seen
      BY <1>1 DEF Met
    <3>2. Shown' = alone + tied + Cardinality(items' \cap seen) + Cardinality(items' \cup seen)
      BY <1>1, <3>1 DEF Shown
    <3> QED
      BY <2>1, <2>2, <2>3, <2>4, <3>2
  <2>7. /\ Shown <= a /\ Shown <= Cardinality(Listed) + since.joined
        /\ Cardinality(Matching) <= Cardinality(Listed) + since.joined
    BY <1>2, <1>4 DEF IInv, SumInv, Asking
  <2>8. Shown' <= a + SafeLimit
    BY <1>3, <1>7a, <2>1, <2>2, <2>5, <2>6, <2>7
  <2>9. Shown' <= Cardinality(Listed) + since.joined
    <3>1. CASE items' = {}
      <4>1. Cardinality(items') = 0
        BY <3>1, FS_EmptySet
      <4> QED
        BY <2>1, <2>2, <2>5, <2>6, <2>7, <4>1
    <3>2. CASE items' # {}
      <4>1. a + Cardinality(items') <= Cardinality(Matching)
        BY <1>7a, <3>2
      <4> QED
        BY <1>3, <2>1, <2>2, <2>5, <2>6, <2>7, <4>1
    <3> QED
      BY <3>1, <3>2
  <2> QED
    BY <1>1, <1>5, <1>7, <2>7, <2>8, <2>9 DEF SumInv, Listed
<1>12. Unmet' \subseteq Unmet /\ Unmet' \cap items' = {} /\ Unmet \subseteq Matching
  <2>1. since.owes \subseteq {r \in Table : Wanted(r, flag)}
    BY <1>2 DEF IInv, ScopeInv
  <2>2. \A r \in Unmet : r \in Matching
    BY <1>2, <2>1, FiltersAreTheScope DEF Unmet, Matching
  <2> QED
    BY <1>1, <1>2, <1>7, <2>2 DEF Unmet, Met
<1>13. Whole /\ ~ NothingInScope => \A r \in Unmet' : Rank(r, Matching) > a + SafeLimit
  <2>1. SUFFICES ASSUME Whole, ~ NothingInScope, NEW r \in Unmet'
                 PROVE  Rank(r, Matching) > a + SafeLimit
    OBVIOUS
  <2>2. Rank(r, Matching) > a
    BY <1>2, <1>4, <1>12, <2>1 DEF IInv, AheadInv, Asking
  <2>3. r \in Matching /\ r \notin items' /\ ~ Tied(r)
    BY <1>12, <2>1 DEF Unmet
  <2>4. Rank(r, Matching) \notin a + 1 .. a + SafeLimit
    BY <1>7a, <2>3
  <2> QED
    BY <1>3, <1>6, <2>2, <2>3, <2>4
<1>14. AheadInv'
  BY <1>1, <1>5, <1>7, <1>13 DEF AheadInv, Whole
<1>15. CountInv'
  <2>1. SUFFICES ASSUME Whole
                 PROVE  /\ owed' = {} /\ Unmet' # {} => total > page * SafeLimit
                        /\ ~ Between'
    BY <1>1, RowsStand DEF CountInv, Whole
  <2>2. ~ Between'
    BY <1>1 DEF Between
  <2>3. ASSUME owed' = {}, Unmet' # {} PROVE total > page * SafeLimit
    <3>1. Between
      BY <1>1, <1>2, <2>3 DEF Between
    <3>2. total = Cardinality(Matching)
      BY <2>1, <3>1 DEF IInv, CountInv
    <3>3. PICK r \in Unmet' : TRUE
      BY <2>3
    <3>4. Rank(r, Matching) > a + SafeLimit /\ r \in Matching
      BY <1>2, <1>12, <1>13, <2>1, <3>3
    <3>5. Rank(r, Matching) \in Nat /\ Rank(r, Matching) <= Cardinality(Matching)
      BY <1>6, <3>4
    <3>6. total \in Nat
      <4>1. Cardinality(Table) \in Nat
        BY FiniteRows DEF Table
      <4> QED
        BY <4>1 DEF IInv, TypeOK
    <3> QED
      BY <1>3, <3>2, <3>4, <3>5, <3>6
  <2> QED
    BY <2>2, <2>3
<1>16. MissIsExplained'
  BY <1>1, <1>2 DEF MissIsExplained
<1> QED
  BY <1>8, <1>9, <1>10, <1>11, <1>11a, <1>14, <1>15, <1>16 DEF IInv

\* CountAll: the count says how many rows are ahead.
LEMMA CountAllKeeps ==
    ASSUME IInv, CountAll
    PROVE  IInv'
<1>1. /\ UNCHANGED <<rows, caller>> /\ "countAll" \in owed /\ owed' = owed \ {"countAll"}
      /\ total' = Cardinality(Matching) /\ items' = items
      /\ page' = page /\ pc' = pc /\ code' = code
      /\ seen' = seen /\ alone' = alone /\ tied' = tied /\ since' = since
  BY DEF CountAll, walk
<1>2. pc = "queries" /\ ~ NothingInScope
  BY <1>1 DEF IInv, WalkInv, TypeOK
<1>3. /\ Matching' = Matching /\ Table' = Table /\ NothingInScope' = NothingInScope
      /\ SafeLimit' = SafeLimit /\ \A r : Rank(r, Matching)' = Rank(r, Matching)
  BY <1>1, RowsStand
<1>4. /\ Met' = Met /\ Unmet' = Unmet /\ Read' = Read /\ Offset' = Offset
      /\ Twice' = Twice /\ Shown' = Shown /\ Listed' = Listed
  BY <1>1, <1>3, RowsStand DEF Met, Unmet, Read, Offset, Twice, Shown, Listed
<1>5. Matching \in SUBSET Table /\ Table \in SUBSET Rows
  BY DEF Matching, Table
<1>6. Cardinality(Matching) \in 0 .. Cardinality(Table)
  <2>1. IsFiniteSet(Table)
    BY <1>5, FiniteRows
  <2>2. Cardinality(Matching) <= Cardinality(Table)
    BY <1>5, <2>1, FS_Subset
  <2>3. Cardinality(Matching) \in Nat /\ Cardinality(Table) \in Nat
    BY <1>5, FiniteRows
  <2> QED
    BY <2>2, <2>3
<1>7. TypeOK'
  <2>1. /\ page' \in Nat \ {0} /\ code' \in {"none", "200", "400", "500"}
        /\ items' \subseteq Rows /\ Cardinality(items') <= MaxLimit
        /\ total' \in 0 .. Cardinality(Table) /\ seen' \subseteq Rows
        /\ alone' \in Nat /\ tied' \in Nat
        /\ owed' \subseteq {"findAll", "countAll"} /\ pc' \in {"ask", "queries", "done"}
    BY <1>1, <1>2, <1>6 DEF IInv, TypeOK
  <2> QED
    BY <1>1, <1>2, <2>1, TypeStands DEF IInv
<1>8. WalkInv'
  BY <1>1, <1>2, <1>3 DEF IInv, WalkInv
<1>9. ScopeInv'
  BY <1>1, <1>2, <1>4, RowsStand DEF IInv, ScopeInv
<1>10. RepeatInv' /\ SumInv'
  <2>1. Again' = Again
    BY <1>1, <1>3, <1>4, RowsStand DEF Again
  <2>2. RepeatInv'
    BY <1>1, <1>4, <2>1 DEF IInv, RepeatInv, Asking
  <2>3. SumInv'
    BY <1>1, <1>3, <1>4 DEF IInv, SumInv, Asking
  <2> QED
    BY <2>2, <2>3
<1>11. AheadInv'
  BY <1>1, <1>3, <1>4 DEF IInv, AheadInv, Whole, Asking
<1>12. CountInv'
  <2>1. SUFFICES ASSUME Whole
                 PROVE  /\ owed' = {} /\ Unmet # {} => Cardinality(Matching) > page * SafeLimit
                        /\ Between' => total' = Cardinality(Matching)'
    BY <1>1, <1>3, <1>4 DEF CountInv, Whole
  <2>2. ASSUME owed' = {}, Unmet # {} PROVE Cardinality(Matching) > page * SafeLimit
    <3>1. Read
      BY <1>1, <1>2, <2>2 DEF Read
    <3>2. PICK r \in Unmet : TRUE
      BY <2>2
    <3>3. Rank(r, Matching) > page * SafeLimit
      BY <1>2, <2>1, <3>1, <3>2 DEF IInv, AheadInv, Asking, Offset
    <3>4. r \in Matching
      <4>1. r \in Table /\ Wanted(r, flag)
        BY <1>2, <3>2 DEF IInv, ScopeInv, Unmet
      <4> QED
        BY <1>2, <4>1, FiltersAreTheScope DEF Matching
    <3>5. Rank(r, Matching) \in 1 .. Cardinality(Matching) /\ Rank(r, Matching) \in Nat
      BY <3>4, RankBounds DEF IInv
    <3>6. Cardinality(Matching) \in Nat
      BY <1>5, FiniteRows
    <3>7. page * SafeLimit \in Nat
      <4>1. Offset \in Nat /\ Offset = page * SafeLimit
        BY <1>2, <3>1, OffsetIsNatural DEF IInv
      <4> QED
        BY <4>1
    <3> QED
      BY <3>3, <3>5, <3>6, <3>7
  <2> QED
    BY <1>1, <1>3, <2>2
<1>13. MissIsExplained'
  BY <1>1, <1>2 DEF MissIsExplained
<1> QED
  BY <1>7, <1>8, <1>9, <1>10, <1>11, <1>12, <1>13 DEF IInv

\* QueryFails: the walk ends without its rows.
LEMMA QueryFailsKeeps ==
    ASSUME IInv, QueryFails
    PROVE  IInv'
<1>1. /\ UNCHANGED <<rows, caller>> /\ pc = "queries" /\ pc' = "done" /\ code' = "500"
      /\ owed' = {} /\ items' = {} /\ total' = 0
      /\ page' = page /\ seen' = seen /\ alone' = alone /\ tied' = tied /\ since' = since
  BY DEF QueryFails, End, walk
<1>2. Cardinality({}) = 0 /\ MaxLimit \in Nat
  BY FS_EmptySet, ListingAssumption
<1>3. Table \in SUBSET Rows
  BY DEF Table
<1>4. TypeOK'
  <2>1. total' \in 0 .. Cardinality(Table)
    BY <1>1, <1>3, FiniteRows
  <2>2. items' \subseteq Rows /\ Cardinality(items') <= MaxLimit
    BY <1>1, <1>2
  <2>3. /\ page' \in Nat \ {0} /\ seen' \subseteq Rows /\ alone' \in Nat /\ tied' \in Nat
    BY <1>1 DEF IInv, TypeOK
  <2> QED
    BY <1>1, <2>1, <2>2, <2>3, TypeStands DEF IInv
<1>5. WalkInv'
  BY <1>1, RowsStand DEF IInv, WalkInv
<1>6. ScopeInv'
  <2>1. Met' \subseteq Met
    BY <1>1 DEF Met
  <2> QED
    BY <1>1, <2>1, RowsStand DEF IInv, ScopeInv
<1>7. RepeatInv' /\ SumInv'
  <2>1. Twice' = {} /\ items' \cap seen' = {} /\ Met' = seen /\ ~ Asking'
    BY <1>1 DEF Twice, Met, Asking
  <2>2. /\ Cardinality(Twice) \in Nat /\ alone \in Nat /\ tied \in Nat /\ since.joined \in Nat
        /\ Cardinality(items \cap seen) \in Nat /\ Cardinality(Met) \in Nat
        /\ Cardinality(Listed) \in Nat /\ Met \in SUBSET Rows
    BY Sizes DEF IInv
  <2>3. RepeatInv'
    <3>1. alone + Cardinality(Twice) <= since.joined
      BY DEF IInv, RepeatInv
    <3> QED
      BY <1>1, <1>2, <2>1, <2>2, <3>1 DEF RepeatInv
  <2>4. Cardinality(seen) <= Cardinality(Met) /\ Cardinality(seen) \in Nat
    <3>1. IsFiniteSet(Met) /\ seen \in SUBSET Met /\ seen \in SUBSET Rows
      BY <2>2, FiniteRows DEF Met
    <3> QED
      BY <3>1, FiniteRows, FS_Subset
  <2>5. Shown' = alone + tied + 0 + Cardinality(seen)
    BY <1>1, <1>2, <2>1 DEF Shown
  <2>6. Shown' <= Shown
    BY <2>2, <2>4, <2>5 DEF Shown
  <2>7. Shown \in Nat /\ Shown' \in Nat
    BY <2>2, <2>4, <2>5 DEF Shown
  <2>8. SumInv'
    <3>1. NothingInScope' = NothingInScope /\ Listed' = Listed
      BY <1>1, RowsStand DEF Listed
    <3>2. ~ NothingInScope => Shown <= Cardinality(Listed) + since.joined
      BY <1>1 DEF IInv, SumInv
    <3> QED
      BY <1>1, <2>1, <2>2, <2>6, <2>7, <3>1, <3>2 DEF SumInv
  <2> QED
    BY <2>3, <2>8
<1>8. AheadInv' /\ CountInv' /\ MissIsExplained'
  BY <1>1 DEF AheadInv, CountInv, Between, Asking, MissIsExplained
<1> QED
  BY <1>4, <1>5, <1>6, <1>7, <1>8 DEF IInv

\* Answer: what was met stays so, and the last page comes only when nothing is ahead.
LEMMA AnswerKeeps ==
    ASSUME IInv, Answer
    PROVE  IInv'
<1>1. /\ UNCHANGED <<rows, caller>> /\ pc = "queries" /\ owed = {} /\ owed' = owed
      /\ seen' = seen \cup items /\ alone' = alone + Cardinality(Twice)
      /\ tied' = tied + Cardinality({r \in items \cap seen : Tied(r)})
      /\ items' = {} /\ total' = 0 /\ since' = since /\ code' = "200"
      /\ \/ page < TotalPages /\ page' = page + 1 /\ pc' = "ask"
         \/ ~ page < TotalPages /\ page' = page /\ pc' = "done"
  BY DEF Answer, End, Twice
<1>2. Cardinality({}) = 0 /\ MaxLimit \in Nat
  BY FS_EmptySet, ListingAssumption
<1>3. /\ Matching' = Matching /\ Table' = Table /\ NothingInScope' = NothingInScope
      /\ SafeLimit' = SafeLimit /\ \A r : Rank(r, Matching)' = Rank(r, Matching)
  BY <1>1, RowsStand
<1>4. /\ page \in Nat \ {0} /\ SafeLimit \in Nat \ {0}
      /\ Offset = page * SafeLimit /\ page * SafeLimit \in Nat
  <2>1. Read
    BY <1>1 DEF Read
  <2> QED
    BY <1>1, <2>1, OffsetIsNatural DEF IInv, TypeOK
<1>5. Met' = Met /\ Unmet' = Unmet /\ Listed' = Listed
  BY <1>1, RowsStand DEF Met, Unmet, Listed
<1>6. pc' = "ask" => Offset' = Offset
  <2>1. SUFFICES ASSUME pc' = "ask" PROVE Offset' = Offset
    OBVIOUS
  <2>2. Offset' = (page + 1 - 1) * SafeLimit
    <3>1. page' = page + 1
      BY <1>1, <2>1
    <3>2. ~ Read'
      BY <2>1 DEF Read
    <3>3. Offset' = (page' - 1) * SafeLimit'
      BY <3>2 DEF Offset
    <3>4. SafeLimit' = SafeLimit
      BY <1>3
    <3>5. Offset' = (page' - 1) * SafeLimit
      BY <3>3, <3>4, Zenon
    <3>6. page' - 1 = page + 1 - 1
      BY <1>4, <3>1
    <3> QED
      BY <3>5, <3>6, Zenon
  <2>3. (page + 1 - 1) * SafeLimit = page * SafeLimit
    BY <1>4, PageOffsets
  <2> QED
    BY <1>4, <2>2, <2>3
<1>7. /\ Cardinality(items \cap seen) \in Nat /\ alone \in Nat /\ tied \in Nat
      /\ since.joined \in Nat /\ Cardinality(Twice) \in Nat /\ Cardinality(Met) \in Nat
      /\ Cardinality({r \in items \cap seen : Tied(r)}) \in Nat
      /\ Cardinality(items \cap seen)
           = Cardinality(Twice) + Cardinality({r \in items \cap seen : Tied(r)})
  <2> DEFINE Both == {r \in items \cap seen : Tied(r)}
  <2>1. Twice \in SUBSET Rows /\ Both \in SUBSET Rows
    BY DEF IInv, TypeOK, Twice
  <2>2. Twice \cap Both = {} /\ items \cap seen = Twice \cup Both
    BY DEF Twice
  <2>3. Cardinality(Both) \in Nat
    BY <2>1, FiniteRows
  <2> HIDE DEF Both
  <2>4. Cardinality(items \cap seen) = Cardinality(Twice) + Cardinality(Both)
    <3>1. Cardinality(Twice \cup Both) = Cardinality(Twice) + Cardinality(Both)
      BY <2>1, <2>2, SizesAdd
    <3> QED
      BY <2>2, <3>1
  <2>5. /\ Cardinality(items \cap seen) \in Nat /\ alone \in Nat /\ tied \in Nat
        /\ since.joined \in Nat /\ Cardinality(Twice) \in Nat /\ Cardinality(Met) \in Nat
    BY Sizes DEF IInv
  <2> QED
    BY <2>3, <2>4, <2>5 DEF Both
<1>8. TypeOK'
  <2>1. total' \in 0 .. Cardinality(Table)
    <3>1. Cardinality(Table) \in Nat
      BY FiniteRows DEF Table
    <3> QED
      BY <1>1, <3>1
  <2>2. items' \subseteq Rows /\ Cardinality(items') <= MaxLimit
    BY <1>1, <1>2
  <2>3. page' \in Nat \ {0} /\ alone' \in Nat /\ tied' \in Nat
    BY <1>1, <1>4, <1>7
  <2>4. seen' \subseteq Rows
    BY <1>1 DEF IInv, TypeOK
  <2>5. pc' \in {"ask", "queries", "done"} /\ owed' \subseteq {"findAll", "countAll"}
    BY <1>1
  <2> QED
    BY <1>1, <2>1, <2>2, <2>3, <2>4, <2>5, TypeStands DEF IInv
<1>9. WalkInv'
  BY <1>1, <1>3 DEF IInv, WalkInv
<1>10. ScopeInv'
  BY <1>1, <1>5, RowsStand DEF IInv, ScopeInv
<1>11. RepeatInv' /\ SumInv'
  <2>1. Twice' = {} /\ items' \cap seen' = {}
    BY <1>1 DEF Twice
  <2>2. pc' = "ask" => Again' = Again
    BY <1>1, <1>3, <1>5, <1>6, RowsStand DEF Again
  <2>3. RepeatInv'
    <3>1. /\ alone + Cardinality(Twice) <= since.joined
          /\ alone + Cardinality(Twice) + Cardinality(Again) <= since.joined
      BY <1>1 DEF IInv, RepeatInv, Asking
    <3>2. alone' + Cardinality(Twice') = alone + Cardinality(Twice)
      BY <1>1, <1>2, <1>7, <2>1
    <3> QED
      BY <1>1, <2>2, <3>1, <3>2 DEF RepeatInv, Asking
  <2>4. Shown' = Shown
    <3>1. Shown' = alone' + tied' + 0 + Cardinality(Met)
      BY <1>2, <1>5, <2>1 DEF Shown
    <3>2. alone' + tied' = alone + tied + Cardinality(items \cap seen)
      BY <1>1, <1>7
    <3>3. alone' \in Nat /\ tied' \in Nat
      BY <1>1, <1>7
    <3> QED
      BY <1>7, <3>1, <3>2, <3>3 DEF Shown
  <2>5. Asking /\ (Asking' => Offset' = Offset)
    BY <1>1, <1>6 DEF Asking
  <2>6. SumInv'
    BY <1>1, <1>3, <1>5, <2>4, <2>5 DEF IInv, SumInv
  <2> QED
    BY <2>3, <2>6
<1>12. AheadInv'
  BY <1>1, <1>3, <1>5, <1>6 DEF IInv, AheadInv, Whole, Asking
<1>13. CountInv'
  BY <1>1 DEF CountInv, Between
<1>14. MissIsExplained'
  <2>1. SUFFICES ASSUME pc' = "done", Whole
                 PROVE  \A r \in since.owes \ seen' : Tied(r)
    BY <1>1, RowsStand DEF MissIsExplained, Whole
  <2>2. total <= page * SafeLimit
    <3>1. total \in Nat
      <4>1. Cardinality(Table) \in Nat
        BY FiniteRows DEF Table
      <4> QED
        BY <4>1 DEF IInv, TypeOK
    <3>2. ~ page < (total + SafeLimit - 1) \div SafeLimit
      BY <1>1, <2>1 DEF TotalPages
    <3> QED
      BY <1>4, <3>1, <3>2, LastPage
  <2>3. Unmet # {} => total > page * SafeLimit
    BY <1>1, <2>1 DEF IInv, CountInv
  <2>4. total \in Int
    BY DEF IInv, TypeOK
  <2>5. Unmet = {}
    BY <1>4, <2>2, <2>3, <2>4
  <2> QED
    BY <1>1, <2>5 DEF Unmet, Met
<1> QED
  BY <1>8, <1>9, <1>10, <1>11, <1>12, <1>13, <1>14 DEF IInv

\* What a step of somebody else does to the rows that match, and to the account of it.
Stays    == Matching' = Matching /\ since'.joined = since.joined
Joins(j) == /\ j \notin Matching /\ Matching' = Matching \cup {j}
            /\ since'.joined = since.joined + 1 /\ (Between => since'.split)
Leaves   == /\ Matching' \subseteq Matching /\ since'.joined = since.joined
            /\ since'.left # {}

\* A step of somebody else: it keeps the order and the departments of the rows that are
\* there, and accounts for what it does to those that match.
OthersStep ==
    /\ Asking /\ TypeOK' /\ list' = list /\ UNCHANGED <<caller, answer, walk>>
    /\ Table \subseteq Table' /\ SameOrder(place, place', Table)
    /\ \A r \in Table : dept'[r] = dept[r]
    /\ since'.owes = {r \in since.owes : Wanted(r, flag)'}
    /\ ~ NothingInScope => since.owes \subseteq since'.owes \cup since'.left
    /\ since.left \subseteq since'.left /\ (since.split => since'.split)
    /\ since'.split => since.split \/ since'.joined > since.joined
    /\ Stays \/ Leaves \/ \E j : Joins(j)

LEMMA OthersKeep ==
    ASSUME IInv, OthersStep
    PROVE  IInv'
<1>0. /\ Asking /\ TypeOK' /\ list' = list /\ UNCHANGED <<caller, answer, walk>>
      /\ Table \subseteq Table' /\ SameOrder(place, place', Table)
      /\ \A r \in Table : dept'[r] = dept[r]
      /\ since'.owes \subseteq since.owes /\ \A r \in since'.owes : Wanted(r, flag)'
      /\ ~ NothingInScope => since.owes \subseteq since'.owes \cup since'.left
      /\ since.left \subseteq since'.left /\ (since.split => since'.split)
  BY DEF OthersStep
<1>1. /\ requester' = requester /\ asked' = asked /\ page' = page /\ pc' = pc /\ code' = code
      /\ items' = items /\ total' = total /\ owed' = owed
      /\ seen' = seen /\ alone' = alone /\ tied' = tied
  BY <1>0 DEF caller, answer, walk
<1>2. pc \in {"ask", "queries"}
  BY <1>0 DEF Asking
<1>3. NothingInScope' = NothingInScope /\ SafeLimit' = SafeLimit
  BY <1>0, <1>1 DEF NothingInScope, Scope, Scoped, SafeLimit
<1>3a. \A r \in Table : InScope(r)' = InScope(r) /\ (Tied(r) => Tied(r)')
  <2>1. \A r \in Table : InScope(r)' = InScope(r)
    BY <1>0, <1>1 DEF InScope, CanAccess, Scoped
  <2>2. ASSUME NEW r \in Table, NEW q \in Table, place[q] = place[r]
        PROVE  place'[q] = place'[r]
    <3>1. place[r] \in Nat /\ place[q] \in Nat /\ place'[r] \in Nat /\ place'[q] \in Nat
      BY <1>0 DEF IInv, TypeOK, Table
    <3>2. place'[q] <= place'[r] /\ place'[r] <= place'[q]
      BY <1>0, <2>2, <3>1 DEF SameOrder
    <3> QED
      BY <3>1, <3>2
  <2>3. ASSUME NEW r \in Table, Tied(r)
        PROVE  Tied(r)'
    <3>1. PICK q \in Table \ {r} : place[q] = place[r] /\ InScope(q)
      BY <2>3 DEF Tied
    <3>2. q \in Table' \ {r} /\ place'[q] = place'[r] /\ InScope(q)'
      BY <1>0, <2>1, <2>2, <3>1
    <3> QED
      BY <3>2 DEF Tied
  <2> QED
    BY <2>1, <2>3
<1>3b. Met \subseteq Table /\ since.owes \subseteq Table
  BY <1>2 DEF IInv, ScopeInv
<1>4. /\ Met' = Met /\ Read' = Read /\ Between' = Between /\ Asking' = Asking
      /\ Unmet' \subseteq Unmet /\ Twice' \subseteq Twice /\ Shown' = Shown
  <2>1. Met' = Met /\ Read' = Read /\ Between' = Between /\ Asking' = Asking
    BY <1>0, <1>1 DEF Met, Read, Between, Asking
  <2>2. Unmet' \subseteq Unmet
    BY <1>0, <1>3a, <1>3b, <2>1 DEF Unmet
  <2>3. Twice' \subseteq Twice
    BY <1>1, <1>3a, <1>3b DEF Twice, Met
  <2>4. Shown' = Shown
    BY <1>1, <2>1 DEF Shown
  <2> QED
    BY <2>1, <2>2, <2>3, <2>4
<1>5. Offset' = Offset
  BY <1>1, <1>3, <1>4 DEF Offset
<1>6. Offset \in Nat
  BY <1>2, OffsetIsNatural DEF IInv
<1>7. Whole' => Whole
  BY <1>0 DEF Whole
<1>8. /\ Matching \in SUBSET Table /\ Matching \in SUBSET Rows /\ Matching' \in SUBSET Rows
  BY DEF Matching, Table
<1>9. /\ IsFiniteSet(Matching) /\ IsOrder(place, Matching)
      /\ IsFiniteSet(Matching') /\ IsOrder(place', Matching')
  <2>1. (TypeOK => IsOrder(place, Matching))'
    BY PlacesAreAnOrder, PTL
  <2> QED
    BY <1>0, <1>8, <2>1, FiniteRows, PlacesAreAnOrder DEF IInv
<1>10. SameOrder(place, place', Matching)
  BY <1>0, <1>8 DEF SameOrder
<1>11. /\ \A r : Rank(r, Matching) = Position(place, r, Matching)
       /\ \A r : Rank(r, Matching)' = Position(place', r, Matching')
  BY DEF Rank, Position
<1>12. \A r \in Matching : Rank(r, Matching) \in Nat
  BY RankBounds DEF IInv
<1>13. Unmet \subseteq Matching \/ NothingInScope
  BY <1>2, FiltersAreTheScope DEF IInv, ScopeInv, Unmet, Matching
<1>14. WalkInv'
  BY <1>1, <1>2, <1>3 DEF IInv, WalkInv
<1>15. ScopeInv'
  <2>2. Met' \subseteq {r \in Table' : InScope(r)'}
    BY <1>0, <1>2, <1>3a, <1>4 DEF IInv, ScopeInv
  <2>3. since'.owes \subseteq {r \in Table' : Wanted(r, flag)'}
    BY <1>0, <1>2 DEF IInv, ScopeInv
  <2> QED
    BY <2>2, <2>3 DEF ScopeInv
<1>16. /\ Cardinality(Again) \in Nat /\ Cardinality(Again') \in Nat
       /\ Cardinality(Twice) \in Nat /\ Cardinality(Twice') \in Nat
       /\ Cardinality(Twice') <= Cardinality(Twice)
       /\ alone \in Nat /\ since.joined \in Nat /\ since'.joined \in Nat
       /\ IsFiniteSet(Again)
  <2>1. /\ Again \in SUBSET Rows /\ Twice \in SUBSET Rows /\ alone \in Nat
        /\ since.joined \in Nat /\ Cardinality(Again) \in Nat /\ Cardinality(Twice) \in Nat
    BY Sizes DEF IInv
  <2>2. Again' \in SUBSET Rows /\ Twice' \in SUBSET Rows
    BY <1>4, <1>8, <2>1 DEF Again
  <2>3. IsFiniteSet(Twice) /\ IsFiniteSet(Again)
    BY <2>1, FiniteRows
  <2>4. Cardinality(Twice') <= Cardinality(Twice)
    BY <1>4, <2>3, FS_Subset
  <2>5. since'.joined \in Nat
    BY <1>0 DEF TypeOK
  <2> QED
    BY <2>1, <2>2, <2>3, <2>4, <2>5, FiniteRows
<1>17. since.joined <= since'.joined
  BY <1>16 DEF OthersStep, Stays, Joins, Leaves
<1>18. /\ alone + Cardinality(Twice) <= since.joined
       /\ alone + Cardinality(Twice) + Cardinality(Again) <= since.joined
  BY <1>0 DEF IInv, RepeatInv
<1>18a. ASSUME Cardinality(Again') <= Cardinality(Again) + (since'.joined - since.joined)
        PROVE  RepeatInv'
  <2>1. /\ alone + Cardinality(Twice') <= since'.joined
        /\ alone + Cardinality(Twice') + Cardinality(Again') <= since'.joined
    BY <1>16, <1>17, <1>18, <1>18a
  <2> QED
    BY <1>1, <2>1 DEF RepeatInv
<1>18b. SumInv'
  <2>1. SUFFICES ASSUME ~ NothingInScope
                 PROVE  /\ Shown <= Cardinality(Listed') + since'.joined
                        /\ Cardinality(Matching') <= Cardinality(Listed') + since'.joined
    BY <1>0, <1>2, <1>3, <1>4, <1>5 DEF IInv, SumInv
  <2>2. /\ Shown <= Cardinality(Listed) + since.joined
        /\ Cardinality(Matching) <= Cardinality(Listed) + since.joined
    BY <1>0, <1>2, <2>1 DEF IInv, SumInv
  <2>3. /\ Cardinality(Listed) <= Cardinality(Listed')
        /\ Cardinality(Listed) \in Nat /\ Cardinality(Listed') \in Nat
    <3>1. Listed \subseteq Listed'
      BY <1>0, <2>1 DEF Listed
    <3>2. Listed' \in SUBSET Rows
      BY <1>0 DEF Listed, TypeOK
    <3>3. IsFiniteSet(Listed') /\ Cardinality(Listed') \in Nat
      BY <3>2, FiniteRows
    <3> QED
      BY <3>1, <3>3, FS_Subset, Sizes DEF IInv
  <2>4. /\ Cardinality(Matching') <= Cardinality(Matching) + (since'.joined - since.joined)
        /\ Cardinality(Matching) \in Nat /\ Cardinality(Matching') \in Nat
    <3>1. Cardinality(Matching) \in Nat /\ Cardinality(Matching') \in Nat
      BY <1>9, FS_CardinalityType
    <3>2. ASSUME Stays
          PROVE  Cardinality(Matching') <= Cardinality(Matching) + (since'.joined - since.joined)
      BY <1>16, <3>1, <3>2 DEF Stays
    <3>3. ASSUME NEW j, Joins(j)
          PROVE  Cardinality(Matching') <= Cardinality(Matching) + (since'.joined - since.joined)
      <4>1. Cardinality(Matching \cup {j}) = Cardinality(Matching) + 1
        BY <1>9, <3>3, FS_AddElement DEF Joins
      <4> QED
        BY <1>16, <3>1, <3>3, <4>1 DEF Joins
    <3>4. ASSUME Leaves
          PROVE  Cardinality(Matching') <= Cardinality(Matching) + (since'.joined - since.joined)
      <4>1. Cardinality(Matching') <= Cardinality(Matching)
        BY <1>9, <3>4, FS_Subset DEF Leaves
      <4> QED
        BY <1>16, <3>1, <3>4, <4>1 DEF Leaves
    <3> QED
      BY <3>1, <3>2, <3>3, <3>4 DEF OthersStep
  <2>5. Shown \in Nat
    BY Sizes DEF IInv
  <2> QED
    BY <1>16, <1>17, <2>2, <2>3, <2>4, <2>5
<1>18c. MissIsExplained'
  BY <1>1, <1>2 DEF MissIsExplained
<1>18d. CASE NothingInScope
  <2>1. Met = {} /\ pc = "ask"
    BY <1>2, <1>18d DEF IInv, WalkInv, Met
  <2>2. Again' = {}
    BY <1>4, <2>1 DEF Again
  <2>3. Cardinality(Again') = 0
    BY <2>2, FS_EmptySet
  <2>4. RepeatInv'
    BY <1>16, <1>17, <1>18a, <2>3
  <2>5. AheadInv' /\ CountInv'
    BY <1>1, <1>3, <1>4, <1>18d, <2>1 DEF AheadInv, CountInv, Between
  <2> QED
    BY <1>0, <1>14, <1>15, <1>18b, <1>18c, <2>4, <2>5 DEF IInv
<1>19. CASE ~ NothingInScope /\ Stays
  <2>1. \A r \in Matching : Rank(r, Matching)' = Rank(r, Matching)
    BY <1>10, <1>11, <1>19, PositionKept DEF Stays
  <2>2. Again' \subseteq Again
    BY <1>3a, <1>3b, <1>4, <1>5, <1>19, <2>1 DEF Again, Stays
  <2>3. RepeatInv'
    <3>1. Cardinality(Again') <= Cardinality(Again)
      BY <1>16, <2>2, FS_Subset
    <3> QED
      BY <1>16, <1>18a, <1>19, <3>1 DEF Stays
  <2>4. AheadInv'
    BY <1>0, <1>3, <1>4, <1>5, <1>7, <1>13, <2>1 DEF IInv, AheadInv
  <2>5. CountInv'
    <3>1. Cardinality(Matching)' = Cardinality(Matching)
      BY <1>19 DEF Stays
    <3> QED
      BY <1>1, <1>3, <1>4, <1>7, <3>1 DEF IInv, CountInv
  <2> QED
    BY <1>0, <1>14, <1>15, <1>18b, <1>18c, <2>3, <2>4, <2>5 DEF IInv
<1>20. CASE ~ NothingInScope /\ \E j : Joins(j)
  <2>1. PICK j : Joins(j)
    BY <1>20
  <2>2. Matching' = Matching \cup {j} /\ j \notin Matching
    BY <2>1 DEF Joins
  <2>3. since'.joined = since.joined + 1 /\ (Between => since'.split)
    BY <2>1 DEF Joins
  <2>4. Cardinality(Again') <= Cardinality(Again) + 1
    <3>1. IsOrder(place', Matching \cup {j})
      BY <1>9, <2>2
    <3> DEFINE M == {r \in Met : ~ Tied(r)'}
    <3>2. \A r \in M : Single(place', r, Matching \cup {j})
      <4>1. (~ NothingInScope => \A r : ~ Tied(r) => Single(place, r, Matching))'
        BY UntiedIsSingle, PTL
      <4> QED
        BY <1>3, <1>20, <2>2, <4>1
    <3>3. Again' = Beyond(place', M, Matching \cup {j}, Offset)
      BY <1>4, <1>5, <1>11, <2>2 DEF Again, Beyond
    <3>4. Beyond(place, M, Matching, Offset) \subseteq Again
      BY <1>3a, <1>3b, <1>11 DEF Again, Beyond
    <3>5. /\ Cardinality(Beyond(place, M, Matching, Offset)) <= Cardinality(Again)
          /\ Cardinality(Beyond(place, M, Matching, Offset)) \in Nat
      BY <1>16, <3>4, FS_Subset, FS_CardinalityType
    <3> HIDE DEF M
    <3>6. Cardinality(Beyond(place', M, Matching \cup {j}, Offset))
            <= Cardinality(Beyond(place, M, Matching, Offset)) + 1
      BY <1>6, <1>9, <1>10, <2>2, <3>1, <3>2, OneOverTheEdge
    <3> QED
      BY <1>16, <3>3, <3>5, <3>6
  <2>5. RepeatInv'
    BY <1>16, <1>18a, <2>3, <2>4
  <2>6. \A r \in Matching : Rank(r, Matching)' >= Rank(r, Matching)
    <3>1. TAKE r \in Matching
    <3>2. Position(place', r, Matching \cup {j})
            = Position(place, r, Matching) + (IF place'[j] <= place'[r] THEN 1 ELSE 0)
      BY <1>9, <1>10, <2>2, PositionJoined
    <3>3. Position(place, r, Matching) \in Nat
      BY <1>11, <1>12
    <3>4. Position(place', r, Matching \cup {j}) >= Position(place, r, Matching)
      BY <3>2, <3>3
    <3> QED
      BY <1>11, <2>2, <3>4
  <2>7. AheadInv'
    <3>1. SUFFICES ASSUME Whole, ~ NothingInScope, NEW r \in Unmet, r \in Unmet'
                   PROVE  Rank(r, Matching)' > Offset
      BY <1>3, <1>4, <1>5, <1>7 DEF AheadInv
    <3>2. r \in Matching /\ Rank(r, Matching) > Offset
      BY <1>0, <1>13, <3>1 DEF IInv, AheadInv
    <3>3. Rank(r, Matching)' \in Int
      <4>1. r \in Matching'
        BY <2>2, <3>2
      <4>2. Position(place', r, Matching') \in 1 .. Cardinality(Matching')
        BY <1>9, <4>1, PositionBounds
      <4>3. Cardinality(Matching') \in Nat
        BY <1>9, FS_CardinalityType
      <4> QED
        BY <1>11, <4>2, <4>3
    <3> QED
      BY <1>6, <1>12, <2>6, <3>2, <3>3
  <2>8. CountInv'
    <3>1. Whole' => ~ Between
      BY <2>3 DEF Whole
    <3> QED
      BY <1>1, <1>3, <1>4, <1>7, <3>1 DEF IInv, CountInv
  <2> QED
    BY <1>0, <1>14, <1>15, <1>18b, <1>18c, <2>5, <2>7, <2>8 DEF IInv
<1>21. CASE ~ NothingInScope /\ Leaves
  <2>1. Matching' \subseteq Matching
    BY <1>21 DEF Leaves
  <2>2. ~ Whole'
    BY <1>21 DEF Whole, Leaves
  <2>3. \A r \in Matching' : Rank(r, Matching)' <= Rank(r, Matching)
    <3>1. TAKE r \in Matching'
    <3>2. SameOrder(place, place', Matching')
      BY <1>10, <2>1 DEF SameOrder
    <3>3. Position(place', r, Matching') = Position(place, r, Matching')
      BY <3>2, PositionKept
    <3>4. Position(place, r, Matching') <= Position(place, r, Matching)
      BY <1>9, <2>1, PositionLeft
    <3> QED
      BY <1>11, <3>3, <3>4
  <2>4. Again' \subseteq Again
    <3>1. SUFFICES ASSUME NEW r \in Again'
                   PROVE  r \in Again
      OBVIOUS
    <3>2. r \in Met /\ r \in Matching' /\ r \in Matching /\ Rank(r, Matching)' > Offset
          /\ ~ Tied(r)
      BY <1>3a, <1>3b, <1>4, <1>5, <2>1, <3>1 DEF Again
    <3>3. Rank(r, Matching)' \in Int
      <4>1. Position(place', r, Matching') \in 1 .. Cardinality(Matching')
        BY <1>9, <3>2, PositionBounds
      <4>2. Cardinality(Matching') \in Nat
        BY <1>9, FS_CardinalityType
      <4> QED
        BY <1>11, <4>1, <4>2
    <3>4. Rank(r, Matching) > Offset
      BY <1>6, <1>12, <2>3, <3>2, <3>3
    <3> QED
      BY <3>2, <3>4 DEF Again
  <2>5. RepeatInv'
    <3>1. Cardinality(Again') <= Cardinality(Again)
      BY <1>16, <2>4, FS_Subset
    <3> QED
      BY <1>16, <1>18a, <1>21, <3>1 DEF Leaves
  <2>6. AheadInv' /\ CountInv'
    BY <2>2 DEF AheadInv, CountInv
  <2> QED
    BY <1>0, <1>14, <1>15, <1>18b, <1>18c, <2>5, <2>6 DEF IInv
<1> QED
  BY <1>18d, <1>19, <1>20, <1>21 DEF OthersStep

\* What is noted of a step (Note).
LEMMA NoteIsKept ==
    ASSUME since \in [owes : SUBSET Rows, joined : Nat, left : SUBSET Rows, split : BOOLEAN],
           NEW n \in {0, 1}, NEW gone \in SUBSET Rows, NEW owes \in SUBSET Rows,
           Note(n, gone, owes)
    PROVE  /\ since'.joined = since.joined + n /\ since'.left = since.left \cup gone
           /\ since'.owes = owes /\ (since.split => since'.split)
           /\ n = 1 => (Between => since'.split)
           /\ since'.split => since.split \/ n = 1
           /\ since' \in [owes : SUBSET Rows, joined : Nat, left : SUBSET Rows, split : BOOLEAN]
<1> DEFINE b == since.split \/ (Between /\ n > 0)
<1>1. b \in BOOLEAN
  OBVIOUS
<1>2. /\ since.split => b
      /\ n = 1 => (Between => b)
      /\ b => since.split \/ n = 1
  OBVIOUS
<1>3. since' = [since EXCEPT !.joined = @ + n, !.left = @ \cup gone, !.owes = owes,
                            !.split = b]
  BY DEF Note
<1> HIDE DEF b
<1>4. /\ since'.joined = since.joined + n /\ since'.left = since.left \cup gone
      /\ since'.owes = owes /\ since'.split = b
  BY <1>3
<1>5. since' \in [owes : SUBSET Rows, joined : Nat, left : SUBSET Rows, split : BOOLEAN]
  <2>1. since.joined + n \in Nat /\ since.left \cup gone \in SUBSET Rows
    OBVIOUS
  <2>2. since' = [owes |-> owes, joined |-> since.joined + n, left |-> since.left \cup gone,
                  split |-> b]
    BY <1>3
  <2> QED
    BY <1>1, <2>1, <2>2
<1> QED
  BY <1>2, <1>4, <1>5

\* Of a row that is there already, only the flag can change what it is to the list.
LEMMA RowStands ==
    ASSUME list' = list, UNCHANGED caller, NEW r, dept'[r] = dept[r], flag'[r] = flag[r]
    PROVE  Matches(r, flag)' = Matches(r, flag) /\ Wanted(r, flag)' = Wanted(r, flag)
<1>1. requester' = requester /\ asked' = asked
  BY DEF caller
<1>2. Matches(r, flag)' = Matches(r, flag)
  BY <1>1 DEF Matches, FilterDepartment, FlagMatches, Filtered, Scope, Scoped
<1>3. Wanted(r, flag)' = Wanted(r, flag)
  BY <1>1 DEF Wanted, InScope, CanAccess, Scoped, FlagMatches, Filtered
<1> QED
  BY <1>2, <1>3

\* How many places there are.
LEMMA PlacesAreFinite ==
    TypeOK => Cardinality(Places) \in Nat
<1> SUFFICES ASSUME TypeOK
             PROVE  Cardinality(Places) \in Nat
  OBVIOUS
<1> DEFINE f == [r \in Table |-> place[r]]
<1>1. \A p \in Places : \E r \in Table : f[r] = p
  BY DEF Places
<1>2. f \in [Table -> Places]
  BY DEF Places
<1> HIDE DEF f
<1>3. f \in Surjection(Table, Places)
  BY <1>1, <1>2 DEF Surjection
<1>4. Table \in SUBSET Rows
  BY DEF Table
<1> QED
  BY <1>3, <1>4, FiniteRows, FS_Surjection, FS_CardinalityType

\* A row that gets a place moves those behind it by one, or shares it with others; their
\* order stays, and so does what no two departments share (AddRow).
LEMMA PlacesMakeRoom ==
    ASSUME TypeOK, NEW r \in Rows \ Table, NEW at \in 1 .. Cardinality(Places) + 1,
           NEW shares \in BOOLEAN, shares => list # "departments", list' = list,
           place' = [q \in Rows |-> IF q = r THEN at
                                    ELSE IF shares \/ place[q] < at THEN place[q] ELSE place[q] + 1]
    PROVE  /\ place' \in [Rows -> Nat] /\ Table' = Table \cup {r} /\ Arranged'
           /\ SameOrder(place, place', Table)
           /\ Cardinality(Table) \in Nat
           /\ Cardinality(Table') = Cardinality(Table) + 1
<1>1. /\ Cardinality(Table) \in Nat
      /\ Cardinality(Table \cup {r}) = Cardinality(Table) + 1
  <2>1. Table \in SUBSET Rows
    BY DEF Table
  <2>2. IsFiniteSet(Table) /\ Cardinality(Table) \in Nat
    BY <2>1, FiniteRows
  <2> QED
    BY <2>2, FS_AddElement
<1>2. at \in Nat /\ at > 0
  BY PlacesAreFinite
<1>3. \A q \in Rows : place[q] \in Nat
  BY DEF TypeOK
<1>4. /\ place'[r] = at
      /\ \A q \in Rows \ {r} :
            place'[q] = IF shares \/ place[q] < at THEN place[q] ELSE place[q] + 1
  OBVIOUS
<1>5. place' \in [Rows -> Nat]
  BY <1>2, <1>3
<1>6. Table' = Table \cup {r}
  <2>1. r \in Table'
    BY <1>2, <1>4 DEF Table
  <2>2. \A q \in Rows \ {r} : q \in Table' <=> q \in Table
    BY <1>2, <1>3, <1>4 DEF Table
  <2>3. Table' \subseteq Rows /\ Table \subseteq Rows
    BY DEF Table
  <2> QED
    BY <2>1, <2>2, <2>3
<1>7. \A q \in Table : q \in Rows /\ q # r
  BY DEF Table
<1>8. SameOrder(place, place', Table)
  BY <1>2, <1>3, <1>4, <1>7 DEF SameOrder
<1>9. Arranged'
  <2>1. SUFFICES ASSUME list = "departments", NEW q \in Table', NEW s \in Table',
                        place'[q] = place'[s]
                 PROVE  q = s
    BY DEF Arranged
  <2>2. ~ shares /\ \A x, y \in Table : place[x] = place[y] => x = y
    BY <2>1 DEF TypeOK, Arranged
  <2>3. \A x, y \in Table : place'[x] = place'[y] => x = y
    BY <1>2, <1>3, <1>4, <1>7, <2>2
  <2>4. \A x \in Table : place'[x] # at
    BY <1>2, <1>3, <1>4, <1>7, <2>2
  <2> QED
    BY <1>4, <1>6, <2>1, <2>3, <2>4
<1> QED
  BY <1>1, <1>5, <1>6, <1>8, <1>9

\* A new row joins what is listed, or is none of it.
LEMMA AddRowIsAccounted ==
    ASSUME IInv, NEW r \in Rows, NEW at \in 1 .. Cardinality(Places) + 1,
           NEW shares \in BOOLEAN, NEW f \in BOOLEAN, NEW d \in MaybeDept,
           AddRow(r, at, shares, d, f)
    PROVE  OthersStep
<1>1. /\ Asking /\ r \notin Table /\ list' = list /\ UNCHANGED <<caller, answer, walk>>
      /\ place' = [q \in Rows |-> IF q = r THEN at
                                  ELSE IF shares \/ place[q] < at THEN place[q] ELSE place[q] + 1]
      /\ dept' = [dept EXCEPT ![r] = d] /\ flag' = [flag EXCEPT ![r] = f]
      /\ shares => list # "departments"
  BY DEF AddRow, Walking, Asking
<1>2. /\ since'.joined = since.joined + (IF Matches(r, flag)' THEN 1 ELSE 0)
      /\ since'.left = since.left /\ since'.owes = since.owes
      /\ since.split => since'.split
      /\ Matches(r, flag)' => (Between => since'.split)
      /\ since'.split => since.split \/ Matches(r, flag)'
      /\ since' \in [owes : SUBSET Rows, joined : Nat, left : SUBSET Rows, split : BOOLEAN]
  <2> DEFINE n == IF Matches(r, flag)' THEN 1 ELSE 0
  <2>1. /\ since \in [owes : SUBSET Rows, joined : Nat, left : SUBSET Rows, split : BOOLEAN]
        /\ since.owes \in SUBSET Rows
    BY DEF IInv, TypeOK
  <2>2. Note(n, {}, since.owes)
    BY DEF AddRow
  <2>3. n \in {0, 1} /\ (Matches(r, flag)' <=> n = 1)
    OBVIOUS
  <2> HIDE DEF n
  <2>4. {} \in SUBSET Rows
    OBVIOUS
  <2>5. /\ since'.joined = since.joined + n /\ since'.left = since.left \cup {}
        /\ since'.owes = since.owes /\ (since.split => since'.split)
        /\ n = 1 => (Between => since'.split)
        /\ since'.split => since.split \/ n = 1
        /\ since' \in [owes : SUBSET Rows, joined : Nat, left : SUBSET Rows, split : BOOLEAN]
    BY <2>1, <2>2, <2>3, <2>4, NoteIsKept
  <2> QED
    BY <2>3, <2>5 DEF n
<1>3. /\ place' \in [Rows -> Nat] /\ Table' = Table \cup {r} /\ Arranged'
      /\ SameOrder(place, place', Table)
      /\ Cardinality(Table) \in Nat /\ Cardinality(Table') = Cardinality(Table) + 1
  BY <1>1, PlacesMakeRoom DEF IInv
<1>4. \A q \in Table : q \in Rows /\ q # r
  BY <1>1 DEF Table
<1>5. /\ dept \in [Rows -> MaybeDept] /\ flag \in [Rows -> BOOLEAN]
      /\ \A q \in Rows \ Table : dept[q] = NoDept /\ ~ flag[q]
  BY DEF IInv, TypeOK
<1>6. /\ \A q \in Rows \ {r} : dept'[q] = dept[q] /\ flag'[q] = flag[q]
      /\ dept' \in [Rows -> MaybeDept] /\ flag' \in [Rows -> BOOLEAN]
  BY <1>1, <1>5
<1>7. TypeOK'
  <2>1. \A q \in Rows \ Table' : dept'[q] = NoDept /\ ~ flag'[q]
    BY <1>3, <1>5, <1>6
  <2>2. total' \in 0 .. Cardinality(Table')
    BY <1>1, <1>3 DEF IInv, TypeOK, answer
  <2>3. /\ list' \in Lists /\ requester' \in Requester /\ (pc' # "new" => asked' \in Query)
        /\ page' \in Nat \ {0} /\ pc' \in {"new", "ask", "queries", "done"}
        /\ code' \in {"none", "200", "400", "500"}
        /\ items' \subseteq Rows /\ Cardinality(items') <= MaxLimit
        /\ owed' \subseteq {"findAll", "countAll"} /\ seen' \subseteq Rows
        /\ alone' \in Nat /\ tied' \in Nat
    BY <1>1 DEF IInv, TypeOK, caller, answer, walk
  <2> QED
    BY <1>2, <1>3, <1>6, <2>1, <2>2, <2>3 DEF TypeOK
<1>8. \A q \in Table : Matches(q, flag)' = Matches(q, flag) /\ Wanted(q, flag)' = Wanted(q, flag)
  BY <1>1, <1>4, <1>6, RowStands
<1>9. Matching' = Matching \cup (IF Matches(r, flag)' THEN {r} ELSE {}) /\ r \notin Matching
  <2>1. Matching' = {q \in Table \cup {r} : Matches(q, flag)'}
    BY <1>3 DEF Matching
  <2> QED
    BY <1>1, <1>8, <2>1 DEF Matching
<1>10. Stays \/ \E j : Joins(j)
  <2>1. CASE Matches(r, flag)'
    <3>1. Joins(r)
      BY <1>2, <1>9, <2>1 DEF Joins
    <3> QED
      BY <3>1
  <2>2. CASE ~ Matches(r, flag)'
    <3>1. since'.joined = since.joined + 0
      BY <1>2, <2>2
    <3>2. since.joined \in Nat
      BY DEF IInv, TypeOK
    <3>3. Stays
      BY <1>9, <2>2, <3>1, <3>2 DEF Stays
    <3> QED
      BY <3>3
  <2> QED
    BY <2>1, <2>2
<1>11. since'.owes = {q \in since.owes : Wanted(q, flag)'}
  <2>1. since.owes \subseteq {q \in Table : Wanted(q, flag)}
    BY <1>1 DEF IInv, ScopeInv, Asking
  <2> QED
    BY <1>2, <1>8, <2>1
<1>11a. since.owes \subseteq since'.owes \cup since'.left
  BY <1>2
<1>12. \A q \in Table : dept'[q] = dept[q]
  BY <1>4, <1>6
<1>13. since'.split => since.split \/ since'.joined > since.joined
  <2>1. since.joined \in Nat
    BY DEF IInv, TypeOK
  <2>2. Matches(r, flag)' => since'.joined = since.joined + 1
    BY <1>2
  <2> QED
    BY <1>2, <2>1, <2>2
<1>14. Table \subseteq Table'
  BY <1>3
<1> QED
  BY <1>1, <1>2, <1>3, <1>7, <1>10, <1>11, <1>11a, <1>12, <1>13, <1>14 DEF OthersStep

\* A row that changes joins what is listed, leaves it, or does neither.
LEMMA ChangeIsAccounted ==
    ASSUME IInv, NEW r \in Rows, Change(r)
    PROVE  OthersStep
<1> DEFINE was == Matches(r, flag)
           is  == Matches(r, flag')
           n   == IF is /\ ~ was THEN 1 ELSE 0
           gone == IF was /\ ~ is THEN {r} ELSE {}
           owes == IF Wanted(r, flag') THEN since.owes ELSE since.owes \ {r}
<1>1. /\ Asking /\ r \in Table /\ flag' = [flag EXCEPT ![r] = ~ @]
      /\ UNCHANGED <<list, place, dept, caller, answer, walk>>
      /\ Note(n, gone, owes)
  BY DEF Change, Walking, Asking
<1>2. /\ list' = list /\ place' = place /\ dept' = dept
      /\ requester' = requester /\ asked' = asked
  BY <1>1 DEF caller
<1>3. is <=> Matches(r, flag)'
  BY <1>2 DEF Matches, FilterDepartment, FlagMatches, Filtered, Scope, Scoped
<1>4. Wanted(r, flag') <=> Wanted(r, flag)'
  BY <1>2 DEF Wanted, InScope, CanAccess, Scoped, FlagMatches, Filtered
<1>5. n \in {0, 1} /\ gone \subseteq Rows /\ owes \subseteq since.owes
      /\ (n = 1 <=> is /\ ~ was) /\ (gone = {} <=> ~ (was /\ ~ is))
  BY <1>4
<1>5a. was /\ ~ is => r \in gone
  OBVIOUS
<1>5b. owes = {q \in since.owes : q = r => Wanted(r, flag)'}
  BY <1>4
<1> HIDE DEF is, was, n, gone, owes
<1>6. since \in [owes : SUBSET Rows, joined : Nat, left : SUBSET Rows, split : BOOLEAN]
  BY DEF IInv, TypeOK
<1>7. owes \in SUBSET Rows
  BY <1>5, <1>6
<1>8. /\ since'.joined = since.joined + n /\ since'.left = since.left \cup gone
      /\ since'.owes = owes /\ (since.split => since'.split)
      /\ n = 1 => (Between => since'.split)
      /\ since'.split => since.split \/ n = 1
      /\ since' \in [owes : SUBSET Rows, joined : Nat, left : SUBSET Rows, split : BOOLEAN]
  BY <1>1, <1>5, <1>6, <1>7, NoteIsKept
<1>9. Table' = Table /\ r \in Rows
  BY <1>2 DEF Table
<1>10. \A q \in Rows \ {r} : flag'[q] = flag[q]
  BY <1>1 DEF IInv, TypeOK
<1>11. TypeOK'
  <2>1. flag' \in [Rows -> BOOLEAN]
    BY <1>1 DEF IInv, TypeOK
  <2>2. \A q \in Rows \ Table' : dept'[q] = NoDept /\ ~ flag'[q]
    BY <1>1, <1>2, <1>9, <1>10 DEF IInv, TypeOK
  <2>3. Arranged'
    BY <1>2, <1>9 DEF IInv, TypeOK, Arranged
  <2>4. /\ list' \in Lists /\ place' \in [Rows -> Nat] /\ dept' \in [Rows -> MaybeDept]
        /\ requester' \in Requester /\ (pc' # "new" => asked' \in Query)
    BY <1>1, <1>2 DEF IInv, TypeOK, answer
  <2>5. total' \in 0 .. Cardinality(Table')
    BY <1>1, <1>9 DEF IInv, TypeOK, answer
  <2>6. /\ page' \in Nat \ {0} /\ pc' \in {"new", "ask", "queries", "done"}
        /\ code' \in {"none", "200", "400", "500"}
        /\ items' \subseteq Rows /\ Cardinality(items') <= MaxLimit
        /\ owed' \subseteq {"findAll", "countAll"} /\ seen' \subseteq Rows
        /\ alone' \in Nat /\ tied' \in Nat
    BY <1>1 DEF IInv, TypeOK, answer, walk
  <2> QED
    BY <1>8, <2>1, <2>2, <2>3, <2>4, <2>5, <2>6 DEF TypeOK
<1>12. \A q \in Table \ {r} : /\ Matches(q, flag)' = Matches(q, flag)
                              /\ Wanted(q, flag)' = Wanted(q, flag)
  BY <1>1, <1>2, <1>10, RowStands DEF Table
<1>13. /\ \A q \in Rows \ {r} : q \in Matching' <=> q \in Matching
       /\ r \in Matching' <=> is
       /\ r \in Matching <=> was
       /\ Matching \subseteq Rows /\ Matching' \subseteq Rows
  BY <1>1, <1>3, <1>9, <1>12 DEF Matching, Table, was
<1>14. Stays \/ Leaves \/ \E j : Joins(j)
  <2>1. CASE is /\ ~ was
    <3>1. n = 1 /\ Matching' = Matching \cup {r} /\ r \notin Matching
      BY <1>5, <1>13, <2>1
    <3>2. Joins(r)
      BY <1>8, <3>1 DEF Joins
    <3> QED
      BY <3>2
  <2>2. CASE was /\ ~ is
    <3>1. n = 0 /\ Matching' \subseteq Matching /\ gone # {}
      BY <1>5, <1>13, <2>2
    <3>2. since'.joined = since.joined /\ since'.left # {}
      BY <1>6, <1>8, <3>1
    <3> QED
      BY <3>1, <3>2 DEF Leaves
  <2>3. CASE is <=> was
    <3>1. n = 0 /\ Matching' = Matching
      BY <1>5, <1>13, <2>3
    <3>2. since'.joined = since.joined
      BY <1>6, <1>8, <3>1
    <3> QED
      BY <3>1, <3>2 DEF Stays
  <2>4. is \in BOOLEAN /\ was \in BOOLEAN
    BY DEF is, was, Matches
  <2> QED
    BY <2>1, <2>2, <2>3, <2>4
<1>15. since'.owes = {q \in since.owes : Wanted(q, flag)'}
  <2>1. since.owes \subseteq {q \in Table : Wanted(q, flag)}
    BY <1>1 DEF IInv, ScopeInv, Asking
  <2> QED
    BY <1>5b, <1>8, <1>12, <2>1
<1>15a. ~ NothingInScope => since.owes \subseteq since'.owes \cup since'.left
  <2>1. SUFFICES ASSUME ~ NothingInScope, r \in since.owes, ~ Wanted(r, flag)'
                 PROVE  r \in since'.left
    BY <1>5b, <1>8
  <2>2. was
    <3>1. Wanted(r, flag)
      BY <1>1, <2>1 DEF IInv, ScopeInv, Asking
    <3> QED
      BY <2>1, <3>1, FiltersAreTheScope DEF was
  <2>3. ~ is
    <3>1. NothingInScope' = NothingInScope
      BY <1>2 DEF NothingInScope, Scope, Scoped
    <3> QED
      BY <1>3, <2>1, <3>1, MatchesAreWantedNow
  <2> QED
    BY <1>5a, <1>8, <2>2, <2>3
<1>16. SameOrder(place, place', Table)
  BY <1>2 DEF SameOrder
<1>17. /\ since'.owes \subseteq since.owes /\ since.left \subseteq since'.left
       /\ since.split => since'.split
       /\ since'.split => since.split \/ since'.joined > since.joined
  BY <1>5, <1>6, <1>8
<1>18. Table \subseteq Table' /\ \A q \in Table : dept'[q] = dept[q]
  BY <1>2, <1>9
<1> QED
  BY <1>1, <1>2, <1>11, <1>14, <1>15, <1>15a, <1>16, <1>17, <1>18 DEF OthersStep

\* Nothing happens.
LEMMA StutterKeeps ==
    ASSUME IInv, UNCHANGED vars
    PROVE  IInv'
<1>1. UNCHANGED <<rows, caller>> /\ UNCHANGED <<rows, caller, answer, walk, since>>
  BY DEF vars
<1>2. /\ list' = list /\ place' = place /\ dept' = dept /\ flag' = flag
      /\ requester' = requester /\ asked' = asked /\ page' = page /\ pc' = pc /\ code' = code
      /\ items' = items /\ total' = total /\ owed' = owed /\ seen' = seen
      /\ alone' = alone /\ tied' = tied
      /\ since' = since
  BY <1>1 DEF rows, caller, answer, walk
<1>3. /\ Matching' = Matching /\ Table' = Table /\ NothingInScope' = NothingInScope
      /\ SafeLimit' = SafeLimit /\ \A r : Rank(r, Matching)' = Rank(r, Matching)
  BY <1>1, RowsStand
<1>4. /\ Met' = Met /\ Unmet' = Unmet /\ Read' = Read /\ Offset' = Offset
      /\ Between' = Between /\ Asking' = Asking /\ Whole' = Whole
      /\ Twice' = Twice /\ Shown' = Shown /\ Listed' = Listed
  BY <1>1, <1>2, <1>3, RowsStand
     DEF Met, Unmet, Read, Offset, Between, Asking, Whole, Twice, Shown, Listed
<1>5. Again' = Again
  BY <1>1, <1>3, <1>4, RowsStand DEF Again
<1>6. TypeOK'
  BY <1>2, <1>3 DEF IInv, TypeOK, Arranged
<1>7. WalkInv'
  BY <1>2, <1>3 DEF IInv, WalkInv
<1>8. ScopeInv'
  BY <1>1, <1>2, <1>4, RowsStand DEF IInv, ScopeInv
<1>9. RepeatInv' /\ SumInv'
  BY <1>2, <1>3, <1>4, <1>5 DEF IInv, RepeatInv, SumInv
<1>10. AheadInv' /\ CountInv'
  BY <1>2, <1>3, <1>4 DEF IInv, AheadInv, CountInv
<1>11. MissIsExplained'
  BY <1>1, <1>2, RowsStand DEF IInv, MissIsExplained
<1> QED
  BY <1>6, <1>7, <1>8, <1>9, <1>10, <1>11 DEF IInv

LEMMA StepKeeps ==
    IInv /\ [Next]_vars => IInv'
<1> SUFFICES ASSUME IInv, [Next]_vars PROVE IInv'
  OBVIOUS
<1>1. CASE \E who \in Requester, query \in Query : Begin(who, query)
  BY <1>1, BeginKeeps
<1>2. CASE Ask
  BY <1>2, AskKeeps
<1>3. CASE FindAll
  BY <1>3, FindAllKeeps
<1>4. CASE CountAll
  BY <1>4, CountAllKeeps
<1>5. CASE QueryFails
  BY <1>5, QueryFailsKeeps
<1>6. CASE Answer
  BY <1>6, AnswerKeeps
<1>7. CASE \E r \in Rows : Change(r)
  BY <1>7, ChangeIsAccounted, OthersKeep
<1>8. CASE \E r \in Rows, at \in 1 .. Cardinality(Places) + 1, shares, f \in BOOLEAN,
              d \in MaybeDept : AddRow(r, at, shares, d, f)
  BY <1>8, AddRowIsAccounted, OthersKeep
<1>9. CASE UNCHANGED vars
  BY <1>9, StutterKeeps
<1> QED
  BY <1>1, <1>2, <1>3, <1>4, <1>5, <1>6, <1>7, <1>8, <1>9 DEF Next

-----------------------------------------------------------------------------------
(* The theorems. *)

\* The inductive invariant of a walk through a list.
THEOREM ListingInvariance == Spec => []IInv
<1>1. Init => IInv
  BY StartHolds
<1>2. IInv /\ [Next]_vars => IInv'
  BY StepKeeps
<1> QED
  BY <1>1, <1>2, PTL DEF Spec

\* Every variable has its type: no two departments share a place whatever joins them, and
\* no answer is larger than the limit allows (SafeLimit).
THEOREM ListTypes == Spec => []TypeOK
<1>1. IInv => TypeOK
  BY DEF IInv
<1> QED
  BY <1>1, ListingInvariance, PTL

\* The list shows nothing that a request for the single row would hide.
THEOREM ScopedLists == Spec => []ListIsInScope
<1>1. IInv => ListIsInScope
  <2>1. SUFFICES ASSUME IInv, NEW r \in seen
                 PROVE  InScope(r)
    BY DEF ListIsInScope, InScope
  <2>2. pc # "new"
    BY <2>1 DEF IInv, WalkInv
  <2> QED
    BY <2>1, <2>2 DEF IInv, ScopeInv, Met
<1> QED
  BY <1>1, ListingInvariance, PTL

\* A walk to the last page shows every row that was there, and the caller's to see, all
\* along, but for rows that share their created_at with another, unless one left the list,
\* one joined between the two queries of an answer, or the caller spelt its department in
\* capitals.
THEOREM ExplainedMisses == Spec => []MissIsExplained
<1>1. IInv => MissIsExplained
  BY DEF IInv
<1> QED
  BY <1>1, ListingInvariance, PTL

\* The invariant says how often rows were shown again.
LEMMA RepeatsArePaid ==
    IInv => RepeatsAreExplained
<1> SUFFICES ASSUME IInv
             PROVE  /\ alone <= since.joined
                    /\ alone + tied <= since.joined + Cardinality(Listed \ seen)
  BY DEF RepeatsAreExplained, Listed
<1>1. /\ alone \in Nat /\ tied \in Nat /\ since.joined \in Nat
      /\ Cardinality(Twice) \in Nat /\ Cardinality(items \cap seen) \in Nat
      /\ Cardinality(Met) \in Nat /\ Cardinality(Listed) \in Nat
      /\ Met \in SUBSET Rows /\ Listed \in SUBSET Rows
  BY Sizes DEF IInv
<1>2. alone <= since.joined
  <2>1. alone + Cardinality(Twice) <= since.joined
    BY DEF IInv, RepeatInv
  <2> QED
    BY <1>1, <2>1
<1>3. /\ Cardinality(seen) \in Nat /\ Cardinality(Listed \ seen) \in Nat
      /\ Cardinality(seen) <= Cardinality(Met)
      /\ Cardinality(Listed) <= Cardinality(Listed \ seen) + Cardinality(seen)
  <2> DEFINE rest == Listed \ seen
  <2>1. rest \in SUBSET Rows /\ seen \in SUBSET Rows /\ seen \in SUBSET Met
    BY <1>1 DEF IInv, TypeOK, Met
  <2>2. rest \cap seen = {} /\ Listed \in SUBSET (rest \cup seen)
    OBVIOUS
  <2> HIDE DEF rest
  <2>3. Cardinality(rest \cup seen) = Cardinality(rest) + Cardinality(seen)
    BY <2>1, <2>2, SizesAdd
  <2>4. rest \cup seen \in SUBSET Rows
    BY <2>1
  <2>5. IsFiniteSet(rest \cup seen) /\ IsFiniteSet(Met)
    BY <1>1, <2>4, FiniteRows
  <2>6. /\ Cardinality(Listed) <= Cardinality(rest \cup seen)
        /\ Cardinality(seen) <= Cardinality(Met)
    BY <2>1, <2>2, <2>5, FS_Subset
  <2>7. Cardinality(rest) \in Nat /\ Cardinality(seen) \in Nat
    BY <2>1, FiniteRows
  <2> QED
    BY <2>3, <2>6, <2>7 DEF rest
<1>4. CASE pc = "new" \/ NothingInScope
  <2>1. alone = 0 /\ tied = 0
    BY <1>4 DEF IInv, WalkInv
  <2> QED
    BY <1>1, <1>2, <1>3, <2>1
<1>5. CASE pc # "new" /\ ~ NothingInScope
  <2>1. Shown <= Cardinality(Listed) + since.joined
    BY <1>5 DEF IInv, SumInv
  <2>2. alone + tied + Cardinality(Met) <= Cardinality(Listed) + since.joined
    BY <1>1, <2>1 DEF Shown
  <2> QED
    BY <1>1, <1>2, <1>3, <2>2
<1> QED
  BY <1>4, <1>5

\* No row with a place to itself is shown again but that a row has joined for it, and all
\* rows that are shown again are paid for by one that joined or that stays unseen.
THEOREM PaidRepeats == Spec => []RepeatsAreExplained
BY RepeatsArePaid, ListingInvariance, PTL

-----------------------------------------------------------------------------------
(* A walk that nobody disturbs. *)

Quiet == since.joined = 0 /\ since.left = {}

\* Who reads to the last page while nothing joins or leaves what is listed is shown
\* nothing but what it was allowed and asked for, and all of that, each row once, but for
\* rows that share their created_at: of these one may stay unseen for each that is shown
\* again.
QuietWalkIsExact ==
    pc = "done" /\ code = "200" /\ Quiet /\ ~ (requester.role = "MANAGER" /\ asked.upper) =>
        /\ seen \subseteq since.owes /\ \A r \in since.owes \ seen : Tied(r)
        /\ alone = 0 /\ tied <= Cardinality(since.owes \ seen)

\* What was met is owed, as is what may be met yet.
QuietInv ==
    /\ since.split => since.joined > 0
    /\ NothingInScope /\ pc # "new" => Met = {}
    /\ Quiet /\ pc # "new" => Met \subseteq since.owes
    /\ Quiet /\ Asking /\ ~ NothingInScope => Matching \subseteq since.owes

\* A step of the walk itself keeps the account, and meets only what matches.
LEMMA QuietWalkKeeps ==
    ASSUME IInv, QuietInv, UNCHANGED <<rows, caller>>, since' = since, pc # "new",
           Asking' => Asking,
           \/ Met' \subseteq Met
           \/ Met' \subseteq Met \cup Matching /\ Asking /\ ~ NothingInScope
    PROVE  QuietInv'
<1>1. NothingInScope' = NothingInScope /\ Matching' = Matching
  BY RowsStand
<1>2. Quiet' = Quiet
  BY DEF Quiet
<1> QED
  BY <1>1, <1>2 DEF QuietInv

LEMMA QuietStep ==
    IInv /\ QuietInv /\ [Next]_vars => QuietInv'
<1> SUFFICES ASSUME IInv, QuietInv, [Next]_vars PROVE QuietInv'
  OBVIOUS
<1>1. ASSUME NEW who \in Requester, NEW query \in Query, Begin(who, query) PROVE QuietInv'
  <2>1. /\ pc = "new" /\ pc' = "ask" /\ items' = items /\ seen' = seen
        /\ place' = place /\ dept' = dept /\ flag' = flag
        /\ since' = [NoHistory EXCEPT !.owes = {r \in Table : Wanted(r, flag)'}]
    BY <1>1 DEF Begin, rows, walk
  <2>2. Met' = {}
    BY <2>1 DEF IInv, WalkInv, Met
  <2>3. since'.owes = {r \in Table : Wanted(r, flag)'} /\ since'.split = FALSE
    BY <2>1 DEF NoHistory
  <2>4. (~ NothingInScope => \A q : Matches(q, flag) => Wanted(q, flag))'
    BY MatchesAreWanted, PTL
  <2>5. Table' = Table
    BY <2>1 DEF Table
  <2>6. ~ NothingInScope' => Matching' \subseteq since'.owes
    BY <2>3, <2>4, <2>5 DEF Matching
  <2> QED
    BY <2>2, <2>3, <2>6 DEF QuietInv
<1>2. CASE Ask
  <2>1. /\ UNCHANGED <<rows, caller>> /\ since' = since /\ pc = "ask"
        /\ items' = items /\ seen' = seen
    BY <1>2 DEF Ask, walk
  <2>2. Met' \subseteq Met /\ Asking /\ pc # "new"
    BY <2>1 DEF Met, Asking
  <2> QED
    BY <2>1, <2>2, QuietWalkKeeps
<1>3. CASE FindAll
  <2>1. /\ UNCHANGED <<rows, caller>> /\ since' = since /\ "findAll" \in owed
        /\ seen' = seen /\ items' \subseteq Matching
    BY <1>3 DEF FindAll, PageFrom, walk
  <2>2. pc = "queries" /\ ~ NothingInScope
    BY <2>1 DEF IInv, WalkInv, TypeOK
  <2>3. Met' \subseteq Met \cup Matching /\ Asking
    BY <2>1, <2>2 DEF Met, Asking
  <2> QED
    BY <2>1, <2>2, <2>3, QuietWalkKeeps
<1>4. CASE CountAll
  <2>1. /\ UNCHANGED <<rows, caller>> /\ since' = since /\ "countAll" \in owed
        /\ items' = items /\ seen' = seen
    BY <1>4 DEF CountAll, walk
  <2>2. pc = "queries"
    BY <2>1 DEF IInv, WalkInv, TypeOK
  <2>3. Met' \subseteq Met /\ Asking
    BY <2>1, <2>2 DEF Met, Asking
  <2> QED
    BY <2>1, <2>2, <2>3, QuietWalkKeeps
<1>5. CASE QueryFails
  <2>1. /\ UNCHANGED <<rows, caller>> /\ since' = since /\ pc = "queries"
        /\ items' = {} /\ seen' = seen
    BY <1>5 DEF QueryFails, walk
  <2>2. Met' \subseteq Met /\ Asking
    BY <2>1 DEF Met, Asking
  <2> QED
    BY <2>1, <2>2, QuietWalkKeeps
<1>6. CASE Answer
  <2>1. /\ UNCHANGED <<rows, caller>> /\ since' = since /\ pc = "queries"
        /\ items' = {} /\ seen' = seen \cup items
    BY <1>6 DEF Answer
  <2>2. Met' \subseteq Met /\ Asking
    BY <2>1 DEF Met, Asking
  <2> QED
    BY <2>1, <2>2, QuietWalkKeeps
<1>7. ASSUME OthersStep PROVE QuietInv'
  <2>1. /\ Asking /\ list' = list /\ requester' = requester /\ asked' = asked
        /\ pc' = pc /\ items' = items /\ seen' = seen
        /\ since'.owes = {r \in since.owes : Wanted(r, flag)'}
        /\ since.left \subseteq since'.left
        /\ since'.split => since.split \/ since'.joined > since.joined
    BY <1>7 DEF OthersStep, caller, answer, walk
  <2>2. Met' = Met /\ NothingInScope' = NothingInScope /\ Asking' = Asking /\ pc # "new"
    BY <2>1 DEF Met, Asking, NothingInScope, Scope, Scoped
  <2>3. since.joined \in Nat
    BY DEF IInv, TypeOK
  <2>4. Stays \/ since'.left # {} \/ since'.joined = since.joined + 1
    BY <1>7 DEF OthersStep, Leaves, Joins
  <2>5. since'.joined >= since.joined /\ since'.joined \in Nat
    BY <1>7, <2>3 DEF OthersStep, Leaves, Joins, Stays
  <2>6. since'.split => since'.joined > 0
    BY <2>1, <2>3, <2>5 DEF QuietInv
  <2>7. ASSUME Quiet', ~ NothingInScope
        PROVE  Quiet /\ Matching' = Matching /\ since'.owes = since.owes
    <3>1. Quiet /\ Stays
      BY <2>1, <2>3, <2>4, <2>5, <2>7 DEF Quiet
    <3>2. Matching' = Matching
      BY <3>1 DEF Stays
    <3>3. \A r \in since.owes : r \in Matching
      BY <2>1, <2>2, <2>7, FiltersAreTheScope DEF IInv, ScopeInv, Matching
    <3>4. (~ NothingInScope => \A q : Matches(q, flag) => Wanted(q, flag))'
      BY MatchesAreWanted, PTL
    <3>5. \A r \in since.owes : Wanted(r, flag)'
      BY <2>2, <2>7, <3>2, <3>3, <3>4 DEF Matching
    <3> QED
      BY <2>1, <3>1, <3>2, <3>5
  <2> QED
    BY <2>1, <2>2, <2>6, <2>7 DEF QuietInv
<1>8. CASE UNCHANGED vars
  <2>1. /\ UNCHANGED <<rows, caller>> /\ since' = since /\ pc' = pc
        /\ items' = items /\ seen' = seen
    BY <1>8 DEF vars, answer, walk
  <2>2. Met' = Met /\ Asking' = Asking /\ NothingInScope' = NothingInScope /\ Quiet' = Quiet
        /\ Matching' = Matching
    BY <2>1, RowsStand DEF Met, Asking, Quiet
  <2> QED
    BY <2>1, <2>2 DEF QuietInv
<1>9. CASE \E r \in Rows : Change(r)
  BY <1>7, <1>9, ChangeIsAccounted
<1>10. CASE \E r \in Rows, at \in 1 .. Cardinality(Places) + 1, shares, f \in BOOLEAN,
               d \in MaybeDept : AddRow(r, at, shares, d, f)
  BY <1>7, <1>10, AddRowIsAccounted
<1> QED
  BY <1>1, <1>2, <1>3, <1>4, <1>5, <1>6, <1>8, <1>9, <1>10 DEF Next

\* Without a row that joins or leaves, reading page after page is reading the list: what
\* the access rules and the filters allow, for any limit, but for what rows that share
\* their created_at do to each other.
THEOREM QuietWalks == Spec => []QuietWalkIsExact
<1>1. Init => QuietInv
  BY DEF Init, QuietInv, NoHistory, Asking
<1>2. IInv /\ QuietInv /\ [Next]_vars => QuietInv'
  BY QuietStep
<1>3. IInv /\ QuietInv => QuietWalkIsExact
  <2>1. SUFFICES ASSUME IInv, QuietInv, pc = "done", code = "200", Quiet,
                        ~ (requester.role = "MANAGER" /\ asked.upper)
                 PROVE  /\ seen \subseteq since.owes /\ \A r \in since.owes \ seen : Tied(r)
                        /\ alone = 0 /\ tied <= Cardinality(since.owes \ seen)
    BY DEF QuietWalkIsExact
  <2>2. since.joined = 0 /\ since.left = {} /\ ~ since.split
    BY <2>1 DEF Quiet, QuietInv
  <2>3. \A r \in since.owes \ seen : Tied(r)
    BY <2>1, <2>2 DEF IInv, MissIsExplained
  <2>4. seen \subseteq since.owes
    BY <2>1 DEF QuietInv, Met
  <2>5. alone = 0 /\ tied <= Cardinality(since.owes \ seen)
    <3>1. alone <= 0 /\ alone + tied <= 0 + Cardinality((since.owes \cup since.left) \ seen)
      BY <2>1, <2>2, RepeatsArePaid DEF RepeatsAreExplained
    <3>2. (since.owes \cup since.left) \ seen = since.owes \ seen
      BY <2>2
    <3>3. since.owes \ seen \in SUBSET Rows /\ alone \in Nat /\ tied \in Nat
      BY <2>1 DEF IInv, TypeOK
    <3>4. Cardinality(since.owes \ seen) \in Nat
      BY <3>3, FiniteRows
    <3> QED
      BY <3>1, <3>2, <3>3, <3>4
  <2> QED
    BY <2>3, <2>4, <2>5
<1> QED
  BY <1>1, <1>2, <1>3, ListingInvariance, PTL DEF Spec

===================================================================================
