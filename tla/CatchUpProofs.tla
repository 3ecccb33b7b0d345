--------------------------- MODULE CatchUpProofs ---------------------------
(***************************************************************************)
(* What an agent's catch-up promises, proved for every stream, every       *)
(* number of events and every limit: the types of its state, that its      *)
(* checkpoint passes no event over, and that no event is given twice as    *)
(* long as a route does not drop alone while a window is read or given.    *)
(*                                                                         *)
(* The checkpoint is compared with the set of events that need not be      *)
(* read: given, owed to a replay, still on their way on a covering route,  *)
(* lost, or excused. A window is compared with it twice: with the          *)
(* checkpoint it was begun from, and with the one its batches move.        *)
(***************************************************************************)
EXTENDS CatchUp, FiniteSetTheorems, WellFoundedInduction, TLAPS

(***************************************************************************)
(* Orders on finite sets of events.                                        *)
(***************************************************************************)
\* A set of numbers has a least one.
LEMMA LeastNumber ==
  ASSUME NEW S \in SUBSET Nat, S # {}
  PROVE  \E n \in S : \A m \in S : n <= m
<1> DEFINE R == {x \in Nat \X Nat : x[1] < x[2]}
<1>1. IsWellFoundedOn(R, Nat)
  BY NatLessThanWellFounded DEF OpToRel
<1>2. PICK n \in S : \A m \in S : ~(<<m, n>> \in R)
  BY <1>1, WFMin
<1>3. ASSUME NEW m \in S PROVE n <= m
  <2>1. m \in Nat /\ n \in Nat /\ <<m, n>> \in Nat \X Nat
    OBVIOUS
  <2>2. ~(m < n)
    BY <1>2, <2>1
  <2> QED BY <2>1, <2>2
<1> QED BY <1>3

\* A finite set has a first element in a strict order: the one with fewest before it.
LEMMA FirstInOrder ==
  ASSUME NEW S, IsFiniteSet(S), S # {}, NEW R,
         \A x \in S : <<x, x>> \notin R,
         \A x, y, z \in S : <<x, y>> \in R /\ <<y, z>> \in R => <<x, z>> \in R
  PROVE  \E x \in S : \A y \in S : <<y, x>> \notin R
<1> DEFINE below == [x \in S |-> {y \in S : <<y, x>> \in R}]
           size == [x \in S |-> Cardinality(below[x])]
           N == {size[x] : x \in S}
<1>1. \A x \in S : IsFiniteSet(below[x]) /\ size[x] \in Nat
  BY FS_Subset, FS_CardinalityType
<1>2. N \in SUBSET Nat /\ N # {}
  <2>1. \A x \in S : size[x] \in Nat
    BY <1>1
  <2> HIDE DEF size
  <2> QED BY <2>1
<1>3. PICK n \in N : \A m \in N : n <= m
  <2> HIDE DEF N
  <2> QED BY <1>2, LeastNumber
<1>4. PICK x \in S : size[x] = n
  OBVIOUS
<1>5. ASSUME NEW y \in S, <<y, x>> \in R PROVE FALSE
  <2>1. below[y] \subseteq below[x] /\ y \in below[x] /\ y \notin below[y]
    BY <1>5
  <2>2. size[y] <= size[x] /\ size[y] # size[x]
    BY <2>1, <1>1, FS_Subset
  <2>3. size[y] \in N
    OBVIOUS
  <2>4. size[x] <= size[y]
    BY <2>3, <1>3, <1>4
  <2>5. size[x] \in Nat /\ size[y] \in Nat
    BY <1>1
  <2> HIDE DEF size
  <2> QED BY <2>2, <2>4, <2>5
<1> QED BY <1>5

\* Posts have times, and are ordered by them and by their ids.
LEMMA PostsOrdered ==
  ASSUME at \in [Posts -> Maybe]
  PROVE  /\ Posts \subseteq Nat /\ NoPost \notin Posts /\ MaxClock \in Nat
         /\ \A e \in Posts : at[e] \in Int /\ -1 <= at[e] /\ at[e] <= MaxClock
         /\ \A e \in OnRelay : at[e] \in Times
         /\ \A S \in SUBSET Posts : IsFiniteSet(S)
<1>1. Posts \subseteq Nat /\ NoPost \notin Posts /\ MaxClock \in Nat
  BY CatchUpAssumption DEF NoPost
<1>2. \A e \in Posts : at[e] \in Int /\ -1 <= at[e] /\ at[e] <= MaxClock
  BY <1>1 DEF Maybe, Times, NoTime
<1>3. \A e \in OnRelay : at[e] \in Times
  BY <1>1 DEF Maybe, OnRelay
<1>4. \A S \in SUBSET Posts : IsFiniteSet(S)
  BY CatchUpAssumption, FS_Subset
<1> QED BY <1>1, <1>2, <1>3, <1>4

\* Delivery order is a strict linear order.
LEMMA BeforeOrders ==
  ASSUME at \in [Posts -> Maybe]
  PROVE  /\ \A d, e \in Posts : Before(d, e) => at[d] <= at[e]
         /\ \A e \in Posts : ~Before(e, e)
         /\ \A d, e \in Posts : d = e \/ Before(d, e) \/ Before(e, d)
         /\ \A d, e \in Posts : ~(Before(d, e) /\ Before(e, d))
         /\ \A c, d, e \in Posts : Before(c, d) /\ Before(d, e) => Before(c, e)
<1> USE PostsOrdered DEF Before
<1>1. \A d, e \in Posts : Before(d, e) => at[d] <= at[e]
  OBVIOUS
<1>2. \A d, e \in Posts : d = e \/ Before(d, e) \/ Before(e, d)
  OBVIOUS
<1>3. \A d, e \in Posts : ~(Before(d, e) /\ Before(e, d))
  OBVIOUS
<1>4. \A c, d, e \in Posts : Before(c, d) /\ Before(d, e) => Before(c, e)
  OBVIOUS
<1> QED BY <1>1, <1>2, <1>3, <1>4

\* A set of events has a first one.
LEMMA FirstOf ==
  ASSUME at \in [Posts -> Maybe], NEW S \in SUBSET Posts, S # {}
  PROVE  \E e \in S : \A d \in S : ~Before(d, e)
<1> DEFINE R == {p \in Posts \X Posts : Before(p[1], p[2])}
<1>1. \A d, e \in Posts : <<d, e>> \in R <=> Before(d, e)
  OBVIOUS
<1> HIDE DEF R
<1>2. /\ \A x \in S : <<x, x>> \notin R
      /\ \A x, y, z \in S : <<x, y>> \in R /\ <<y, z>> \in R => <<x, z>> \in R
  <2>1. \A x \in S : <<x, x>> \notin R
    BY <1>1, BeforeOrders
  <2>2. \A x, y, z \in Posts : Before(x, y) /\ Before(y, z) => Before(x, z)
    BY BeforeOrders
  <2>3. S \subseteq Posts
    OBVIOUS
  <2> QED BY <1>1, <2>1, <2>2, <2>3
<1>3. IsFiniteSet(S)
  BY PostsOrdered
<1>4. \E x \in S : \A y \in S : <<y, x>> \notin R
  BY <1>2, <1>3, FirstInOrder
<1> QED BY <1>1, <1>4

\* A set of events has a last one.
LEMMA LastOf ==
  ASSUME at \in [Posts -> Maybe], NEW S \in SUBSET Posts, S # {}
  PROVE  \E e \in S : \A d \in S : d = e \/ Before(d, e)
<1> DEFINE R == {p \in Posts \X Posts : Before(p[2], p[1])}
<1>1. \A d, e \in Posts : <<d, e>> \in R <=> Before(e, d)
  OBVIOUS
<1> HIDE DEF R
<1>2. /\ \A x \in S : <<x, x>> \notin R
      /\ \A x, y, z \in S : <<x, y>> \in R /\ <<y, z>> \in R => <<x, z>> \in R
  <2>1. \A x \in S : <<x, x>> \notin R
    BY <1>1, BeforeOrders
  <2>2. \A x, y, z \in Posts : Before(x, y) /\ Before(y, z) => Before(x, z)
    BY BeforeOrders
  <2>3. S \subseteq Posts
    OBVIOUS
  <2> QED BY <1>1, <2>1, <2>2, <2>3
<1>3. IsFiniteSet(S)
  BY PostsOrdered
<1>4. \E x \in S : \A y \in S : <<y, x>> \notin R
  BY <1>2, <1>3, FirstInOrder
<1> QED BY <1>1, <1>4, BeforeOrders

\* The newest of a set of events, as a page has it first.
LEMMA NewestOf ==
  ASSUME at \in [Posts -> Maybe], NEW S \in SUBSET Posts, S # {}
  PROVE  \E e \in S : \A d \in S : ~Newer(d, e)
<1> DEFINE R == {p \in Posts \X Posts : Newer(p[1], p[2])}
<1>1. \A d, e \in Posts : <<d, e>> \in R <=> Newer(d, e)
  OBVIOUS
<1> HIDE DEF R
<1>2. /\ \A x \in S : <<x, x>> \notin R
      /\ \A x, y, z \in S : <<x, y>> \in R /\ <<y, z>> \in R => <<x, z>> \in R
  BY <1>1, PostsOrdered DEF Newer
<1>3. IsFiniteSet(S)
  BY PostsOrdered
<1>4. \E x \in S : \A y \in S : <<y, x>> \notin R
  BY <1>2, <1>3, FirstInOrder
<1> QED BY <1>1, <1>4

\* Latest is the latest time.
LEMMA LatestIsLatest ==
  ASSUME at \in [Posts -> Maybe], NEW S \in SUBSET Posts, S # {}
  PROVE  /\ Latest(S) \in Maybe
         /\ \E e \in S : Latest(S) = at[e]
         /\ \A e \in S : at[e] <= Latest(S)
<1>1. PICK x \in S : \A d \in S : d = x \/ Before(d, x)
  BY LastOf
<1>2. \A d \in S : at[d] <= at[x]
  BY <1>1, BeforeOrders, PostsOrdered
<1>3. \E t \in {at[e] : e \in S} : \A e \in S : at[e] <= t
  BY <1>2
<1>4. Latest(S) \in {at[e] : e \in S} /\ \A e \in S : at[e] <= Latest(S)
  BY <1>3 DEF Latest
<1> QED BY <1>4

\* The n first of a set: none is left out that is before one of them, and there is one.
LEMMA OldestFirst ==
  ASSUME at \in [Posts -> Maybe], NEW S \in SUBSET Posts, NEW n \in Int
  PROVE  /\ Oldest(S, n) \subseteq S
         /\ \A e \in Oldest(S, n), d \in S : Before(d, e) => d \in Oldest(S, n)
         /\ n > 0 /\ S # {} => Oldest(S, n) # {}
         /\ n <= 0 => Oldest(S, n) = {}
<1> DEFINE under(e) == {d \in S : Before(d, e)}
<1>1. \A e \in S : IsFiniteSet(under(e)) /\ Cardinality(under(e)) \in Nat
  BY PostsOrdered, FS_CardinalityType
<1>2. ASSUME NEW e \in Oldest(S, n), NEW d \in S, Before(d, e) PROVE d \in Oldest(S, n)
  <2>1. e \in S /\ Cardinality(under(e)) < n
    BY <1>2 DEF Oldest
  <2>2. under(d) \subseteq under(e)
    BY <1>2, <2>1, BeforeOrders
  <2>3. Cardinality(under(d)) <= Cardinality(under(e))
    BY <2>1, <2>2, <1>1, FS_Subset
  <2> HIDE DEF under
  <2>4. Cardinality(under(d)) < n
    BY <2>1, <2>3, <1>1
  <2> USE DEF under
  <2> QED BY <2>4 DEF Oldest
<1>3. ASSUME n > 0, S # {} PROVE Oldest(S, n) # {}
  <2>1. PICK e \in S : \A d \in S : ~Before(d, e)
    BY <1>3, FirstOf
  <2>2. under(e) = {}
    BY <2>1
  <2>3. Cardinality(under(e)) = 0
    BY <2>2, FS_EmptySet
  <2> QED BY <1>3, <2>3 DEF Oldest
<1>4. ASSUME n <= 0 PROVE Oldest(S, n) = {}
  BY <1>1, <1>4 DEF Oldest
<1>5. Oldest(S, n) \subseteq S
  BY DEF Oldest
<1> QED BY <1>2, <1>3, <1>4, <1>5

\* The first page of a set of events, newest first: the rest is older than all of it.
LEMMA PageFirst ==
  ASSUME at \in [Posts -> Maybe], NEW S \in SUBSET Posts
  PROVE  LET page == {e \in S : Cardinality({d \in S : Newer(d, e)}) < PageSize}
         IN  /\ page \subseteq S /\ (S # {} => page # {})
             /\ \A e \in S \ page, d \in page : Newer(d, e)
<1> DEFINE over(e) == {d \in S : Newer(d, e)}
           page == {e \in S : Cardinality(over(e)) < PageSize}
<1>1. \A e \in S : IsFiniteSet(over(e)) /\ Cardinality(over(e)) \in Nat
  BY PostsOrdered, FS_CardinalityType
<1>2. PageSize \in Nat /\ PageSize > 0
  BY CatchUpAssumption
<1>3. ASSUME S # {} PROVE page # {}
  <2>1. PICK e \in S : \A d \in S : ~Newer(d, e)
    BY <1>3, NewestOf
  <2>2. over(e) = {}
    BY <2>1
  <2>3. Cardinality(over(e)) = 0
    BY <2>2, FS_EmptySet
  <2> QED BY <1>2, <2>3
<1>4. ASSUME NEW e \in S \ page, NEW d \in page, ~Newer(d, e) PROVE FALSE
  <2>1. e \in S /\ d \in S /\ d # e
    OBVIOUS
  <2>2. Newer(e, d)
    BY <1>4, <2>1, PostsOrdered DEF Newer
  <2>3. over(e) \subseteq over(d)
    BY <2>2, <2>1, PostsOrdered DEF Newer
  <2>4. Cardinality(over(e)) <= Cardinality(over(d))
    BY <2>1, <2>3, <1>1, FS_Subset
  <2>5. Cardinality(over(d)) < PageSize /\ ~(Cardinality(over(e)) < PageSize)
    BY <2>1
  <2> HIDE DEF over
  <2> QED BY <2>1, <2>4, <2>5, <1>1, <1>2
<1> QED BY <1>3, <1>4

(***************************************************************************)
(* Checkpoints and what they keep of the events heard.                     *)
(***************************************************************************)
\* A cursor belongs to a window, in the second after `through`.
Steady(c) == c.after # NoPost => c.upper # NoTime /\ at[c.after] = c.through + 1

\* h is c with the events H as what it heard.
Holds(c, H, h) ==
  /\ h \in Checkpoints /\ h.upper = c.upper /\ h.after = c.after
  /\ c.through <= h.through /\ (c.upper # NoTime => h.through = c.through)
  /\ h.through > c.through => h.through <= c.read /\ h.through <= h.shrunk
  /\ c.shrunk <= h.shrunk /\ c.forgot <= h.forgot
  /\ h.read # NoTime => h.read = c.read /\ h.read > h.through
  /\ h.heard \subseteq H
  /\ \A e \in H : at[e] <= h.through \/ e \in h.heard \/ at[e] <= h.forgot

\* The fields of a checkpoint.
LEMMA CheckpointFields ==
  ASSUME NEW c \in Checkpoints
  PROVE  /\ c.through \in Maybe /\ c.upper \in Maybe /\ c.read \in Maybe
         /\ c.after \in Posts \cup {NoPost} /\ c.heard \in SUBSET Posts
         /\ c.shrunk \in Maybe /\ c.forgot \in Maybe
BY DEF Checkpoints

\* Times are numbers, and closed under Larger and Smaller.
LEMMA TimesAreNumbers ==
  /\ MaxClock \in Nat /\ 0 \in Times /\ NoTime \in Maybe
  /\ \A t \in Maybe : t \in Int /\ NoTime <= t /\ t <= MaxClock
  /\ \A t \in Maybe : t \in Times \/ t = NoTime
  /\ \A t \in Times : t \in Maybe /\ t # NoTime /\ 0 <= t
  /\ \A t, u \in Int : /\ Larger(t, u) \in {t, u} /\ t <= Larger(t, u) /\ u <= Larger(t, u)
                       /\ Smaller(t, u) \in {t, u} /\ Smaller(t, u) <= t /\ Smaller(t, u) <= u
<1>1. MaxClock \in Nat
  BY CatchUpAssumption
<1>2. \A t, u \in Int : /\ Larger(t, u) \in {t, u} /\ t <= Larger(t, u) /\ u <= Larger(t, u)
                        /\ Smaller(t, u) \in {t, u} /\ Smaller(t, u) <= t /\ Smaller(t, u) <= u
  BY DEF Larger, Smaller
<1> QED BY <1>1, <1>2 DEF Times, Maybe, NoTime

\* HeardOf keeps what it is given, and moves `through` only over what was read.
LEMMA HeardOfHolds ==
  ASSUME at \in [Posts -> Maybe], NEW c \in Checkpoints, Steady(c), NEW H \in SUBSET Posts
  PROVE  Holds(c, H, HeardOf(c, H))
<1> DEFINE done == {e \in H : at[e] > c.through}
           surplus == Cardinality(done) - HeardLimit
           bound == IF c.upper = NoTime THEN Larger(c.through, c.read)
                    ELSE IF c.after # NoPost THEN at[c.after] - 1 ELSE c.through
           moved == Larger(c.through, Smaller(bound, Latest(Oldest(done, surplus))))
           through == IF surplus > 0 THEN moved ELSE c.through
           past == {e \in done : at[e] > through}
           lapsed == Oldest(past, Cardinality(past) - HeardMost)
           shrunk == IF through > c.through THEN Larger(c.shrunk, Smaller(through, c.read))
                     ELSE c.shrunk
           forgot == IF lapsed = {} THEN c.forgot ELSE Larger(c.forgot, Latest(lapsed))
           read == IF c.read > through THEN c.read ELSE NoTime
           h == [c EXCEPT !.through = through, !.read = read, !.heard = past \ lapsed,
                          !.shrunk = shrunk, !.forgot = forgot]
<1>1. HeardOf(c, H) = h
  BY DEF HeardOf
<1>2. /\ c.through \in Maybe /\ c.upper \in Maybe /\ c.read \in Maybe
      /\ c.shrunk \in Maybe /\ c.forgot \in Maybe /\ HeardLimit \in Nat /\ HeardMost \in Nat
  BY CheckpointFields, CatchUpAssumption
<1>3. /\ done \in SUBSET Posts /\ past \in SUBSET Posts /\ past \subseteq H
      /\ surplus \in Int /\ Cardinality(past) - HeardMost \in Int
  <2>1. done \in SUBSET Posts /\ past \in SUBSET Posts /\ past \subseteq H
    OBVIOUS
  <2>2. Cardinality(done) \in Nat /\ Cardinality(past) \in Nat
    BY <2>1, PostsOrdered, FS_CardinalityType
  <2> HIDE DEF done, past
  <2> QED BY <1>2, <2>1, <2>2
<1>4. ASSUME surplus > 0 PROVE Latest(Oldest(done, surplus)) \in Maybe
  <2>1. done # {}
    <3>1. CASE done = {}
      <4>1. Cardinality(done) = 0
        BY <3>1, FS_EmptySet
      <4> HIDE DEF done
      <4> QED BY <1>2, <1>4, <4>1
    <3> QED BY <3>1
  <2>2. Oldest(done, surplus) # {} /\ Oldest(done, surplus) \in SUBSET Posts
    <3> HIDE DEF done, surplus
    <3> QED BY <1>3, <1>4, <2>1, OldestFirst
  <2> QED BY <2>2, LatestIsLatest
<1>5. bound \in Int /\ (bound > c.through => c.upper = NoTime /\ bound = c.read)
  BY <1>2, PostsOrdered, TimesAreNumbers DEF Steady
<1>6. /\ through \in Maybe /\ c.through <= through
      /\ through > c.through => through <= c.read /\ c.upper = NoTime
  <2>1. CASE ~(surplus > 0)
    <3>1. through = c.through
      BY <2>1
    <3> HIDE DEF through
    <3> QED BY <1>2, <3>1, TimesAreNumbers
  <2>2. CASE surplus > 0
    <3> DEFINE last == Latest(Oldest(done, surplus))
    <3>1. last \in Maybe /\ through = Larger(c.through, Smaller(bound, last))
      BY <1>4, <2>2
    <3> HIDE DEF last, bound, through
    <3>2. c.through \in Int /\ last \in Int /\ Smaller(bound, last) \in Int
      BY <1>2, <1>5, <3>1, TimesAreNumbers
    <3>3. CASE Smaller(bound, last) <= c.through
      <4>1. through = c.through
        BY <3>1, <3>2, <3>3 DEF Larger
      <4> QED BY <1>2, <4>1, TimesAreNumbers
    <3>4. CASE Smaller(bound, last) > c.through
      <4>1. through = Smaller(bound, last)
        BY <3>1, <3>2, <3>4 DEF Larger
      <4>2. through <= bound /\ through \in {bound, last} /\ bound > c.through
        BY <1>5, <3>2, <3>4, <4>1, TimesAreNumbers
      <4> QED BY <1>2, <1>5, <3>1, <3>2, <3>4, <4>1, <4>2
    <3> QED BY <3>2, <3>3, <3>4
  <2> QED BY <2>1, <2>2
<1>7. lapsed \in SUBSET past
  <2> HIDE DEF past
  <2> QED BY <1>3, OldestFirst
<1>8. forgot \in Maybe /\ c.forgot <= forgot /\ \A e \in lapsed : at[e] <= forgot
  <2> HIDE DEF lapsed, past
  <2>1. CASE lapsed = {}
    <3>1. forgot = c.forgot
      BY <2>1
    <3> QED BY <1>2, <2>1, <3>1, TimesAreNumbers
  <2>2. CASE lapsed # {}
    <3>1. forgot = Larger(c.forgot, Latest(lapsed))
      BY <2>2
    <3>2. lapsed \in SUBSET Posts
      BY <1>3, <1>7
    <3>3. Latest(lapsed) \in Maybe /\ \A e \in lapsed : at[e] <= Latest(lapsed)
      BY <2>2, <3>2, LatestIsLatest
    <3> HIDE DEF forgot
    <3>4. forgot \in Maybe /\ c.forgot <= forgot /\ Latest(lapsed) <= forgot
      BY <1>2, <3>1, <3>3, TimesAreNumbers
    <3> QED BY <1>2, <3>2, <3>3, <3>4, PostsOrdered, TimesAreNumbers
  <2> QED BY <2>1, <2>2
<1>9. shrunk \in Maybe /\ c.shrunk <= shrunk /\ (through > c.through => through <= shrunk)
  <2> HIDE DEF through
  <2>1. CASE through > c.through
    <3>1. Smaller(through, c.read) = through
      BY <1>2, <1>6, <2>1, TimesAreNumbers DEF Smaller
    <3>2. shrunk = Larger(c.shrunk, through)
      BY <2>1, <3>1
    <3> HIDE DEF shrunk
    <3> QED BY <1>2, <1>6, <3>2, TimesAreNumbers
  <2>2. CASE ~(through > c.through)
    BY <1>2, <2>2, TimesAreNumbers
  <2> QED BY <2>1, <2>2
<1>10. read \in Maybe /\ (read # NoTime => read = c.read /\ read > through)
  BY <1>2, TimesAreNumbers
<1> HIDE DEF read
<1>11. \A e \in H : at[e] <= through \/ e \in past
  <2> HIDE DEF through
  <2> QED BY <1>2, <1>6, PostsOrdered, TimesAreNumbers
<1> HIDE DEF through, past, lapsed, shrunk, forgot
<1>12. /\ h \in Checkpoints /\ h.through = through /\ h.upper = c.upper /\ h.after = c.after
       /\ h.read = read /\ h.shrunk = shrunk /\ h.forgot = forgot /\ h.heard = past \ lapsed
  BY <1>3, <1>6, <1>8, <1>9, <1>10 DEF Checkpoints
<1> HIDE DEF h
<1>13. \A e \in H : at[e] <= through \/ e \in h.heard \/ at[e] <= forgot
  BY <1>8, <1>11, <1>12
<1>14. h.heard \subseteq H
  BY <1>3, <1>12
<1>15. c.upper # NoTime => h.through = c.through
  BY <1>2, <1>6, <1>12, TimesAreNumbers
<1> QED
  BY <1>1, <1>6, <1>8, <1>9, <1>10, <1>12, <1>13, <1>14, <1>15 DEF Holds

\* Kept keeps, besides, what the checkpoint it replaces had heard and let go.
LEMMA KeptHolds ==
  ASSUME at \in [Posts -> Maybe], NEW old \in Checkpoints, NEW c \in Checkpoints, Steady(c)
  PROVE  /\ Holds(c, old.heard \cup c.heard, Kept(old, c))
         /\ old.shrunk <= Kept(old, c).shrunk /\ old.forgot <= Kept(old, c).forgot
<1> DEFINE shrunk == Larger(c.shrunk, old.shrunk)
           forgot == Larger(c.forgot, old.forgot)
           k == [c EXCEPT !.shrunk = shrunk, !.forgot = forgot]
           H == old.heard \cup c.heard
<1>1. Kept(old, c) = HeardOf(k, H)
  BY DEF Kept
<1>2. /\ shrunk \in Maybe /\ c.shrunk <= shrunk /\ old.shrunk <= shrunk
      /\ forgot \in Maybe /\ c.forgot <= forgot /\ old.forgot <= forgot
      /\ c.shrunk \in Int /\ old.shrunk \in Int /\ c.forgot \in Int /\ old.forgot \in Int
      /\ H \in SUBSET Posts
  BY CheckpointFields, TimesAreNumbers
<1> HIDE DEF shrunk, forgot
<1>3. /\ k \in Checkpoints /\ k.through = c.through /\ k.upper = c.upper /\ k.read = c.read
      /\ k.after = c.after /\ k.shrunk = shrunk /\ k.forgot = forgot
  BY <1>2 DEF Checkpoints
<1>4. Steady(k)
  BY <1>3 DEF Steady
<1> HIDE DEF k, H
<1>5. Holds(k, H, HeardOf(k, H))
  BY <1>2, <1>3, <1>4, HeardOfHolds
<1> DEFINE h == HeardOf(k, H)
<1>6. h.shrunk \in Int /\ h.forgot \in Int /\ shrunk <= h.shrunk /\ forgot <= h.forgot
  BY <1>3, <1>5, CheckpointFields, TimesAreNumbers DEF Holds
<1>7. /\ c.shrunk <= h.shrunk /\ old.shrunk <= h.shrunk
      /\ c.forgot <= h.forgot /\ old.forgot <= h.forgot
  <2> HIDE DEF h
  <2> QED BY <1>2, <1>6, TimesAreNumbers
<1>8. Holds(c, H, h)
  <2> HIDE DEF h
  <2> QED BY <1>3, <1>5, <1>7 DEF Holds, h
<1> QED BY <1>1, <1>7, <1>8 DEF H

\* What is past a checkpoint, heard or not.
Past(c, e) == at[e] > c.through /\ (c.after # NoPost => Before(c.after, e))

\* An event is past the checkpoint that heard more, or was heard, or was not past it
\* before; or it was passed because the list was full.
LEMMA HeardPasses ==
  ASSUME at \in [Posts -> Maybe], NEW c \in Checkpoints, NEW H \in SUBSET Posts,
         NEW h \in Checkpoints, Holds(c, H, h), NEW e \in Posts
  PROVE  /\ ~Past(h, e) => ~Past(c, e) \/ at[e] <= h.shrunk
         /\ ~Past(c, e) => ~Past(h, e)
         /\ c.upper # NoTime => (Past(h, e) <=> Past(c, e))
         /\ ~Undelivered(h, e) => e \in H \/ ~Past(c, e) \/ at[e] <= h.shrunk
         /\ ~Undelivered(h, e) /\ c.upper # NoTime => e \in H \/ ~Past(c, e)
         /\ e \in H => ~Undelivered(h, e) \/ at[e] <= h.forgot
         /\ ~Past(c, e) => ~Undelivered(h, e)
<1>1. /\ at[e] \in Int /\ c.through \in Int /\ h.through \in Int /\ h.shrunk \in Int
      /\ h.forgot \in Int
  BY PostsOrdered, CheckpointFields, TimesAreNumbers
<1>2. /\ h.upper = c.upper /\ h.after = c.after /\ c.through <= h.through
      /\ c.upper # NoTime => h.through = c.through
      /\ h.through > c.through => h.through <= h.shrunk
      /\ h.heard \subseteq H
      /\ e \in H => at[e] <= h.through \/ e \in h.heard \/ at[e] <= h.forgot
  BY DEF Holds
<1>3. /\ ~Past(h, e) => ~Past(c, e) \/ at[e] <= h.shrunk
      /\ ~Past(c, e) => ~Past(h, e)
      /\ c.upper # NoTime => (Past(h, e) <=> Past(c, e))
  BY <1>1, <1>2 DEF Past
<1>4. Undelivered(h, e) <=> Past(h, e) /\ e \notin h.heard
  BY DEF Undelivered, Past
<1>5. e \in H => ~Past(h, e) \/ e \in h.heard \/ at[e] <= h.forgot
  BY <1>1, <1>2 DEF Past
<1> QED BY <1>2, <1>3, <1>4, <1>5

\* What is undelivered is past the checkpoint, and not heard.
LEMMA UndeliveredIsPast ==
  ASSUME NEW c, NEW e
  PROVE  Undelivered(c, e) <=> Past(c, e) /\ e \notin c.heard
BY DEF Undelivered, Past

\* f is the checkpoint c once all of the window of p is delivered.
Finishes(p, c, overlap, f) ==
  /\ f \in Checkpoints /\ f.upper = NoTime /\ f.after = NoPost /\ f.through \in Times
  /\ f.read # NoTime => f.read > f.through /\ f.read = p.upper
  /\ f.heard \subseteq c.heard \cup p.read
  /\ c.shrunk <= f.shrunk /\ c.forgot <= f.forgot
  /\ \/ f.through <= p.from.through \/ f.through <= p.upper - overlap \/ f.through <= f.shrunk
  /\ \A e \in Posts : ~Undelivered(f, e) =>
       \/ e \in c.heard \cup p.read \/ at[e] <= p.from.through
       \/ at[e] <= p.upper - overlap \/ at[e] <= f.shrunk
  /\ \A e \in Posts :
       e \in c.heard \/ (e \in p.read /\ overlap # 0) \/ at[e] <= p.from.through
         \/ at[e] <= p.upper - overlap =>
       ~Undelivered(f, e) \/ at[e] <= f.forgot

\* The fields of a new checkpoint.
LEMMA FromFields ==
  ASSUME NEW t \in Maybe
  PROVE  /\ From(t) \in Checkpoints /\ Steady(From(t))
         /\ From(t).through = t /\ From(t).upper = NoTime /\ From(t).read = NoTime
         /\ From(t).after = NoPost /\ From(t).heard = {}
         /\ From(t).shrunk = NoTime /\ From(t).forgot = NoTime
BY TimesAreNumbers DEF From, Checkpoints, Steady

\* Finished does so.
LEMMA FinishedHolds ==
  ASSUME at \in [Posts -> Maybe], NEW p \in Passes, NEW c \in Checkpoints,
         NEW overlap \in Nat, p.from.through \in Times, p.upper \in Times,
         p.from.through <= p.upper
  PROVE  Finishes(p, c, overlap, Kept(c, Finished(p, c.heard, overlap)))
<1> DEFINE F == Finished(p, c.heard, overlap)
           f == Kept(c, F)
<1>1. /\ p.from.through \in Maybe /\ p.upper \in Maybe /\ p.read \in SUBSET Posts
      /\ c.heard \in SUBSET Posts /\ p.from.through \in Int /\ p.upper \in Int
      /\ 0 <= p.from.through /\ 0 <= p.upper /\ p.upper <= MaxClock
  BY CheckpointFields, TimesAreNumbers DEF Passes
<1>2. CASE overlap = 0
  <2>1. F = From(p.upper)
    BY <1>2 DEF Finished
  <2> HIDE DEF F
  <2>2. /\ F \in Checkpoints /\ Steady(F) /\ F.through = p.upper /\ F.upper = NoTime
        /\ F.read = NoTime /\ F.after = NoPost /\ F.heard = {}
    BY <1>1, <2>1, FromFields
  <2>3. Holds(F, c.heard \cup F.heard, f) /\ c.shrunk <= f.shrunk /\ c.forgot <= f.forgot
    BY <2>2, KeptHolds
  <2> HIDE DEF f
  <2>4. f \in Checkpoints
    BY <2>3 DEF Holds
  <2>5. /\ f.through \in Int /\ f.read \in Maybe /\ f.shrunk \in Int /\ f.through \in Maybe
    BY <2>4, CheckpointFields, TimesAreNumbers
  <2>6. f.upper = NoTime /\ f.after = NoPost /\ f.read = NoTime /\ f.heard \subseteq c.heard
    BY <2>2, <2>3 DEF Holds
  <2>7. f.through = p.upper
    BY <1>1, <2>2, <2>3, <2>5 DEF Holds, NoTime
  <2>8. \A e \in Posts : ~Undelivered(f, e) => e \in c.heard \/ at[e] <= p.upper
    <3> TAKE e \in Posts
    <3> QED BY <1>1, <2>6, <2>7, PostsOrdered DEF Undelivered
  <2>9. \A e \in Posts : e \in c.heard \/ at[e] <= p.from.through \/ at[e] <= p.upper =>
          ~Undelivered(f, e) \/ at[e] <= f.forgot
    <3> TAKE e \in Posts
    <3>1. at[e] <= p.upper => ~Undelivered(f, e)
      BY <1>1, <2>7, PostsOrdered DEF Undelivered
    <3>2. e \in c.heard => ~Undelivered(f, e) \/ at[e] <= f.forgot
      BY <2>2, <2>3, <2>4, CheckpointFields, HeardPasses
    <3> QED BY <1>1, <3>1, <3>2, PostsOrdered
  <2>10. p.upper - overlap = p.upper
    BY <1>1, <1>2
  <2>11. f.through <= p.upper - overlap
    BY <1>1, <2>7, <2>10
  <2> QED BY <1>2, <2>3, <2>4, <2>6, <2>7, <2>8, <2>9, <2>10, <2>11 DEF Finishes, f, F
<1>3. CASE overlap # 0
  <2> DEFINE t == Larger(p.from.through, p.upper - overlap)
             G == [From(t) EXCEPT !.read = p.upper]
             H == c.heard \cup p.read
  <2>1. F = HeardOf(G, H)
    BY <1>3 DEF Finished
  <2>2. /\ t \in Times /\ t \in Maybe /\ p.from.through <= t /\ p.upper - overlap <= t /\ t \in Int
        /\ t <= p.upper /\ t \in {p.from.through, p.upper - overlap}
    <3>1. /\ t \in {p.from.through, p.upper - overlap} /\ p.upper - overlap \in Int
          /\ p.from.through <= t /\ p.upper - overlap <= t
      BY <1>1, TimesAreNumbers
    <3> HIDE DEF t
    <3> QED BY <1>1, <3>1, TimesAreNumbers DEF Times, Maybe
  <2> HIDE DEF t, F
  <2>3. /\ G \in Checkpoints /\ Steady(G) /\ G.through = t /\ G.upper = NoTime
        /\ G.read = p.upper /\ G.after = NoPost
    BY <1>1, <2>2, TimesAreNumbers DEF From, Checkpoints, Steady
  <2> HIDE DEF G
  <2>4. Holds(G, H, F)
    BY <1>1, <2>1, <2>3, HeardOfHolds
  <2>5. F \in Checkpoints /\ F.upper = NoTime /\ F.after = NoPost /\ F.heard \subseteq H /\ Steady(F)
    BY <2>3, <2>4 DEF Holds, Steady
  <2>6. Holds(F, c.heard \cup F.heard, f) /\ c.shrunk <= f.shrunk /\ c.forgot <= f.forgot
    BY <2>5, KeptHolds
  <2> HIDE DEF f
  <2>7. f \in Checkpoints /\ f.upper = NoTime /\ f.after = NoPost /\ f.heard \subseteq H
    BY <2>5, <2>6 DEF Holds
  <2>8. /\ F.through \in Int /\ f.through \in Int /\ F.shrunk \in Int /\ f.shrunk \in Int
        /\ F.read \in Int /\ f.read \in Int /\ F.forgot \in Int /\ f.forgot \in Int
        /\ F.through \in Maybe /\ f.through \in Maybe
    BY <2>5, <2>7, CheckpointFields, TimesAreNumbers
  <2>9. /\ t <= F.through /\ F.through <= f.through /\ F.shrunk <= f.shrunk
        /\ F.forgot <= f.forgot
        /\ F.through > t => F.through <= F.shrunk
        /\ f.through > F.through => f.through <= f.shrunk
        /\ f.read # NoTime => f.read = F.read /\ f.read > f.through
        /\ F.read # NoTime => F.read = p.upper
    BY <2>3, <2>4, <2>6 DEF Holds
  <2>10. f.through \in Times
    BY <1>1, <2>2, <2>8, <2>9, TimesAreNumbers DEF Times, Maybe, NoTime
  <2>11. f.through <= t \/ f.through <= f.shrunk
    BY <2>2, <2>8, <2>9
  <2>12. \/ f.through <= p.from.through \/ f.through <= p.upper - overlap
         \/ f.through <= f.shrunk
    BY <2>2, <2>11
  <2>13. ASSUME NEW e \in Posts, ~Undelivered(f, e)
         PROVE  \/ e \in H \/ at[e] <= p.from.through
                \/ at[e] <= p.upper - overlap \/ at[e] <= f.shrunk
    <3>1. at[e] \in Int
      BY PostsOrdered
    <3>2. e \in f.heard \/ at[e] <= f.through
      BY <2>7, <2>8, <2>13, <3>1 DEF Undelivered
    <3>3. at[e] <= f.through => \/ at[e] <= p.from.through \/ at[e] <= p.upper - overlap
                                \/ at[e] <= f.shrunk
      BY <1>1, <2>2, <2>8, <2>12, <3>1
    <3> QED BY <2>7, <3>2, <3>3
  <2>14. ASSUME NEW e \in Posts,
                e \in H \/ at[e] <= p.from.through \/ at[e] <= p.upper - overlap
         PROVE  ~Undelivered(f, e) \/ at[e] <= f.forgot
    <3>1. at[e] \in Int
      BY PostsOrdered
    <3>2. CASE e \in H
      <4>1. e \in F.heard \/ at[e] <= F.through \/ at[e] <= F.forgot
        BY <2>4, <3>2 DEF Holds
      <4>2. e \in F.heard => ~Undelivered(f, e) \/ at[e] <= f.forgot
        BY <2>5, <2>6, <2>7, CheckpointFields, HeardPasses
      <4>3. at[e] <= F.through => ~Undelivered(f, e)
        BY <2>8, <2>9, <3>1 DEF Undelivered
      <4> QED BY <2>8, <2>9, <3>1, <4>1, <4>2, <4>3
    <3>3. CASE at[e] <= p.from.through \/ at[e] <= p.upper - overlap
      <4>1. at[e] <= f.through
        BY <1>1, <2>2, <2>8, <2>9, <3>1, <3>3
      <4> QED BY <2>8, <3>1, <4>1 DEF Undelivered
    <3> QED BY <2>14, <3>2, <3>3
  <2>15. f.read # NoTime => f.read > f.through /\ f.read = p.upper
    BY <2>9
  <2> QED BY <2>6, <2>7, <2>10, <2>12, <2>13, <2>14, <2>15 DEF Finishes, f, F, H
<1> QED BY <1>2, <1>3

\* The events of the second of the window's cursor that it had delivered.
PassedOf(p) ==
  IF p.from.after = NoPost THEN {}
  ELSE {e \in p.read : /\ at[e] = at[p.from.after]
                       /\ e = p.from.after \/ Before(e, p.from.after)}

\* a is the checkpoint c once the events given of the window of p, up to last, are
\* delivered.
AdmitsTo(p, c, given, overlap, last, a) ==
  /\ last \in given /\ \A d \in given : d = last \/ Before(d, last)
  /\ a \in Checkpoints /\ a.upper = p.upper /\ a.read = NoTime
  /\ c.shrunk <= a.shrunk /\ c.forgot <= a.forgot
  /\ overlap = 0 => /\ a.through = at[last] - 1 /\ a.after = last /\ a.heard \subseteq c.heard
  /\ overlap # 0 =>
       /\ a.through = Larger(p.from.through, Smaller(at[last] - 1, p.upper - overlap))
       /\ a.after = NoPost /\ a.heard \subseteq c.heard \cup PassedOf(p) \cup given
  /\ \A e \in Posts : e \in c.heard \/ (overlap # 0 /\ e \in PassedOf(p) \cup given) =>
       ~Undelivered(a, e) \/ at[e] <= a.forgot

\* Admitted does so.
LEMMA AdmittedHolds ==
  ASSUME at \in [Posts -> Maybe], NEW p \in Passes, NEW c \in Checkpoints,
         NEW overlap \in Nat, p.from.through \in Times, p.upper \in Times,
         NEW given \in SUBSET Posts, given # {},
         \A e \in given : p.from.through < at[e] /\ at[e] <= p.upper
  PROVE  \E last \in given :
           AdmitsTo(p, c, given, overlap, last, Kept(c, Admitted(p, given, c.heard, overlap)))
<1> DEFINE last == CHOOSE e \in given : \A d \in given : d = e \/ Before(d, e)
           A == Admitted(p, given, c.heard, overlap)
           a == Kept(c, A)
<1>1. last \in given /\ \A d \in given : d = last \/ Before(d, last)
  <2>1. \E e \in given : \A d \in given : d = e \/ Before(d, e)
    BY LastOf
  <2> QED BY <2>1
<1>2. /\ p.from.through \in Int /\ p.upper \in Int /\ 0 <= p.from.through
      /\ p.upper <= MaxClock /\ p.upper \in Maybe /\ p.upper # NoTime /\ p.read \in SUBSET Posts
      /\ c.heard \in SUBSET Posts /\ p.from.through \in Maybe
  BY CheckpointFields, TimesAreNumbers DEF Passes
<1>3. CASE overlap = 0
  <2>1. A = [From(at[last] - 1) EXCEPT !.upper = p.upper, !.after = last]
    BY <1>3 DEF Admitted
  <2> HIDE DEF last, A
  <2>2. at[last] \in Int /\ at[last] - 1 \in Maybe
    BY <1>1, <1>2, PostsOrdered, TimesAreNumbers DEF Maybe, Times
  <2>3. /\ A \in Checkpoints /\ A.through = at[last] - 1 /\ A.upper = p.upper
        /\ A.read = NoTime /\ A.after = last /\ A.heard = {}
    BY <1>1, <1>2, <2>1, <2>2, TimesAreNumbers DEF From, Checkpoints
  <2>4. Steady(A)
    BY <1>2, <2>2, <2>3 DEF Steady
  <2>5. Holds(A, c.heard \cup A.heard, a) /\ c.shrunk <= a.shrunk /\ c.forgot <= a.forgot
    BY <2>3, <2>4, KeptHolds
  <2> HIDE DEF a
  <2>6. /\ a \in Checkpoints /\ a.upper = p.upper /\ a.after = last /\ a.heard \subseteq c.heard
        /\ a.through = at[last] - 1 /\ a.read = NoTime
    BY <1>2, <2>3, <2>5 DEF Holds
  <2>7. \A e \in Posts : e \in c.heard => ~Undelivered(a, e) \/ at[e] <= a.forgot
    BY <2>3, <2>5, <2>6, CheckpointFields, HeardPasses
  <2>8. AdmitsTo(p, c, given, overlap, last, a)
    BY <1>1, <1>3, <2>5, <2>6, <2>7 DEF AdmitsTo
  <2> QED BY <1>1, <2>8 DEF a, A
<1>4. CASE overlap # 0
  <2> DEFINE t == Larger(p.from.through, Smaller(at[last] - 1, p.upper - overlap))
             G == [From(t) EXCEPT !.upper = p.upper]
             H == c.heard \cup PassedOf(p) \cup given
  <2>1. A = HeardOf(G, H)
    BY <1>4 DEF Admitted, PassedOf
  <2> HIDE DEF last, A
  <2>2. at[last] \in Int /\ p.upper - overlap \in Int /\ at[last] <= MaxClock
    BY <1>1, <1>2, PostsOrdered
  <2>3. t \in Maybe
    <3> DEFINE u == Smaller(at[last] - 1, p.upper - overlap)
    <3>1. u \in Int /\ u <= at[last] - 1
      BY <2>2, TimesAreNumbers
    <3> HIDE DEF u
    <3>2. t \in {p.from.through, u} /\ p.from.through <= t
      BY <1>2, <3>1, TimesAreNumbers DEF u
    <3> HIDE DEF t
    <3> QED BY <1>2, <2>2, <3>1, <3>2, TimesAreNumbers DEF Maybe, Times
  <2> HIDE DEF t
  <2>4. /\ G \in Checkpoints /\ G.through = t /\ G.upper = p.upper
        /\ G.read = NoTime /\ G.after = NoPost
    BY <1>2, <2>3, TimesAreNumbers DEF From, Checkpoints
  <2>5. Steady(G) /\ H \in SUBSET Posts
    BY <1>2, <2>4 DEF Steady, PassedOf
  <2> HIDE DEF G, H
  <2>6. Holds(G, H, A)
    BY <2>1, <2>4, <2>5, HeardOfHolds
  <2>7. /\ A \in Checkpoints /\ A.upper = p.upper /\ A.after = NoPost /\ A.through = t
        /\ A.read = NoTime /\ A.heard \subseteq H
    BY <1>2, <2>4, <2>6 DEF Holds
  <2>8. Steady(A)
    BY <2>7 DEF Steady
  <2>9. Holds(A, c.heard \cup A.heard, a) /\ c.shrunk <= a.shrunk /\ c.forgot <= a.forgot
    BY <2>7, <2>8, KeptHolds
  <2> HIDE DEF a
  <2>10. /\ a \in Checkpoints /\ a.upper = p.upper /\ a.after = NoPost /\ a.through = t
         /\ a.read = NoTime /\ a.heard \subseteq H /\ A.forgot <= a.forgot
    BY <1>2, <2>7, <2>9 DEF Holds, H
  <2>11. ASSUME NEW e \in Posts, e \in H
         PROVE  ~Undelivered(a, e) \/ at[e] <= a.forgot
    <3>1. at[e] \in Int /\ A.forgot \in Int /\ a.forgot \in Int
      BY <2>7, <2>10, PostsOrdered, CheckpointFields, TimesAreNumbers
    <3>2. e \in A.heard \/ at[e] <= A.through \/ at[e] <= A.forgot
      BY <2>6, <2>11 DEF Holds
    <3>3. e \in A.heard => ~Undelivered(a, e) \/ at[e] <= a.forgot
      BY <2>7, <2>9, <2>10, CheckpointFields, HeardPasses
    <3>4. at[e] <= A.through => ~Undelivered(a, e)
      BY <2>3, <2>7, <2>10, <3>1, TimesAreNumbers DEF Undelivered
    <3> QED BY <2>10, <3>1, <3>2, <3>3, <3>4
  <2>12. AdmitsTo(p, c, given, overlap, last, a)
    BY <1>1, <1>4, <2>9, <2>10, <2>11 DEF AdmitsTo, H, t
  <2> QED BY <1>1, <2>12 DEF a, A
<1> QED BY <1>3, <1>4

(***************************************************************************)
(* The shape of checkpoints and windows. b stands for `base` and s for the *)
(* time `shrunk` of the checkpoint saved.                                  *)
(***************************************************************************)
Window(p) == p.stage \in {"reading", "giving"}

\* A window may begin from c: what it has left to read is after its cursor.
Begins(c) ==
  /\ c.heard \subseteq OnRelay
  /\ c.upper # NoTime => c.upper > c.through /\ c.upper <= clock
  /\ c.after # NoPost => /\ ~polled /\ c.upper # NoTime
                         /\ at[c.after] = c.through + 1 /\ at[c.after] <= c.upper

\* A checkpoint saved is valid, and between windows tells what was read.
Ordered(c) ==
  /\ Begins(c)
  /\ c.read # NoTime => c.upper = NoTime /\ c.read > c.through /\ c.read <= clock

\* A polled stream's time never comes nearer to the present than the relay stores late.
Lags(c, b, s) == polled => c.through <= b \/ c.through <= s \/ c.through <= clock - Overlap

\* A window: where it begins and ends, what it read, gave and has left to give.
Frame(p, b, s) ==
  /\ p \in Passes
  /\ p.from.through \in Times /\ p.upper \in Times /\ p.upper <= clock
  /\ p.from.through <= p.upper /\ p.from.heard \subseteq OnRelay
  /\ p.from.after # NoPost => /\ ~polled /\ at[p.from.after] = p.from.through + 1
                              /\ at[p.from.after] <= p.upper
  /\ Lags(p.from, b, s)
  /\ p.read \subseteq OnRelay
  /\ \A e \in p.read : p.from.through < at[e] /\ at[e] <= p.upper
  /\ p.left \cup p.given \subseteq p.read
  /\ \A e \in p.left \cup p.given : Undelivered(p.from, e)
  /\ \A g \in p.given, l \in p.left : Before(g, l)

\* A window under way with the checkpoint c.
WindowOK(p, c, b, s) ==
  Window(p) =>
    /\ Frame(p, b, s) /\ p.from.through < p.upper
    /\ p.pages > 0 => p.read # {}
    /\ p.stage = "reading" => p.left = {} /\ p.given = {}
    /\ p.stage = "giving" => c.upper = p.upper /\ p.left # {}

\* The fields of a pass, and of one that is over.
LEMMA PassFields ==
  /\ \A p \in Passes : /\ p.from \in Checkpoints /\ p.at \in Maybe /\ p.upper \in Maybe
                       /\ p.read \in SUBSET Posts /\ p.left \in SUBSET Posts
                       /\ p.given \in SUBSET Posts /\ p.pages \in 0..MaxPages
                       /\ p.first \in BOOLEAN /\ p.behind \in BOOLEAN
                       /\ p.stage \in {"none", "reading", "giving", "failed", "done"}
  /\ NoPass \in Passes /\ NoPass.at = NoTime /\ NoPass.stage = "none" /\ ~Window(NoPass)
<1>1. 0 \in 0..MaxPages /\ From(NoTime) \in Checkpoints /\ NoTime \in Maybe
  BY CatchUpAssumption, FromFields, TimesAreNumbers
<1> QED BY <1>1 DEF Passes, NoPass, Window

\* What the overlap may be; a polled stream always has it.
LEMMA OverlapIsOverlap ==
  ASSUME NEW l
  PROVE  /\ OverlapNow(l) \in Nat /\ OverlapNow(l) \in {0, Overlap}
         /\ OverlapNow(l) # 0 <=> Coverage(l) = NoTime
         /\ polled => OverlapNow(l) = Overlap /\ OverlapNow(l) # 0
         /\ Drift \in Nat /\ Overlap \in Nat /\ Drift < Overlap
BY CatchUpAssumption DEF OverlapNow, Coverage

\* Coverage is a time up to now.
LEMMA CoverageIsTime ==
  ASSUME clock \in Times, NEW l \in Links, l.since <= clock, l.covered <= clock
  PROVE  /\ Coverage(l) \in Maybe /\ Coverage(l) <= clock
         /\ l.since \in Maybe /\ Due(l) \in Maybe /\ Due(l) <= clock
         /\ Coverage(l) # NoTime => ~polled /\ l.route /\ l.since # NoTime
         /\ ~polled /\ l.route /\ l.since # NoTime => Coverage(l) # NoTime
<1>1. l.since \in Maybe /\ l.covered \in Maybe /\ clock \in Maybe /\ clock \in Int /\ clock # NoTime
  BY TimesAreNumbers DEF Links
<1>2. Coverage(l) \in Maybe /\ Coverage(l) <= clock
  BY <1>1, TimesAreNumbers DEF Coverage
<1>3. Due(l) \in Maybe /\ Due(l) <= clock
  <2>1. l.since \in Int /\ Coverage(l) \in Int
    BY <1>1, <1>2, TimesAreNumbers
  <2>2. Due(l) \in {l.since, Coverage(l)}
    BY <2>1, TimesAreNumbers DEF Due
  <2> QED BY <1>1, <1>2, <2>2
<1> QED BY <1>1, <1>2, <1>3, TimesAreNumbers DEF Coverage

\* A window ends at a time up to now.
LEMMA UpperIsTime ==
  ASSUME clock \in Times, NEW l \in Links, l.since <= clock, l.covered <= clock,
         NEW p \in Passes, p.at <= clock
  PROVE  UpperOf(p, l) \in Maybe /\ UpperOf(p, l) <= clock
<1> DEFINE t == p.at - PollLag
<1>1. /\ Coverage(l) \in Maybe /\ Coverage(l) <= clock /\ l.since \in Maybe
      /\ Due(l) \in Maybe /\ Due(l) <= clock
  BY CoverageIsTime
<1>2. t \in Int /\ t <= clock /\ clock \in Int /\ clock <= MaxClock /\ clock \in Maybe
  BY PassFields, CatchUpAssumption, TimesAreNumbers
<1> HIDE DEF t
<1>3. ASSUME NEW u \in Maybe, u <= clock
      PROVE  Larger(u, t) \in Maybe /\ Larger(u, t) <= clock
  <2>1. CASE u > t
    BY <1>3, <2>1 DEF Larger
  <2>2. CASE ~(u > t)
    <3>1. Larger(u, t) = t
      BY <2>2 DEF Larger
    <3>2. t \in Maybe
      BY <1>2, <1>3, <2>2, TimesAreNumbers DEF Maybe, Times, NoTime
    <3> QED BY <1>2, <3>1, <3>2
  <2> QED BY <2>1, <2>2
<1>4. ASSUME NEW u \in Maybe, u <= clock
      PROVE  Larger(t, u) \in Maybe /\ Larger(t, u) <= clock
  <2>1. CASE t > u
    <3>1. Larger(t, u) = t
      BY <2>1 DEF Larger
    <3>2. t \in Maybe
      BY <1>2, <1>4, <2>1, TimesAreNumbers DEF Maybe, Times, NoTime
    <3> QED BY <1>2, <3>1, <3>2
  <2>2. CASE ~(t > u)
    BY <1>4, <2>2 DEF Larger
  <2> QED BY <2>1, <2>2
<1>5. CASE p.first
  <2>1. UpperOf(p, l) = IF Coverage(l) = NoTime THEN Larger(l.since, t) ELSE l.since
    BY <1>5 DEF UpperOf, t
  <2> QED BY <1>1, <1>3, <2>1
<1>6. CASE ~p.first
  <2>1. UpperOf(p, l) = Larger(t, IF p.behind THEN Due(l) ELSE l.since)
    BY <1>6 DEF UpperOf, t
  <2> QED BY <1>1, <1>4, <2>1
<1> QED BY <1>5, <1>6

\* The window that begins from c, if any.
LEMMA BegunOK ==
  ASSUME at \in [Posts -> Maybe], clock \in Times, NEW p \in Passes, p.at <= clock,
         NEW l \in Links, l.since <= clock, l.covered <= clock,
         NEW c \in Checkpoints, c.through \in Times, Begins(c), NEW b, NEW s, Lags(c, b, s)
  PROVE  LET q == Begun(p, c, l)
         IN  /\ q \in Passes /\ q.at \in {p.at, NoTime} /\ q.stage \in {"reading", "done"}
             /\ WindowOK(q, c, b, s)
             /\ q.stage = "reading" => q.from = c /\ q.read = {} /\ q.given = {} /\ q.left = {}
<1> DEFINE upper == IF c.upper # NoTime THEN c.upper ELSE UpperOf(p, l)
           done == [NoPass EXCEPT !.stage = "done"]
           q == [p EXCEPT !.stage = "reading", !.from = c, !.upper = upper, !.read = {},
                          !.pages = 0, !.left = {}, !.given = {}]
<1>1. upper \in Maybe /\ upper <= clock
  BY UpperIsTime, CheckpointFields DEF Begins
<1>2. CASE c.through + 1 > upper \/ (c.upper = NoTime /\ c.read >= upper)
  <2>1. Begun(p, c, l) = done
    BY <1>2 DEF Begun
  <2>2. done \in Passes /\ done.at = NoTime /\ done.stage = "done"
    BY PassFields DEF Passes
  <2>3. WindowOK(done, c, b, s)
    BY <2>2 DEF WindowOK, Window
  <2> QED BY <2>1, <2>2, <2>3
<1>3. CASE ~(c.through + 1 > upper \/ (c.upper = NoTime /\ c.read >= upper))
  <2>1. Begun(p, c, l) = q
    BY <1>3 DEF Begun
  <2>2. /\ c.through < upper /\ upper \in Times /\ c.through \in Int /\ upper \in Int
    BY <1>1, <1>3, TimesAreNumbers DEF Times, Maybe, NoTime
  <2> HIDE DEF upper
  <2>3. /\ q \in Passes /\ q.at = p.at /\ q.stage = "reading" /\ q.from = c /\ q.upper = upper
        /\ q.read = {} /\ q.left = {} /\ q.given = {} /\ q.pages = 0
    <3>1. 0 \in 0..MaxPages
      BY CatchUpAssumption
    <3>2. q \in Passes
      BY <1>1, <3>1 DEF Passes
    <3> QED BY <3>2 DEF Passes
  <2> HIDE DEF q
  <2>4. c.after # NoPost => at[c.after] <= upper
    BY DEF Begins, upper
  <2>5. Frame(q, b, s)
    BY <1>1, <2>2, <2>3, <2>4 DEF Frame, Begins
  <2>6. WindowOK(q, c, b, s)
    BY <2>2, <2>3, <2>5 DEF WindowOK
  <2> QED BY <2>1, <2>3, <2>6
<1> QED BY <1>2, <1>3

\* The checkpoint of a window delivered.
LEMMA FinishOK ==
  ASSUME at \in [Posts -> Maybe], clock \in Times, NEW p, NEW b \in Int, NEW l,
         NEW c \in Checkpoints, c.heard \subseteq OnRelay, Frame(p, b, c.shrunk)
  PROVE  LET f == Kept(c, Finished(p, c.heard, OverlapNow(l)))
         IN  /\ Finishes(p, c, OverlapNow(l), f) /\ f.shrunk \in Int
             /\ f \in Checkpoints /\ f.through \in Times
             /\ Ordered(f) /\ Lags(f, b, f.shrunk) /\ c.shrunk <= f.shrunk
<1> DEFINE ov == OverlapNow(l)
           f == Kept(c, Finished(p, c.heard, ov))
<1>1. Finishes(p, c, ov, f)
  BY OverlapIsOverlap, FinishedHolds DEF Frame
<1> HIDE DEF f
<1>2. /\ f \in Checkpoints /\ f.through \in Times /\ f.upper = NoTime /\ f.after = NoPost
      /\ f.heard \subseteq OnRelay /\ c.shrunk <= f.shrunk
      /\ f.read # NoTime => f.read > f.through /\ f.read <= clock
      /\ f.through <= p.from.through \/ f.through <= p.upper - ov \/ f.through <= f.shrunk
  BY <1>1 DEF Finishes, Frame
<1>3. Ordered(f)
  BY <1>2 DEF Ordered, Begins
<1>4. /\ f.through \in Int /\ p.from.through \in Int /\ p.upper \in Int /\ f.shrunk \in Int
      /\ c.shrunk \in Int /\ clock \in Int /\ Overlap \in Int /\ p.upper <= clock
  BY <1>2, CheckpointFields, TimesAreNumbers, OverlapIsOverlap DEF Frame
<1>5. Lags(f, b, f.shrunk)
  <2> SUFFICES ASSUME polled
               PROVE  f.through <= b \/ f.through <= f.shrunk \/ f.through <= clock - Overlap
    BY DEF Lags
  <2>1. ov = Overlap
    BY OverlapIsOverlap
  <2>2. \/ p.from.through <= b \/ p.from.through <= c.shrunk
        \/ p.from.through <= clock - Overlap
    BY DEF Frame, Lags
  <2> HIDE DEF ov
  <2> QED BY <1>2, <1>4, <2>1, <2>2
<1> QED BY <1>1, <1>2, <1>3, <1>4, <1>5 DEF f

\* The checkpoint of a window of which some are delivered.
LEMMA AdmitOK ==
  ASSUME at \in [Posts -> Maybe], clock \in Times, NEW p, NEW b \in Int, NEW l,
         NEW c \in Checkpoints, c.heard \subseteq OnRelay, Frame(p, b, c.shrunk),
         p.given # {}, p.from.through < p.upper
  PROVE  LET a == Kept(c, Admitted(p, p.given, c.heard, OverlapNow(l)))
         IN  /\ \E last \in p.given : AdmitsTo(p, c, p.given, OverlapNow(l), last, a)
             /\ a \in Checkpoints /\ a.through \in Times /\ a.upper = p.upper
             /\ a.heard \subseteq OnRelay /\ c.shrunk <= a.shrunk /\ c.forgot <= a.forgot
             /\ Ordered(a) /\ Lags(a, b, a.shrunk) /\ a.shrunk \in Int
<1> DEFINE ov == OverlapNow(l)
           a == Kept(c, Admitted(p, p.given, c.heard, ov))
<1>1. /\ p \in Passes /\ p.given \in SUBSET Posts /\ p.given \subseteq p.read
      /\ p.read \subseteq OnRelay /\ p.given \subseteq OnRelay
      /\ \A e \in p.given : p.from.through < at[e] /\ at[e] <= p.upper
  BY PassFields DEF Frame
<1>2. PICK last \in p.given : AdmitsTo(p, c, p.given, ov, last, a)
  BY <1>1, OverlapIsOverlap, AdmittedHolds DEF Frame
<1> HIDE DEF a
<1>3. /\ a \in Checkpoints /\ a.upper = p.upper /\ a.read = NoTime
      /\ c.shrunk <= a.shrunk /\ c.forgot <= a.forgot
  BY <1>2 DEF AdmitsTo
<1>4. /\ at[last] \in Int /\ p.from.through < at[last] /\ at[last] <= p.upper /\ last \in Posts
      /\ p.from.through \in Int /\ p.upper \in Int /\ clock \in Int /\ Overlap \in Int
      /\ a.shrunk \in Int /\ c.shrunk \in Int /\ p.upper <= clock /\ 0 <= p.from.through
      /\ p.from.through \in Times /\ p.upper # NoTime
  <2>1. last \in Posts /\ at[last] \in Int /\ p.from.through < at[last] /\ at[last] <= p.upper
    BY <1>1, PostsOrdered
  <2>2. /\ p.from.through \in Times /\ p.upper \in Times /\ p.upper <= clock
    BY DEF Frame
  <2>3. a.shrunk \in Int /\ c.shrunk \in Int /\ Overlap \in Int
    BY <1>3, CheckpointFields, TimesAreNumbers, OverlapIsOverlap
  <2> QED BY <2>1, <2>2, <2>3, TimesAreNumbers
<1>5. CASE ov = 0
  <2>1. a.through = at[last] - 1 /\ a.after = last /\ a.heard \subseteq c.heard
    BY <1>2, <1>5 DEF AdmitsTo
  <2>2. ~polled
    BY <1>5, OverlapIsOverlap
  <2>3. a.through \in Times
    BY <1>4, <2>1, TimesAreNumbers DEF Times
  <2>4. Ordered(a) /\ Lags(a, b, a.shrunk)
    BY <1>3, <1>4, <2>1, <2>2 DEF Ordered, Begins, Lags
  <2> QED BY <1>2, <1>3, <1>4, <2>1, <2>3, <2>4 DEF a
<1>6. CASE ov # 0
  <2> DEFINE u == Smaller(at[last] - 1, p.upper - Overlap)
  <2>1. /\ a.through = Larger(p.from.through, u) /\ a.after = NoPost
        /\ a.heard \subseteq c.heard \cup PassedOf(p) \cup p.given
    <3>1. ov = Overlap
      BY <1>6, OverlapIsOverlap
    <3> QED BY <1>2, <1>6, <3>1 DEF AdmitsTo
  <2>2. a.heard \subseteq OnRelay
    BY <1>1, <2>1 DEF PassedOf
  <2>3. u \in Int /\ u <= at[last] - 1 /\ u <= p.upper - Overlap
    BY <1>4, TimesAreNumbers
  <2> HIDE DEF u
  <2>4. /\ a.through \in {p.from.through, u} /\ p.from.through <= a.through
    BY <1>4, <2>1, <2>3, TimesAreNumbers
  <2>5. a.through \in Times /\ a.through < p.upper
    BY <1>4, <2>3, <2>4, TimesAreNumbers DEF Times
  <2>6. Ordered(a)
    BY <1>3, <1>4, <2>1, <2>2, <2>5 DEF Ordered, Begins
  <2>7. Lags(a, b, a.shrunk)
    <3> SUFFICES ASSUME polled
                 PROVE  \/ a.through <= b \/ a.through <= a.shrunk
                        \/ a.through <= clock - Overlap
      BY DEF Lags
    <3>1. \/ p.from.through <= b \/ p.from.through <= c.shrunk
          \/ p.from.through <= clock - Overlap
      BY DEF Frame, Lags
    <3> QED BY <1>3, <1>4, <2>3, <2>4, <3>1
  <2> QED BY <1>2, <1>3, <1>4, <2>2, <2>5, <2>6, <2>7 DEF a
<1> QED BY <1>5, <1>6

\* c1 is the checkpoint c with the window of p.
WindowSaved(p, c, c1) ==
  /\ c1 \in Checkpoints /\ c1.through = p.from.through /\ c1.upper = p.upper
  /\ c1.after = p.from.after /\ c1.read = NoTime /\ c1.heard \subseteq c.heard
  /\ c.shrunk <= c1.shrunk /\ c.forgot <= c1.forgot
  /\ \A e \in c.heard : ~Undelivered(c1, e) \/ at[e] <= c1.forgot

\* A window read is saved and given; an empty one is done at once.
LEMMA WindowedIs ==
  ASSUME at \in [Posts -> Maybe], NEW p, NEW b \in Int, NEW l,
         NEW c \in Checkpoints, Frame(p, b, c.shrunk)
  PROVE  \E c1 \in Checkpoints :
           LET f == Kept(c1, Finished(p, c1.heard, OverlapNow(l)))
           IN  /\ WindowSaved(p, c, c1)
               /\ p.left # {} => Windowed(p, c, l) = <<[p EXCEPT !.stage = "giving"], c1>>
               /\ p.left = {} => Windowed(p, c, l) = <<Begun(p, f, l), f>>
<1> DEFINE w == [From(p.from.through) EXCEPT !.upper = p.upper, !.after = p.from.after]
           c1 == Kept(c, w)
           f == Kept(c1, Finished(p, c1.heard, OverlapNow(l)))
<1>1. Windowed(p, c, l) = IF p.left # {} THEN <<[p EXCEPT !.stage = "giving"], c1>>
                          ELSE <<Begun(p, f, l), f>>
  BY DEF Windowed
<1>2. /\ p.from.through \in Maybe /\ p.upper \in Maybe /\ p.from.after \in Posts \cup {NoPost}
      /\ p.upper # NoTime
  BY PassFields, CheckpointFields, TimesAreNumbers DEF Frame
<1>3. /\ w \in Checkpoints /\ w.through = p.from.through /\ w.upper = p.upper
      /\ w.read = NoTime /\ w.after = p.from.after /\ w.heard = {}
  BY <1>2, TimesAreNumbers DEF From, Checkpoints
<1>4. Steady(w)
  BY <1>2, <1>3 DEF Steady, Frame
<1> HIDE DEF w
<1>5. Holds(w, c.heard \cup w.heard, c1) /\ c.shrunk <= c1.shrunk /\ c.forgot <= c1.forgot
  BY <1>3, <1>4, KeptHolds
<1> HIDE DEF c1
<1>6. /\ c1 \in Checkpoints /\ c1.through = p.from.through /\ c1.upper = p.upper
      /\ c1.after = p.from.after /\ c1.read = NoTime /\ c1.heard \subseteq c.heard
  BY <1>2, <1>3, <1>5 DEF Holds
<1>7. \A e \in c.heard : ~Undelivered(c1, e) \/ at[e] <= c1.forgot
  BY <1>3, <1>5, <1>6, CheckpointFields, HeardPasses
<1>8. WindowSaved(p, c, c1)
  BY <1>5, <1>6, <1>7 DEF WindowSaved
<1> QED BY <1>1, <1>6, <1>8

\* What follows a window read has the shape of a window, or none.
LEMMA WindowedOK ==
  ASSUME at \in [Posts -> Maybe], clock \in Times, NEW p, NEW b \in Int,
         NEW l \in Links, l.since <= clock, l.covered <= clock,
         NEW c \in Checkpoints, c.heard \subseteq OnRelay, Frame(p, b, c.shrunk),
         p.at <= clock, p.pages > 0 => p.left = {} \/ p.read # {}
  PROVE  LET r == Windowed(p, c, l)
         IN  /\ r[1] \in Passes /\ r[1].at \in {p.at, NoTime}
             /\ r[1].stage \in {"reading", "giving", "done"}
             /\ r[2] \in Checkpoints /\ r[2].through \in Times /\ Ordered(r[2])
             /\ Lags(r[2], b, r[2].shrunk) /\ WindowOK(r[1], r[2], b, r[2].shrunk)
             /\ c.shrunk <= r[2].shrunk
<1> DEFINE ov == OverlapNow(l)
           F(k) == Kept(k, Finished(p, k.heard, ov))
<1>1. PICK c1 \in Checkpoints :
        /\ WindowSaved(p, c, c1)
        /\ p.left # {} => Windowed(p, c, l) = <<[p EXCEPT !.stage = "giving"], c1>>
        /\ p.left = {} => Windowed(p, c, l) = <<Begun(p, F(c1), l), F(c1)>>
  BY WindowedIs
<1>2. /\ c1.heard \subseteq OnRelay /\ c.shrunk <= c1.shrunk /\ c.shrunk \in Int
      /\ c1.shrunk \in Int
  BY <1>1, CheckpointFields, TimesAreNumbers DEF WindowSaved
<1>3. Lags(p.from, b, c1.shrunk)
  BY <1>2, PassFields, CheckpointFields, TimesAreNumbers DEF Frame, Lags
<1>4. Frame(p, b, c1.shrunk)
  BY <1>3 DEF Frame
<1>5. CASE p.left # {}
  <2> DEFINE q == [p EXCEPT !.stage = "giving"]
  <2>1. /\ q \in Passes /\ q.at = p.at /\ q.stage = "giving" /\ q.from = p.from
        /\ q.upper = p.upper /\ q.read = p.read /\ q.left = p.left /\ q.given = p.given
        /\ q.pages = p.pages
    <3>1. p \in Passes
      BY DEF Frame
    <3> QED BY <3>1 DEF Passes
  <2> HIDE DEF q
  <2>2. PICK e \in p.left : TRUE
    BY <1>5
  <2>3. /\ p.from.through < p.upper /\ p.from.through \in Times /\ p.upper # NoTime
        /\ p.read # {}
    <3>1. e \in p.read /\ p.from.through < at[e] /\ at[e] <= p.upper /\ e \in Posts
      BY PassFields DEF Frame
    <3> QED BY <3>1, PostsOrdered, TimesAreNumbers DEF Frame
  <2>4. Ordered(c1)
    BY <1>1, <1>2, <2>3 DEF Ordered, Begins, WindowSaved, Frame
  <2>5. Lags(c1, b, c1.shrunk)
    BY <1>1, <1>3 DEF Lags, WindowSaved
  <2>6. WindowOK(q, c1, b, c1.shrunk)
    BY <1>1, <1>4, <1>5, <2>1, <2>3 DEF WindowOK, Frame, WindowSaved
  <2>7. Windowed(p, c, l) = <<q, c1>>
    BY <1>1, <1>5 DEF q
  <2>8. c1.through \in Times
    BY <1>1, <2>3 DEF WindowSaved
  <2> QED BY <1>2, <2>1, <2>4, <2>5, <2>6, <2>7, <2>8
<1>6. CASE p.left = {}
  <2> DEFINE f == F(c1)
  <2>1. /\ f \in Checkpoints /\ f.through \in Times /\ f.shrunk \in Int
        /\ Ordered(f) /\ Lags(f, b, f.shrunk) /\ c1.shrunk <= f.shrunk
    BY <1>2, <1>4, FinishOK
  <2>2. Windowed(p, c, l) = <<Begun(p, f, l), f>>
    BY <1>1, <1>6
  <2> HIDE DEF f
  <2>3. /\ Begun(p, f, l) \in Passes /\ Begun(p, f, l).at \in {p.at, NoTime}
        /\ Begun(p, f, l).stage \in {"reading", "done"}
        /\ WindowOK(Begun(p, f, l), f, b, f.shrunk)
    BY <2>1, BegunOK DEF Ordered, Frame
  <2>4. c.shrunk <= f.shrunk
    BY <1>2, <2>1
  <2> QED BY <2>1, <2>2, <2>3, <2>4
<1> QED BY <1>5, <1>6

(***************************************************************************)
(* Catching up, and the invariant of shapes.                               *)
(***************************************************************************)
\* A tick or an edit moves the checkpoint to the present.
LEMMA MovedHolds ==
  ASSUME at \in [Posts -> Maybe], clock \in Times, NEW c \in Checkpoints
  PROVE  LET k == Kept(c, From(clock))
         IN  /\ k \in Checkpoints /\ k.through = clock /\ k.upper = NoTime /\ k.read = NoTime
             /\ k.after = NoPost /\ k.heard \subseteq c.heard
             /\ c.shrunk <= k.shrunk /\ c.forgot <= k.forgot
             /\ \A e \in Posts : at[e] <= clock => ~Undelivered(k, e)
<1> DEFINE w == From(clock)
           k == Kept(c, w)
<1>1. /\ w \in Checkpoints /\ Steady(w) /\ w.through = clock /\ w.upper = NoTime
      /\ w.read = NoTime /\ w.after = NoPost /\ w.heard = {}
  BY FromFields, TimesAreNumbers
<1> HIDE DEF w
<1>2. Holds(w, c.heard \cup w.heard, k) /\ c.shrunk <= k.shrunk /\ c.forgot <= k.forgot
  BY <1>1, KeptHolds
<1> HIDE DEF k
<1>3. k \in Checkpoints
  BY <1>2 DEF Holds
<1>4. k.through \in Int /\ clock \in Int /\ 0 <= clock /\ k.read \in Int
  BY <1>3, CheckpointFields, TimesAreNumbers
<1>5. /\ k.through = clock /\ k.upper = NoTime /\ k.read = NoTime /\ k.after = NoPost
      /\ k.heard \subseteq c.heard
  BY <1>1, <1>2, <1>4 DEF Holds, NoTime
<1>6. \A e \in Posts : at[e] <= clock => ~Undelivered(k, e)
  BY <1>4, <1>5, PostsOrdered DEF Undelivered
<1> QED BY <1>2, <1>3, <1>5, <1>6 DEF k, w

\* What catchUp does: nothing is read, the pass goes on or begins a window, or a tick
\* moves the checkpoint and may begin one.
CatchesUpTo(c, l, r, o, old) ==
  LET k == Kept(c, From(clock))
      l1 == [l EXCEPT !.covered = Coverage(l)]
      moves == IF o THEN r.quiet ELSE c.through < clock
      reads == o /\ ~r.quiet /\ l.since # NoTime
      fresh(q) == q \in Passes /\ q.at = clock
  IN  /\ link' = l1 /\ on' = o
      /\ runner' = [r EXCEPT !.quiet = ~o,
                             !.started = IF ~o THEN NoTime ELSE IF r.quiet THEN clock ELSE @]
      /\ base' = IF moves THEN Larger(base, clock) ELSE base
      /\ \/ ~reads /\ pass' = NoPass /\ checkpoint' = IF moves THEN k ELSE c
         \/ reads /\ checkpoint' = c /\ pass' = old
         \/ reads /\ checkpoint' = c /\ old.stage \in {"none", "failed", "done"}
            /\ \E q \in Passes : q.at = clock /\ pass' = Begun(q, c, l1)
         \/ /\ reads /\ checkpoint' = k /\ old.stage = "done"
            /\ l1.covered # NoTime /\ Reached(c) >= Due(l1) /\ c.upper = NoTime
            /\ \/ pass' = old
               \/ \E q \in Passes : q.at = clock /\ pass' = Begun(q, k, l1)

\* It does so.
LEMMA CatchesUpCases ==
  ASSUME clock \in Times, NEW tick, NEW due, NEW c, NEW l, NEW r, NEW o,
         NEW old, CatchesUp(tick, due, c, l, r, o, old)
  PROVE  CatchesUpTo(c, l, r, o, old)
<1> DEFINE k == Kept(c, From(clock))
           l1 == [l EXCEPT !.covered = Coverage(l)]
           moves == IF o THEN r.quiet ELSE c.through < clock
           reads == o /\ ~r.quiet /\ l.since # NoTime
           ticks(x) == l1.covered # NoTime /\ Reached(x) >= Due(l1)
           now == tick /\ reads /\ old.stage = "done" /\ ticks(c) /\ c.upper = NoTime /\ c.through < clock
           c1 == IF moves \/ now THEN k ELSE c
           behind == Reached(c1) < Due(l1)
           first == [NoPass EXCEPT !.at = clock]
           next == [NoPass EXCEPT !.first = FALSE, !.at = clock, !.behind = behind]
<1>1. /\ link' = l1 /\ checkpoint' = c1 /\ on' = o
      /\ runner' = [r EXCEPT !.quiet = ~o,
                             !.started = IF ~o THEN NoTime ELSE IF r.quiet THEN clock ELSE @]
      /\ base' = IF moves THEN Larger(base, clock) ELSE base
      /\ pass' = IF ~reads THEN NoPass
                 ELSE IF old.stage = "none" \/ (old.stage = "failed" /\ due)
                 THEN Begun(first, c1, l1)
                 ELSE IF old.stage = "done" /\ (behind \/ (~ticks(c1) /\ due))
                 THEN Begun(next, c1, l1)
                 ELSE old
  BY DEF CatchesUp
<1>2. first \in Passes /\ first.at = clock /\ next \in Passes /\ next.at = clock
  <2>1. behind \in BOOLEAN
    OBVIOUS
  <2> HIDE DEF behind
  <2>2. first \in Passes /\ first.at = clock
    BY PassFields, TimesAreNumbers DEF Passes
  <2>3. next \in Passes /\ next.at = clock
    BY <2>1, PassFields, TimesAreNumbers DEF Passes
  <2> QED BY <2>2, <2>3
<1> HIDE DEF first, next, k
<1>3. CASE ~reads
  <2>1. checkpoint' = IF moves THEN k ELSE c
    BY <1>1, <1>3
  <2> QED BY <1>1, <1>3, <2>1 DEF CatchesUpTo, k
<1>4. CASE reads /\ ~now
  <2>1. ~moves /\ checkpoint' = c /\ c1 = c
    BY <1>1, <1>4
  <2>2. \/ pass' = old
        \/ /\ old.stage \in {"none", "failed", "done"}
           /\ \E q \in Passes : q.at = clock /\ pass' = Begun(q, c, l1)
    BY <1>1, <1>2, <1>4, <2>1
  <2> QED BY <1>1, <1>4, <2>1, <2>2 DEF CatchesUpTo
<1>5. CASE reads /\ now
  <2>1. ~moves /\ checkpoint' = k /\ c1 = k /\ old.stage = "done"
        /\ l1.covered # NoTime /\ Reached(c) >= Due(l1) /\ c.upper = NoTime
    BY <1>1, <1>5
  <2>2. pass' = old \/ \E q \in Passes : q.at = clock /\ pass' = Begun(q, k, l1)
    BY <1>1, <1>2, <1>5, <2>1
  <2> QED BY <1>1, <1>5, <2>1, <2>2 DEF CatchesUpTo, k
<1> QED BY <1>3, <1>4, <1>5

\* The rest of the state agrees with the clock, the connection and the watch.
Moment ==
  /\ base <= clock /\ runner.started <= base /\ \A e \in Posts : at[e] <= clock
  /\ link.since <= clock /\ link.covered <= clock /\ pass.at <= clock
  /\ link.covered # NoTime => ~polled /\ link.route /\ link.since # NoTime
  /\ ~polled /\ link.route => link.covered # NoTime
  /\ link.since = NoTime => pass.stage = "none" /\ ~link.route
  /\ Window(pass) => alive /\ on
  /\ alive => runner.quiet = ~on
  /\ ~alive => /\ link.since = NoTime /\ ~runner.quiet /\ fly = {}
               /\ runner.seen = {} /\ runner.backlog = {}
  /\ runner.seen \subseteq OnRelay /\ runner.backlog \subseteq runner.seen

Shape ==
  /\ CatchUpTypeOK /\ Moment /\ Ordered(checkpoint)
  /\ Lags(checkpoint, base, checkpoint.shrunk)
  /\ WindowOK(pass, checkpoint, base, checkpoint.shrunk)

\* What is known of events, the clock and the stream is the same after a step that
\* changes none of them.
LEMMA SameShape ==
  ASSUME at' = at, clock' = clock, polled' = polled, Ordered(checkpoint'),
         Lags(checkpoint', base', checkpoint'.shrunk),
         WindowOK(pass', checkpoint', base', checkpoint'.shrunk)
  PROVE  /\ Ordered(checkpoint)' /\ Lags(checkpoint, base, checkpoint.shrunk)'
         /\ WindowOK(pass, checkpoint, base, checkpoint.shrunk)' /\ OnRelay' = OnRelay
<1>1. OnRelay' = OnRelay
  BY DEF OnRelay
<1>2. Ordered(checkpoint)'
  BY <1>1 DEF Ordered, Begins
<1>3. Lags(checkpoint, base, checkpoint.shrunk)'
  BY DEF Lags
<1>4. WindowOK(pass, checkpoint, base, checkpoint.shrunk)'
  BY <1>1 DEF WindowOK, Frame, Window, Lags, Undelivered, Before
<1> QED BY <1>1, <1>2, <1>3, <1>4

\* catchUp keeps the shapes.
LEMMA CatchesUpOK ==
  ASSUME at \in [Posts -> Maybe], clock \in Times, base \in Times, base <= clock,
         NEW c \in Checkpoints, c.through \in Times, Ordered(c), Lags(c, base, c.shrunk),
         NEW l \in Links, l.since <= clock, l.covered <= clock, l.since = NoTime => ~l.route,
         NEW r \in Runners, r.started <= base, NEW o \in BOOLEAN,
         NEW old \in Passes, old.at <= clock, WindowOK(old, c, base, c.shrunk),
         CatchesUpTo(c, l, r, o, old)
  PROVE  /\ checkpoint' \in Checkpoints /\ checkpoint'.through \in Times
         /\ Ordered(checkpoint') /\ Lags(checkpoint', base', checkpoint'.shrunk)
         /\ WindowOK(pass', checkpoint', base', checkpoint'.shrunk)
         /\ pass' \in Passes /\ pass'.at <= clock /\ base' \in Times /\ base' <= clock
         /\ base <= base' /\ c.shrunk <= checkpoint'.shrunk
         /\ link' \in Links /\ link'.since = l.since /\ link'.route = l.route
         /\ link'.covered <= clock
         /\ link'.covered # NoTime => ~polled /\ l.route /\ l.since # NoTime
         /\ ~polled /\ l.route => link'.covered # NoTime
         /\ l.since = NoTime => pass'.stage = "none"
         /\ Window(pass') => o
         /\ runner' \in Runners /\ runner'.quiet = ~o /\ runner'.started <= base'
         /\ runner'.seen = r.seen /\ runner'.backlog = r.backlog /\ runner'.start = r.start
<1> DEFINE k == Kept(c, From(clock))
           l1 == [l EXCEPT !.covered = Coverage(l)]
           moves == IF o THEN r.quiet ELSE c.through < clock
           reads == o /\ ~r.quiet /\ l.since # NoTime
<1>1. /\ link' = l1 /\ base' = IF moves THEN Larger(base, clock) ELSE base
      /\ runner' = [r EXCEPT !.quiet = ~o,
                             !.started = IF ~o THEN NoTime ELSE IF r.quiet THEN clock ELSE @]
      /\ \/ ~reads /\ pass' = NoPass /\ checkpoint' = IF moves THEN k ELSE c
         \/ reads /\ checkpoint' = c /\ pass' = old
         \/ reads /\ checkpoint' = c /\ \E q \in Passes : q.at = clock /\ pass' = Begun(q, c, l1)
         \/ /\ reads /\ checkpoint' = k /\ l1.covered # NoTime /\ old.stage = "done"
            /\ \/ pass' = old
               \/ \E q \in Passes : q.at = clock /\ pass' = Begun(q, k, l1)
  BY DEF CatchesUpTo
<1>2. /\ l1 \in Links /\ l1.since = l.since /\ l1.route = l.route /\ l1.covered = Coverage(l)
      /\ Coverage(l) \in Maybe /\ Coverage(l) <= clock
      /\ Coverage(l) # NoTime => ~polled /\ l.route /\ l.since # NoTime
      /\ ~polled /\ l.route => Coverage(l) # NoTime
  <2>1. /\ Coverage(l) \in Maybe /\ Coverage(l) <= clock
        /\ Coverage(l) # NoTime => ~polled /\ l.route /\ l.since # NoTime
        /\ ~polled /\ l.route => Coverage(l) # NoTime
    BY CoverageIsTime
  <2> QED BY <2>1 DEF Links
<1>3. /\ k \in Checkpoints /\ k.through = clock /\ k.upper = NoTime /\ k.read = NoTime
      /\ k.after = NoPost /\ k.heard \subseteq c.heard /\ c.shrunk <= k.shrunk
  BY MovedHolds
<1> HIDE DEF k, l1
<1>4. Ordered(k)
  BY <1>3 DEF Ordered, Begins
<1>5. /\ base' \in Times /\ base' <= clock /\ base <= base' /\ (moves => base' = clock)
      /\ (~moves => base' = base)
  <2>1. clock \in Int /\ base \in Int /\ clock \in Times
    BY TimesAreNumbers
  <2>2. Larger(base, clock) = clock
    BY <2>1 DEF Larger
  <2> HIDE DEF moves
  <2> QED BY <1>1, <2>1, <2>2
<1>6. runner' \in Runners /\ runner'.quiet = ~o /\ runner'.started <= base'
      /\ runner'.seen = r.seen /\ runner'.backlog = r.backlog /\ runner'.start = r.start
  <2> DEFINE s == IF ~o THEN NoTime ELSE IF r.quiet THEN clock ELSE r.started
  <2>1. r.started \in Maybe /\ r.started \in Int /\ base' \in Int
    BY <1>5, TimesAreNumbers DEF Runners
  <2>2. s \in Maybe /\ s <= base'
    BY <1>5, <2>1, TimesAreNumbers
  <2>3. runner' = [r EXCEPT !.quiet = ~o, !.started = s]
    BY <1>1 DEF Runners
  <2> HIDE DEF s
  <2> QED BY <2>2, <2>3 DEF Runners
<1>7. c.shrunk \in Int /\ c.shrunk <= c.shrunk
  BY CheckpointFields, TimesAreNumbers
<1>8. CASE ~reads /\ pass' = NoPass /\ checkpoint' = IF moves THEN k ELSE c
  <2>1. pass' \in Passes /\ pass'.at <= clock /\ ~Window(pass') /\ pass'.stage = "none"
    BY <1>8, PassFields, TimesAreNumbers
  <2>2. WindowOK(pass', checkpoint', base', checkpoint'.shrunk)
    BY <2>1 DEF WindowOK
  <2>3. moves => Lags(k, base', k.shrunk)
    BY <1>3, <1>5, TimesAreNumbers DEF Lags
  <2>4. ~moves => base' = base
    BY <1>5
  <2> HIDE DEF moves, reads
  <2> QED BY <1>1, <1>2, <1>3, <1>4, <1>5, <1>6, <1>7, <1>8, <2>1, <2>2, <2>3, <2>4
<1>9. CASE reads /\ checkpoint' = c /\ pass' = old
  <2>1. base' = base
    BY <1>5, <1>9
  <2> QED BY <1>1, <1>2, <1>5, <1>6, <1>7, <1>9, <2>1
<1>10. CASE reads /\ checkpoint' = c /\ \E q \in Passes : q.at = clock /\ pass' = Begun(q, c, l1)
  <2>1. base' = base
    BY <1>5, <1>10
  <2>2. PICK q \in Passes : q.at = clock /\ pass' = Begun(q, c, l1)
    BY <1>10
  <2>3. q.at <= clock
    BY <2>2, TimesAreNumbers
  <2>4. /\ pass' \in Passes /\ pass'.at \in {q.at, NoTime} /\ pass'.stage \in {"reading", "done"}
        /\ WindowOK(pass', c, base, c.shrunk)
    BY <1>2, <2>2, <2>3, BegunOK DEF Ordered
  <2> QED BY <1>1, <1>2, <1>5, <1>6, <1>7, <1>10, <2>1, <2>2, <2>4, TimesAreNumbers
<1>11. CASE /\ reads /\ checkpoint' = k /\ l1.covered # NoTime /\ old.stage = "done"
            /\ \/ pass' = old
               \/ \E q \in Passes : q.at = clock /\ pass' = Begun(q, k, l1)
  <2>1. base' = base /\ ~polled
    BY <1>2, <1>5, <1>11
  <2>2. Lags(k, base', k.shrunk)
    BY <2>1 DEF Lags
  <2>3. CASE pass' = old
    <3>1. WindowOK(pass', checkpoint', base', checkpoint'.shrunk)
      BY <1>11, <2>3 DEF WindowOK, Window
    <3> QED BY <1>1, <1>2, <1>3, <1>4, <1>5, <1>6, <1>11, <2>1, <2>2, <2>3, <3>1
  <2>4. CASE \E q \in Passes : q.at = clock /\ pass' = Begun(q, k, l1)
    <3>1. PICK q \in Passes : q.at = clock /\ pass' = Begun(q, k, l1)
      BY <2>4
    <3>2. q.at <= clock /\ k.through \in Times /\ Begins(k) /\ Lags(k, base', k.shrunk)
      BY <1>3, <1>4, <2>2, <3>1, TimesAreNumbers DEF Ordered
    <3>3. /\ pass' \in Passes /\ pass'.at \in {q.at, NoTime}
          /\ pass'.stage \in {"reading", "done"} /\ WindowOK(pass', k, base', k.shrunk)
      BY <1>2, <1>3, <3>1, <3>2, BegunOK
    <3> QED BY <1>1, <1>2, <1>3, <1>4, <1>5, <1>6, <1>11, <2>1, <2>2, <3>1, <3>3, TimesAreNumbers
  <2> QED BY <1>11, <2>3, <2>4
<1> QED BY <1>1, <1>8, <1>9, <1>10, <1>11

\* The state's parts, for the steps that change few of them.
LEMMA ShapeParts ==
  ASSUME Shape
  PROVE  /\ at \in [Posts -> Maybe] /\ clock \in Times /\ base \in Times /\ base <= clock
         /\ clock \in Int /\ base \in Int /\ 0 <= base /\ 0 <= clock /\ clock <= MaxClock
         /\ checkpoint \in Checkpoints /\ checkpoint.through \in Times
         /\ checkpoint.heard \subseteq OnRelay /\ checkpoint.shrunk \in Int
         /\ link \in Links /\ link.since <= clock /\ link.covered <= clock
         /\ runner \in Runners /\ runner.started <= base /\ runner.seen \subseteq OnRelay
         /\ runner.backlog \subseteq runner.seen
         /\ pass \in Passes /\ pass.at <= clock /\ pass.at \in Int
         /\ OnRelay \subseteq Posts /\ \A e \in Posts : at[e] <= clock
         /\ polled \in BOOLEAN /\ on \in BOOLEAN /\ alive \in BOOLEAN
<1>1. checkpoint.through \in Maybe /\ checkpoint.through # NoTime /\ checkpoint.shrunk \in Maybe
  BY CheckpointFields DEF Shape, CatchUpTypeOK
<1>2. checkpoint.through \in Times /\ checkpoint.shrunk \in Int
  BY <1>1, TimesAreNumbers
<1>3. pass.at \in Int /\ clock \in Int /\ base \in Int /\ 0 <= base /\ 0 <= clock /\ clock <= MaxClock
  BY PassFields, TimesAreNumbers DEF Shape, CatchUpTypeOK
<1> QED BY <1>2, <1>3 DEF Shape, CatchUpTypeOK, Moment, Ordered, Begins, OnRelay

\* Steps that catch up, with the checkpoint c, the connection l and the runner r.
LEMMA ShapeCatchesUp ==
  ASSUME Shape, NEW c \in Checkpoints, c.through \in Times, Ordered(c), Lags(c, base, c.shrunk),
         NEW l \in Links, l.since <= clock, l.covered <= clock, l.since = NoTime => ~l.route,
         NEW r \in Runners, r.started <= base, r.seen \subseteq OnRelay,
         r.backlog \subseteq r.seen, NEW o \in BOOLEAN,
         NEW old \in Passes, old.at <= clock, WindowOK(old, c, base, c.shrunk),
         CatchesUpTo(c, l, r, o, old),
         at' = at, clock' = clock, polled' = polled, taken' = taken, alive' = TRUE,
         fly' \subseteq fly, owed' \cup lost' \subseteq OnRelay, upsets' \in 0..MaxUpsets
  PROVE  Shape'
<1>1. /\ checkpoint' \in Checkpoints /\ checkpoint'.through \in Times
      /\ Ordered(checkpoint') /\ Lags(checkpoint', base', checkpoint'.shrunk)
      /\ WindowOK(pass', checkpoint', base', checkpoint'.shrunk)
      /\ pass' \in Passes /\ pass'.at <= clock /\ base' \in Times /\ base' <= clock
      /\ link' \in Links /\ link'.since = l.since /\ link'.route = l.route
      /\ link'.covered <= clock
      /\ link'.covered # NoTime => ~polled /\ l.route /\ l.since # NoTime
      /\ ~polled /\ l.route => link'.covered # NoTime
      /\ l.since = NoTime => pass'.stage = "none"
      /\ Window(pass') => o
      /\ runner' \in Runners /\ runner'.quiet = ~o /\ runner'.started <= base'
      /\ runner'.seen = r.seen /\ runner'.backlog = r.backlog
  BY ShapeParts, CatchesUpOK
<1>2. /\ Ordered(checkpoint)' /\ Lags(checkpoint, base, checkpoint.shrunk)'
      /\ WindowOK(pass, checkpoint, base, checkpoint.shrunk)' /\ OnRelay' = OnRelay
  BY <1>1, SameShape
<1>3. on' = o
  BY DEF CatchesUpTo
<1>4. CatchUpTypeOK'
  BY <1>1, <1>2, <1>3, TimesAreNumbers DEF CatchUpTypeOK, Shape
<1>5. Moment'
  BY <1>1, <1>2, <1>3, ShapeParts DEF Moment, Window
<1> QED BY <1>2, <1>4, <1>5 DEF Shape

\* What is on its way or waits is on the relay.
LEMMA ComingOnRelay ==
  ASSUME Shape
  PROVE  Unheard \subseteq OnRelay /\ runner.backlog \subseteq OnRelay /\ Coming \subseteq OnRelay
BY ShapeParts DEF Shape, CatchUpTypeOK, Unheard, Coming

\* What the stream has gone past of S is owed or lost.
LEMMA LeavesFields ==
  ASSUME NEW S, Leaves(S)
  PROVE  /\ owed \subseteq owed' /\ lost \subseteq lost'
         /\ owed' \cup lost' \subseteq owed \cup lost \cup S
         /\ \A e \in S : Behind(e)' => e \in owed' \cup lost'
         /\ \A e \in owed' : e \in owed \/ Replayable(e)'
<1> DEFINE behind == {e \in S : Behind(e)'}
           replayed == {e \in behind : Replayable(e)'}
<1>1. owed' = owed \cup replayed /\ lost' = lost \cup (behind \ replayed)
  BY DEF Leaves
<1> QED BY <1>1

\* The connection's steps, ticks and edits.
LEMMA ShapeLink ==
  ASSUME Shape, LinkMade \/ LinkDrops \/ RouteLive \/ RouteDrops
  PROVE  Shape'
<1> USE ShapeParts
<1>0. /\ Ordered(checkpoint) /\ Lags(checkpoint, base, checkpoint.shrunk)
      /\ WindowOK(pass, checkpoint, base, checkpoint.shrunk) /\ on \in BOOLEAN
      /\ owed \cup lost \subseteq OnRelay /\ upsets \in 0..MaxUpsets /\ runner.quiet \in BOOLEAN
      /\ NoTime <= clock /\ clock <= clock /\ clock \in Maybe /\ clock # NoTime /\ NoTime \in Maybe
      /\ link.since = NoTime => ~link.route
  BY TimesAreNumbers DEF Shape, CatchUpTypeOK, Moment, Runners
<1>1. CASE LinkMade
  <2>1. PICK route \in BOOLEAN :
          CatchesUp(FALSE, FALSE, checkpoint, [since |-> clock, route |-> route, covered |-> NoTime],
                    runner, on, pass)
    BY <1>1 DEF LinkMade
  <2> DEFINE l == [since |-> clock, route |-> route, covered |-> NoTime]
  <2>2. l \in Links /\ l.since = clock /\ l.covered = NoTime
    BY <1>0 DEF Links
  <2> HIDE DEF l
  <2>3. CatchesUpTo(checkpoint, l, runner, on, pass)
    BY <1>0, <2>1, CatchesUpCases DEF l
  <2>4. /\ at' = at /\ clock' = clock /\ polled' = polled /\ taken' = taken /\ alive' = TRUE
        /\ fly' \subseteq fly /\ owed' \cup lost' \subseteq OnRelay /\ upsets' \in 0..MaxUpsets
    BY <1>0, <1>1 DEF LinkMade
  <2> QED BY <1>0, <2>2, <2>3, <2>4, ShapeCatchesUp
<1>2. CASE LinkDrops
  <2> DEFINE l == [since |-> NoTime, route |-> FALSE, covered |-> NoTime]
  <2>1. CatchesUp(FALSE, FALSE, checkpoint, l, runner, on, pass)
    BY <1>2 DEF LinkDrops
  <2>2. l \in Links /\ l.since = NoTime /\ l.covered = NoTime /\ ~l.route
    BY <1>0 DEF Links
  <2> HIDE DEF l
  <2>3. CatchesUpTo(checkpoint, l, runner, on, pass)
    BY <1>0, <2>1, CatchesUpCases
  <2>4. /\ at' = at /\ clock' = clock /\ polled' = polled /\ taken' = taken /\ alive' = TRUE
        /\ fly' \subseteq fly /\ owed' \cup lost' \subseteq OnRelay
    BY <1>0, <1>2, ComingOnRelay, LeavesFields DEF LinkDrops
  <2>5. upsets' \in 0..MaxUpsets
    BY <1>0, <1>2, CatchUpAssumption DEF LinkDrops, Upset
  <2> QED BY <1>0, <2>2, <2>3, <2>4, <2>5, ShapeCatchesUp
<1>3. CASE RouteLive
  <2> DEFINE l == [link EXCEPT !.route = TRUE]
  <2>1. PICK due \in BOOLEAN : CatchesUp(FALSE, due, checkpoint, l, runner, on, pass)
    BY <1>3 DEF RouteLive
  <2>2. l \in Links /\ l.since = link.since /\ l.covered = link.covered /\ link.since # NoTime
    BY <1>3 DEF Links, RouteLive
  <2> HIDE DEF l
  <2>3. CatchesUpTo(checkpoint, l, runner, on, pass)
    BY <1>0, <2>1, CatchesUpCases
  <2>4. /\ at' = at /\ clock' = clock /\ polled' = polled /\ taken' = taken /\ alive' = TRUE
        /\ fly' \subseteq fly /\ owed' \cup lost' \subseteq OnRelay /\ upsets' \in 0..MaxUpsets
    BY <1>0, <1>3 DEF RouteLive
  <2> QED BY <1>0, <2>2, <2>3, <2>4, ShapeCatchesUp
<1>4. CASE RouteDrops
  <2> DEFINE l == [link EXCEPT !.route = FALSE]
  <2>1. PICK due \in BOOLEAN : CatchesUp(FALSE, due, checkpoint, l, runner, on, pass)
    BY <1>4 DEF RouteDrops
  <2>2. l \in Links /\ l.since = link.since /\ l.covered = link.covered /\ ~l.route
    BY <1>4 DEF Links
  <2> HIDE DEF l
  <2>3. CatchesUpTo(checkpoint, l, runner, on, pass)
    BY <1>0, <2>1, CatchesUpCases
  <2>4. /\ at' = at /\ clock' = clock /\ polled' = polled /\ taken' = taken /\ alive' = TRUE
        /\ fly' \subseteq fly /\ owed' \cup lost' \subseteq OnRelay
    BY <1>0, <1>4, ComingOnRelay, LeavesFields DEF RouteDrops
  <2>5. upsets' \in 0..MaxUpsets
    BY <1>0, <1>4, CatchUpAssumption DEF RouteDrops, Upset
  <2> QED BY <1>0, <2>2, <2>3, <2>4, <2>5, ShapeCatchesUp
<1> QED BY <1>1, <1>2, <1>3, <1>4

\* Ticks and edits.
LEMMA ShapeTicks ==
  ASSUME Shape, Edits \/ \E due \in BOOLEAN : Ticks(due)
  PROVE  Shape'
<1> USE ShapeParts
<1>0. /\ Ordered(checkpoint) /\ Lags(checkpoint, base, checkpoint.shrunk)
      /\ WindowOK(pass, checkpoint, base, checkpoint.shrunk) /\ on \in BOOLEAN
      /\ owed \cup lost \subseteq OnRelay /\ upsets \in 0..MaxUpsets /\ runner.quiet \in BOOLEAN
      /\ link.since = NoTime => ~link.route
  BY DEF Shape, CatchUpTypeOK, Moment, Runners
<1>1. CASE \E due \in BOOLEAN : Ticks(due)
  <2>1. PICK due \in BOOLEAN : Ticks(due)
    BY <1>1
  <2>2. CatchesUp(TRUE, due, checkpoint, link, runner, on, pass)
    BY <2>1 DEF Ticks
  <2>3. CatchesUpTo(checkpoint, link, runner, on, pass)
    BY <1>0, <2>2, CatchesUpCases
  <2>4. /\ at' = at /\ clock' = clock /\ polled' = polled /\ taken' = taken /\ alive' = TRUE
        /\ fly' \subseteq fly /\ owed' \cup lost' \subseteq OnRelay /\ upsets' \in 0..MaxUpsets
    BY <1>0, <2>1 DEF Ticks
  <2> QED BY <1>0, <2>3, <2>4, ShapeCatchesUp
<1>2. CASE Edits
  <2>1. PICK o \in BOOLEAN : CatchesUp(FALSE, FALSE, checkpoint, link, runner, o, NoPass)
    BY <1>2 DEF Edits
  <2>2. CatchesUpTo(checkpoint, link, runner, o, NoPass)
    BY <1>0, <2>1, CatchesUpCases
  <2>3. /\ at' = at /\ clock' = clock /\ polled' = polled /\ taken' = taken /\ alive' = TRUE
        /\ fly' \subseteq fly /\ owed' \cup lost' \subseteq OnRelay
    BY <1>0, <1>2 DEF Edits
  <2>4. upsets' \in 0..MaxUpsets
    BY <1>0, <1>2, CatchUpAssumption DEF Edits, Upset
  <2>5. NoPass \in Passes /\ NoPass.at <= clock
        /\ WindowOK(NoPass, checkpoint, base, checkpoint.shrunk)
    BY PassFields, TimesAreNumbers DEF WindowOK
  <2> QED BY <1>0, <2>2, <2>3, <2>4, <2>5, ShapeCatchesUp
<1> QED BY <1>1, <1>2

(***************************************************************************)
(* Pages. A window ends with all it read, or is cut above the oldest       *)
(* second it reached.                                                      *)
(***************************************************************************)
PendingOf(p, S) == {e \in S : Undelivered(p.from, e)}
PageOf(p) == {e \in Below(p) : Cardinality({d \in Below(p) : Newer(d, e)}) < PageSize}
ReachedBy(p) == CHOOSE t \in {at[e] : e \in p.read} : \A e \in p.read : t <= at[e]
WholeOf(p) == {e \in p.read : at[e] > ReachedBy(p)}
EndedOf(p) == [p EXCEPT !.left = PendingOf(p, p.read)]
CutOf(p) == [p EXCEPT !.left = PendingOf(p, WholeOf(p)), !.read = WholeOf(p),
                      !.from.through = Larger(ReachedBy(p), @),
                      !.from.after = IF @ # NoPost /\ at[@] > ReachedBy(p) THEN @ ELSE NoPost]

\* A page ends the window, cuts it, or is one more.
LEMMA PageCases ==
  ASSUME PageArrives
  PROVE  /\ pass.stage = "reading"
         /\ UNCHANGED <<polled, clock, at, fly, on, alive, link, runner, taken, owed, lost, upsets>>
         /\ \/ /\ Below(pass) = {} /\ base' = base
               /\ pass' = Windowed(EndedOf(pass), checkpoint, link)[1]
               /\ checkpoint' = Windowed(EndedOf(pass), checkpoint, link)[2]
            \/ /\ Below(pass) # {} /\ pass.pages > 0 /\ base' = Larger(base, ReachedBy(pass))
               /\ pass' = Windowed(CutOf(pass), checkpoint, link)[1]
               /\ checkpoint' = Windowed(CutOf(pass), checkpoint, link)[2]
            \/ /\ Below(pass) # {} /\ pass.pages < MaxPages
               /\ pass' = [pass EXCEPT !.read = @ \cup PageOf(pass), !.pages = @ + 1]
               /\ checkpoint' = checkpoint /\ base' = base
BY DEF PageArrives, EndedOf, CutOf, PendingOf, PageOf, ReachedBy, WholeOf

\* A window at its end.
LEMMA EndedFrame ==
  ASSUME at \in [Posts -> Maybe], NEW p, NEW b, NEW s, Frame(p, b, s), p.given = {}
  PROVE  LET q == EndedOf(p)
         IN  /\ Frame(q, b, s) /\ q.stage = p.stage /\ q.at = p.at /\ q.from = p.from
             /\ q.upper = p.upper /\ q.read = p.read /\ q.given = {} /\ q.pages = p.pages
             /\ q.left = PendingOf(p, p.read)
<1> DEFINE q == EndedOf(p)
<1>1. p \in Passes /\ p.read \in SUBSET Posts /\ PendingOf(p, p.read) \subseteq p.read
  BY PassFields DEF Frame, PendingOf
<1>2. /\ q \in Passes /\ q.stage = p.stage /\ q.at = p.at /\ q.from = p.from
      /\ q.upper = p.upper /\ q.read = p.read /\ q.given = {} /\ q.pages = p.pages
      /\ q.left = PendingOf(p, p.read)
  BY <1>1 DEF EndedOf, Passes
<1> HIDE DEF q
<1>3. \A e \in PendingOf(p, p.read) : Undelivered(p.from, e)
  BY DEF PendingOf
<1>4. Frame(q, b, s)
  BY <1>1, <1>2, <1>3 DEF Frame, Lags
<1> QED BY <1>2, <1>4 DEF q

\* The oldest second a window reached.
LEMMA ReachedIs ==
  ASSUME at \in [Posts -> Maybe], NEW p, NEW b, NEW s, Frame(p, b, s), p.read # {}
  PROVE  /\ ReachedBy(p) \in Times /\ ReachedBy(p) \in Int /\ ReachedBy(p) \in Maybe
         /\ ReachedBy(p) <= p.upper /\ p.from.through < ReachedBy(p)
         /\ \A e \in p.read : ReachedBy(p) <= at[e]
         /\ \E e \in p.read : ReachedBy(p) = at[e]
<1>1. /\ p.read \in SUBSET Posts /\ p.read \subseteq OnRelay
      /\ \A e \in p.read : p.from.through < at[e] /\ at[e] <= p.upper
  BY PassFields DEF Frame
<1>2. PICK x \in p.read : \A d \in p.read : ~Before(d, x)
  BY <1>1, FirstOf
<1>3. \A d \in p.read : at[x] <= at[d]
  BY <1>1, <1>2, BeforeOrders, PostsOrdered
<1>4. ReachedBy(p) \in {at[e] : e \in p.read} /\ \A e \in p.read : ReachedBy(p) <= at[e]
  <2>1. \E u \in {at[e] : e \in p.read} : \A e \in p.read : u <= at[e]
    BY <1>3
  <2> QED BY <2>1 DEF ReachedBy
<1>5. PICK y \in p.read : ReachedBy(p) = at[y]
  BY <1>4
<1> QED BY <1>1, <1>4, <1>5, PostsOrdered, TimesAreNumbers

\* A window cut.
LEMMA CutFrame ==
  ASSUME at \in [Posts -> Maybe], NEW p, NEW b, NEW s, Frame(p, b, s), p.given = {},
         p.read # {}, NEW b1 \in Int, ReachedBy(p) <= b1
  PROVE  LET q == CutOf(p)
         IN  /\ Frame(q, b1, s) /\ q.stage = p.stage /\ q.at = p.at /\ q.upper = p.upper
             /\ q.from.through = ReachedBy(p) /\ q.from.after = NoPost
             /\ q.from.heard = p.from.heard /\ q.given = {} /\ q.pages = p.pages
             /\ q.read = WholeOf(p) /\ q.left = PendingOf(p, WholeOf(p))
<1> DEFINE q == CutOf(p)
           t == ReachedBy(p)
           f == [p.from EXCEPT !.through = Larger(t, @),
                               !.after = IF @ # NoPost /\ at[@] > t THEN @ ELSE NoPost]
<1>1. /\ p \in Passes /\ p.read \in SUBSET Posts /\ p.from \in Checkpoints
      /\ p.from.after \in Posts \cup {NoPost} /\ p.read \subseteq OnRelay
      /\ \A e \in p.read : p.from.through < at[e] /\ at[e] <= p.upper
      /\ p.from.through \in Int /\ p.from.heard \subseteq OnRelay
  BY PassFields, CheckpointFields, TimesAreNumbers DEF Frame
<1>2. /\ t \in Times /\ t \in Int /\ t \in Maybe /\ t <= p.upper /\ p.from.through < t
      /\ \A e \in p.read : t <= at[e]
  BY ReachedIs
<1> HIDE DEF t
<1>7. Larger(t, p.from.through) = t
  BY <1>1, <1>2 DEF Larger
<1>8. ~(p.from.after # NoPost /\ at[p.from.after] > t)
  BY <1>1, <1>2 DEF Frame
<1>9. f = [p.from EXCEPT !.through = t, !.after = NoPost]
  BY <1>1, <1>7, <1>8 DEF Checkpoints
<1>10. f \in Checkpoints /\ f.through = t /\ f.after = NoPost /\ f.heard = p.from.heard
  BY <1>1, <1>2, <1>9 DEF Checkpoints
<1> HIDE DEF f
<1>11. q = [p EXCEPT !.left = PendingOf(p, WholeOf(p)), !.read = WholeOf(p), !.from = f]
  BY <1>1 DEF CutOf, f, t, Passes, Checkpoints
<1>12. WholeOf(p) \subseteq p.read /\ PendingOf(p, WholeOf(p)) \subseteq WholeOf(p)
  BY DEF WholeOf, PendingOf
<1>13. /\ q \in Passes /\ q.stage = p.stage /\ q.at = p.at /\ q.from = f
       /\ q.upper = p.upper /\ q.read = WholeOf(p) /\ q.given = {} /\ q.pages = p.pages
       /\ q.left = PendingOf(p, WholeOf(p))
  BY <1>1, <1>10, <1>11, <1>12 DEF Passes
<1> HIDE DEF q
<1>14. \A e \in q.read : t < at[e]
  BY <1>1, <1>2, <1>13, PostsOrdered DEF WholeOf, t
<1>15. \A e \in q.left : Undelivered(f, e)
  BY <1>10, <1>12, <1>13, <1>14 DEF PendingOf, Undelivered
<1>16. Lags(f, b1, s)
  BY <1>10 DEF Lags, t
<1>17. Frame(q, b1, s)
  BY <1>1, <1>2, <1>10, <1>12, <1>13, <1>14, <1>15, <1>16 DEF Frame
<1> QED BY <1>10, <1>13, <1>17 DEF q, t

\* A page keeps the shape.
LEMMA ShapePage ==
  ASSUME Shape, PageArrives
  PROVE  Shape'
<1> DEFINE s == checkpoint.shrunk
<1>0. /\ at \in [Posts -> Maybe] /\ clock \in Times /\ base \in Times /\ base <= clock
      /\ base \in Int /\ clock \in Int /\ checkpoint \in Checkpoints
      /\ checkpoint.heard \subseteq OnRelay /\ s \in Int
      /\ link \in Links /\ link.since <= clock /\ link.covered <= clock
      /\ pass \in Passes /\ pass.at <= clock
  BY ShapeParts
<1>1. /\ pass.stage = "reading"
      /\ UNCHANGED <<polled, clock, at, fly, on, alive, link, runner, taken, owed, lost, upsets>>
  BY PageCases
<1>2. /\ Frame(pass, base, s) /\ pass.given = {} /\ pass.left = {}
      /\ pass.pages > 0 => pass.read # {}
      /\ pass.from.through < pass.upper
      /\ alive /\ on /\ link.since # NoTime
  BY <1>1 DEF Shape, WindowOK, Window, Moment
<1>3. SUFFICES /\ pass' \in Passes /\ pass'.at <= clock
               /\ checkpoint' \in Checkpoints /\ checkpoint'.through \in Times
               /\ Ordered(checkpoint') /\ Lags(checkpoint', base', checkpoint'.shrunk)
               /\ WindowOK(pass', checkpoint', base', checkpoint'.shrunk)
               /\ base' \in Times /\ base' <= clock /\ base <= base'
  <2>1. /\ Ordered(checkpoint)' /\ Lags(checkpoint, base, checkpoint.shrunk)'
        /\ WindowOK(pass, checkpoint, base, checkpoint.shrunk)' /\ OnRelay' = OnRelay
    BY <1>1, <1>3, SameShape
  <2>2. CatchUpTypeOK'
    BY <1>1, <1>3, <2>1, TimesAreNumbers DEF CatchUpTypeOK, Shape
  <2>3. runner.started \in Int /\ base' \in Int
    BY <1>3, ShapeParts, TimesAreNumbers DEF Runners
  <2>4. Moment'
    BY <1>0, <1>1, <1>2, <1>3, <2>1, <2>3 DEF Moment, Shape, Window
  <2> QED BY <2>1, <2>2, <2>4 DEF Shape
<1>4. CASE /\ Below(pass) = {} /\ base' = base
           /\ pass' = Windowed(EndedOf(pass), checkpoint, link)[1]
           /\ checkpoint' = Windowed(EndedOf(pass), checkpoint, link)[2]
  <2> DEFINE q == EndedOf(pass)
  <2>1. /\ Frame(q, base, s) /\ q.at = pass.at /\ q.read = pass.read /\ q.pages = pass.pages
    BY <1>0, <1>2, EndedFrame
  <2> HIDE DEF q
  <2> DEFINE r == Windowed(q, checkpoint, link)
  <2>2. /\ r[1] \in Passes /\ r[1].at \in {pass.at, NoTime}
        /\ r[2] \in Checkpoints /\ r[2].through \in Times /\ Ordered(r[2])
        /\ Lags(r[2], base, r[2].shrunk) /\ WindowOK(r[1], r[2], base, r[2].shrunk)
    BY <1>0, <1>2, <2>1, WindowedOK
  <2>3. pass' = r[1] /\ checkpoint' = r[2] /\ base' = base
    BY <1>4 DEF q
  <2> HIDE DEF r
  <2> QED BY <1>0, <2>2, <2>3, TimesAreNumbers
<1>5. CASE /\ Below(pass) # {} /\ pass.pages > 0 /\ base' = Larger(base, ReachedBy(pass))
           /\ pass' = Windowed(CutOf(pass), checkpoint, link)[1]
           /\ checkpoint' = Windowed(CutOf(pass), checkpoint, link)[2]
  <2> DEFINE q == CutOf(pass)
             t == ReachedBy(pass)
  <2>1. t \in Times /\ t <= pass.upper /\ pass.upper <= clock /\ pass.upper \in Int /\ t \in Int
    <3>1. t \in Times /\ t <= pass.upper
      BY <1>0, <1>2, <1>5, TimesAreNumbers, ReachedIs
    <3> QED BY <3>1, <1>2, TimesAreNumbers DEF Frame
  <2>2. base' \in {base, t} /\ base <= base' /\ t <= base'
    BY <1>0, <1>5, <2>1, TimesAreNumbers
  <2>3. base' \in Times /\ base' \in Int /\ base' <= clock
    BY <1>0, <2>1, <2>2
  <2>4. Frame(q, base', s) /\ q.at = pass.at
    BY <1>0, <1>2, <1>5, <2>2, <2>3, CutFrame
  <2> HIDE DEF q, t
  <2>5. q.left = {} \/ q.read # {}
    BY <2>4 DEF Frame
  <2> DEFINE r == Windowed(q, checkpoint, link)
  <2>6. /\ r[1] \in Passes /\ r[1].at \in {pass.at, NoTime}
        /\ r[2] \in Checkpoints /\ r[2].through \in Times /\ Ordered(r[2])
        /\ Lags(r[2], base', r[2].shrunk) /\ WindowOK(r[1], r[2], base', r[2].shrunk)
    BY <1>0, <2>3, <2>4, <2>5, WindowedOK
  <2>7. pass' = r[1] /\ checkpoint' = r[2]
    BY <1>5 DEF q
  <2> HIDE DEF r
  <2> QED BY <1>0, <2>2, <2>3, <2>6, <2>7, TimesAreNumbers
<1>6. CASE /\ Below(pass) # {} /\ pass.pages < MaxPages
           /\ pass' = [pass EXCEPT !.read = @ \cup PageOf(pass), !.pages = @ + 1]
           /\ checkpoint' = checkpoint /\ base' = base
  <2>1. /\ PageOf(pass) \subseteq Below(pass) /\ Below(pass) \subseteq OnRelay
        /\ PageOf(pass) \subseteq OnRelay /\ PageOf(pass) # {} /\ OnRelay \subseteq Posts
    <3>1. Below(pass) \subseteq OnRelay /\ OnRelay \subseteq Posts
      BY DEF Below, OnRelay
    <3>2. PageOf(pass) \subseteq Below(pass) /\ PageOf(pass) # {}
      <4> DEFINE S == Below(pass)
      <4>1. S \in SUBSET Posts /\ S # {}
        BY <1>6, <3>1
      <4>2. PageOf(pass) = {e \in S : Cardinality({d \in S : Newer(d, e)}) < PageSize}
        BY DEF PageOf
      <4> HIDE DEF S
      <4>3. PageOf(pass) \subseteq S /\ PageOf(pass) # {}
        BY <1>0, <4>1, <4>2, PageFirst
      <4> QED BY <4>3 DEF S
    <3> QED BY <3>1, <3>2
  <2>2. pass.pages + 1 \in 0..MaxPages
    BY <1>0, <1>6, PassFields, CatchUpAssumption
  <2>3. /\ pass' \in Passes /\ pass'.stage = "reading" /\ pass'.at = pass.at
        /\ pass'.from = pass.from /\ pass'.upper = pass.upper
        /\ pass'.read = pass.read \cup PageOf(pass) /\ pass'.left = {} /\ pass'.given = {}
    BY <1>0, <1>1, <1>2, <1>6, <2>1, <2>2 DEF Passes
  <2>4. \A e \in pass'.read : pass.from.through < at[e] /\ at[e] <= pass.upper
    BY <1>2, <2>1, <2>3 DEF Below, Frame
  <2>5. Frame(pass', base, s)
    BY <1>2, <2>1, <2>3, <2>4 DEF Frame
  <2>6. WindowOK(pass', checkpoint, base, s)
    BY <1>2, <2>1, <2>3, <2>5 DEF WindowOK
  <2> QED BY <1>0, <1>6, <2>3, <2>6, ShapeParts DEF Shape
<1> QED BY <1>4, <1>5, <1>6, PageCases

(***************************************************************************)
(* Batches, live events and replays.                                       *)
(***************************************************************************)
BatchOf(p, n) == Oldest(p.left, n)
GivenOf(p, n) == [p EXCEPT !.left = @ \ BatchOf(p, n), !.given = @ \cup BatchOf(p, n)]
AdmitOf(p, c, l) == Kept(c, Admitted(p, p.given, c.heard, OverlapNow(l)))
FinishOf(p, c, l) == Kept(c, Finished(p, c.heard, OverlapNow(l)))

\* A batch given: the checkpoint follows, and the window may be over.
LEMMA GivesCases ==
  ASSUME NEW n, Gives(n)
  PROVE  LET p == GivenOf(pass, n)
             c1 == AdmitOf(p, checkpoint, link)
             c2 == FinishOf(p, c1, link)
         IN  /\ pass.stage = "giving"
             /\ taken' = [e \in Posts |->
                            IF e \in BatchOf(pass, n) \ runner.seen /\ Undelivered(checkpoint, e)
                            THEN taken[e] + 1 ELSE taken[e]]
             /\ runner' = [runner EXCEPT !.seen = @ \cup BatchOf(pass, n)]
             /\ checkpoint' = IF p.left = {} THEN c2 ELSE c1
             /\ pass' = IF p.left = {} THEN Begun(p, c2, link) ELSE p
             /\ UNCHANGED <<polled, clock, at, fly, on, alive, link, base, owed, lost, upsets>>
BY DEF Gives, GivenOf, BatchOf, AdmitOf, FinishOf

\* A window of which a batch more is given.
LEMMA GivenFrame ==
  ASSUME at \in [Posts -> Maybe], NEW p, NEW b, NEW s, Frame(p, b, s), p.left # {},
         NEW n \in Nat \ {0}
  PROVE  LET q == GivenOf(p, n)
             B == BatchOf(p, n)
         IN  /\ Frame(q, b, s) /\ q.stage = p.stage /\ q.at = p.at /\ q.from = p.from
             /\ q.upper = p.upper /\ q.read = p.read /\ q.pages = p.pages
             /\ B # {} /\ B \subseteq p.left /\ q.left = p.left \ B /\ q.given = p.given \cup B
<1> DEFINE q == GivenOf(p, n)
           B == BatchOf(p, n)
<1>1. /\ p \in Passes /\ p.left \in SUBSET Posts /\ p.given \in SUBSET Posts
      /\ p.read \in SUBSET Posts
  BY PassFields DEF Frame
<1>2. /\ B \subseteq p.left /\ B # {}
      /\ \A e \in B, d \in p.left : Before(d, e) => d \in B
  BY <1>1, OldestFirst DEF BatchOf
<1> HIDE DEF B
<1>3. /\ q \in Passes /\ q.stage = p.stage /\ q.at = p.at /\ q.from = p.from
      /\ q.upper = p.upper /\ q.read = p.read /\ q.pages = p.pages
      /\ q.left = p.left \ B /\ q.given = p.given \cup B
  BY <1>1, <1>2 DEF GivenOf, Passes, B
<1> HIDE DEF q
<1>4. ASSUME NEW g \in q.given, NEW x \in q.left PROVE Before(g, x)
  <2>1. CASE g \in p.given
    BY <1>3, <2>1 DEF Frame
  <2>2. CASE g \in B
    <3>1. x \in p.left /\ x \notin B /\ g \in Posts /\ x \in Posts /\ g # x
      BY <1>1, <1>2, <1>3, <2>2
    <3>2. ~Before(x, g)
      BY <1>2, <2>2, <3>1
    <3> QED BY <3>1, <3>2, BeforeOrders
  <2> QED BY <1>3, <2>1, <2>2
<1>5. Frame(q, b, s)
  BY <1>2, <1>3, <1>4 DEF Frame, Lags
<1> QED BY <1>2, <1>3, <1>5 DEF q, B

\* A later checkpoint of the same window leaves its shape.
LEMMA FrameLater ==
  ASSUME NEW p, NEW b, NEW s \in Int, NEW s1 \in Int, s <= s1, Frame(p, b, s)
  PROVE  Frame(p, b, s1)
<1>1. p.from.through \in Int
  BY TimesAreNumbers DEF Frame
<1>2. Lags(p.from, b, s1)
  BY <1>1 DEF Frame, Lags
<1> QED BY <1>2 DEF Frame

\* What a batch leaves: a window with its checkpoint, or the next one.
LEMMA GivesOK ==
  ASSUME Shape, NEW n \in 1..BatchSize, Gives(n)
  PROVE  LET p == GivenOf(pass, n)
             c1 == AdmitOf(p, checkpoint, link)
             c2 == FinishOf(p, c1, link)
         IN  /\ Frame(p, base, checkpoint.shrunk) /\ p.given # {} /\ p.from.through < p.upper
             /\ c1 \in Checkpoints /\ c1.through \in Times /\ Ordered(c1)
             /\ c1.heard \subseteq OnRelay /\ c1.upper = p.upper
             /\ Lags(c1, base, c1.shrunk) /\ checkpoint.shrunk <= c1.shrunk
             /\ \E last \in p.given :
                  AdmitsTo(p, checkpoint, p.given, OverlapNow(link), last, c1)
             /\ Frame(p, base, c1.shrunk) /\ c1.shrunk \in Int
             /\ Finishes(p, c1, OverlapNow(link), c2)
             /\ c2 \in Checkpoints /\ c2.through \in Times /\ Ordered(c2)
             /\ Lags(c2, base, c2.shrunk) /\ c1.shrunk <= c2.shrunk /\ c2.shrunk \in Int
<1> DEFINE p == GivenOf(pass, n)
           c1 == AdmitOf(p, checkpoint, link)
           c2 == FinishOf(p, c1, link)
           s == checkpoint.shrunk
<1>0. /\ at \in [Posts -> Maybe] /\ clock \in Times /\ base \in Int
      /\ checkpoint \in Checkpoints /\ checkpoint.heard \subseteq OnRelay /\ s \in Int
  BY ShapeParts
<1>1. /\ Frame(pass, base, s) /\ pass.left # {} /\ pass.from.through < pass.upper
  <2>1. pass.stage = "giving"
    BY GivesCases
  <2> QED BY <2>1 DEF Shape, WindowOK, Window
<1>2. n \in Nat \ {0}
  BY CatchUpAssumption
<1>3. /\ Frame(p, base, s) /\ p.given # {} /\ p.from.through < p.upper
  BY <1>0, <1>1, <1>2, GivenFrame
<1> HIDE DEF p
<1>4. /\ c1 \in Checkpoints /\ c1.through \in Times /\ Ordered(c1)
      /\ c1.heard \subseteq OnRelay /\ c1.upper = p.upper
      /\ Lags(c1, base, c1.shrunk) /\ s <= c1.shrunk /\ c1.shrunk \in Int
      /\ \E last \in p.given : AdmitsTo(p, checkpoint, p.given, OverlapNow(link), last, c1)
  BY <1>0, <1>3, AdmitOK DEF AdmitOf
<1> HIDE DEF c1
<1>5. Frame(p, base, c1.shrunk)
  BY <1>0, <1>3, <1>4, FrameLater
<1>6. /\ Finishes(p, c1, OverlapNow(link), c2)
      /\ c2 \in Checkpoints /\ c2.through \in Times /\ Ordered(c2)
      /\ Lags(c2, base, c2.shrunk) /\ c1.shrunk <= c2.shrunk /\ c2.shrunk \in Int
  BY <1>0, <1>4, <1>5, FinishOK DEF FinishOf
<1> QED BY <1>3, <1>4, <1>5, <1>6 DEF p, c1

\* Batches keep the shape.
LEMMA ShapeGives ==
  ASSUME Shape, NEW n \in 1..BatchSize, Gives(n)
  PROVE  Shape'
<1> DEFINE p == GivenOf(pass, n)
           c1 == AdmitOf(p, checkpoint, link)
           c2 == FinishOf(p, c1, link)
           B == BatchOf(pass, n)
<1>0. /\ at \in [Posts -> Maybe] /\ clock \in Times /\ base \in Int /\ clock \in Int
      /\ link \in Links /\ link.since <= clock /\ link.covered <= clock
      /\ runner \in Runners /\ runner.seen \subseteq OnRelay /\ runner.backlog \subseteq runner.seen
      /\ pass \in Passes /\ pass.at <= clock /\ OnRelay \subseteq Posts
  BY ShapeParts
<1>1. /\ pass.stage = "giving"
      /\ taken' = [e \in Posts |-> IF e \in B \ runner.seen /\ Undelivered(checkpoint, e)
                                   THEN taken[e] + 1 ELSE taken[e]]
      /\ runner' = [runner EXCEPT !.seen = @ \cup B]
      /\ checkpoint' = IF p.left = {} THEN c2 ELSE c1
      /\ pass' = IF p.left = {} THEN Begun(p, c2, link) ELSE p
      /\ UNCHANGED <<polled, clock, at, fly, on, alive, link, base, owed, lost, upsets>>
  BY GivesCases
<1>2. /\ p.given # {} /\ p.from.through < p.upper
      /\ c1 \in Checkpoints /\ c1.through \in Times /\ Ordered(c1) /\ c1.upper = p.upper
      /\ Lags(c1, base, c1.shrunk) /\ Frame(p, base, c1.shrunk)
      /\ c2 \in Checkpoints /\ c2.through \in Times /\ Ordered(c2) /\ Lags(c2, base, c2.shrunk)
  BY GivesOK
<1>3. /\ Frame(pass, base, checkpoint.shrunk) /\ pass.left # {} /\ alive /\ on /\ link.since # NoTime
      /\ pass.read # {}
  BY <1>1 DEF Shape, WindowOK, Window, Moment, Frame
<1>4. p.stage = "giving" /\ p.at = pass.at /\ B \subseteq pass.left /\ p.read = pass.read
  <2>1. n \in Nat \ {0}
    BY CatchUpAssumption
  <2> QED BY <1>0, <1>1, <1>3, <2>1, GivenFrame
<1>5. p \in Passes /\ B \subseteq OnRelay
  BY <1>2, <1>3, <1>4 DEF Frame
<1> HIDE DEF p, c1, c2, B
<1>6. CASE p.left # {}
  <2>1. WindowOK(p, c1, base, c1.shrunk)
    BY <1>2, <1>3, <1>4, <1>6 DEF WindowOK
  <2>2. /\ pass' = p /\ checkpoint' = c1 /\ base' = base
    BY <1>1, <1>6
  <2>3. /\ Ordered(checkpoint)' /\ Lags(checkpoint, base, checkpoint.shrunk)'
        /\ WindowOK(pass, checkpoint, base, checkpoint.shrunk)' /\ OnRelay' = OnRelay
    BY <1>1, <1>2, <2>1, <2>2, SameShape
  <2>4. CatchUpTypeOK'
    BY <1>0, <1>1, <1>2, <1>5, <2>2, <2>3, TimesAreNumbers
       DEF CatchUpTypeOK, Shape, Runners
  <2>5. Moment'
    BY <1>0, <1>1, <1>3, <1>4, <1>5, <2>2, <2>3 DEF Moment, Shape, Window, Runners
  <2> QED BY <2>3, <2>4, <2>5 DEF Shape
<1>7. CASE p.left = {}
  <2> DEFINE q == Begun(p, c2, link)
  <2>1. /\ q \in Passes /\ q.at \in {p.at, NoTime} /\ WindowOK(q, c2, base, c2.shrunk)
    BY <1>0, <1>2, <1>4, <1>5, BegunOK DEF Ordered
  <2> HIDE DEF q
  <2>2. /\ pass' = q /\ checkpoint' = c2 /\ base' = base
    BY <1>1, <1>7 DEF q
  <2>3. /\ Ordered(checkpoint)' /\ Lags(checkpoint, base, checkpoint.shrunk)'
        /\ WindowOK(pass, checkpoint, base, checkpoint.shrunk)' /\ OnRelay' = OnRelay
    BY <1>1, <1>2, <2>1, <2>2, SameShape
  <2>4. CatchUpTypeOK'
    BY <1>0, <1>1, <1>2, <1>5, <2>1, <2>2, <2>3, TimesAreNumbers
       DEF CatchUpTypeOK, Shape, Runners
  <2>5. q.at <= clock
    BY <1>0, <1>4, <2>1, TimesAreNumbers
  <2>6. Moment'
    BY <1>0, <1>1, <1>3, <1>4, <1>5, <2>2, <2>3, <2>5 DEF Moment, Shape, Window, Runners
  <2> QED BY <2>3, <2>4, <2>6 DEF Shape
<1> QED BY <1>6, <1>7

\* h is the checkpoint c that heard e.
LEMMA HeardInOK ==
  ASSUME at \in [Posts -> Maybe], clock \in Times, NEW c \in Checkpoints, c.through \in Times,
         Ordered(c), NEW b, Lags(c, b, c.shrunk), NEW e \in OnRelay
  PROVE  LET h == HeardIn(c, e)
         IN  /\ h \in Checkpoints /\ h.through \in Times /\ Ordered(h)
             /\ Lags(h, b, h.shrunk) /\ c.shrunk <= h.shrunk /\ c.forgot <= h.forgot
             /\ h.upper = c.upper /\ h.after = c.after
             /\ h.heard \subseteq c.heard \cup {e} /\ (h.read # NoTime => h.read = c.read)
             /\ (h = c /\ ~Undelivered(c, e)) \/ Holds(c, c.heard \cup {e}, h)
<1> DEFINE h == HeardIn(c, e)
           H == c.heard \cup {e}
<1>0. c.shrunk \in Int /\ c.forgot \in Int /\ c.through \in Int /\ 0 <= c.through /\ H \in SUBSET Posts
  BY CheckpointFields, TimesAreNumbers DEF OnRelay
<1>1. CASE ~Undelivered(c, e)
  <2>1. h = c
    BY <1>1 DEF HeardIn
  <2> QED BY <1>0, <1>1, <2>1
<1>2. CASE Undelivered(c, e)
  <2>1. h = HeardOf(c, H)
    BY <1>2 DEF HeardIn
  <2>2. Steady(c)
    BY DEF Steady, Ordered, Begins
  <2>3. Holds(c, H, h)
    BY <1>0, <2>1, <2>2, HeardOfHolds
  <2> HIDE DEF h
  <2>4. /\ h \in Checkpoints /\ h.upper = c.upper /\ h.after = c.after
        /\ c.through <= h.through /\ (c.upper # NoTime => h.through = c.through)
        /\ h.through > c.through => h.through <= h.shrunk
        /\ c.shrunk <= h.shrunk /\ c.forgot <= h.forgot
        /\ h.read # NoTime => h.read = c.read /\ h.read > h.through
        /\ h.heard \subseteq H
    BY <2>3 DEF Holds
  <2>5. h.through \in Times /\ h.through \in Int /\ h.shrunk \in Int
    BY <1>0, <2>4, CheckpointFields, TimesAreNumbers
  <2>6. Ordered(h)
    BY <2>4 DEF Ordered, Begins
  <2>7. Lags(h, b, h.shrunk)
    <3>1. h.through = c.through \/ h.through <= h.shrunk
      BY <1>0, <2>4, <2>5
    <3>2. c.through <= c.shrunk => c.through <= h.shrunk
      BY <1>0, <2>4, <2>5
    <3> QED BY <3>1, <3>2 DEF Lags
  <2> QED BY <2>3, <2>4, <2>5, <2>6, <2>7 DEF h
<1> QED BY <1>1, <1>2

\* Hearing an event keeps the shape of the window under way.
LEMMA HearsWindow ==
  ASSUME Shape, NEW h \in Checkpoints, checkpoint.shrunk <= h.shrunk, h.upper = checkpoint.upper
  PROVE  WindowOK(pass, h, base, h.shrunk)
<1>1. checkpoint.shrunk \in Int /\ h.shrunk \in Int
  BY ShapeParts, CheckpointFields, TimesAreNumbers
<1>2. Window(pass) => Frame(pass, base, h.shrunk)
  BY <1>1, FrameLater DEF Shape, WindowOK
<1> QED BY <1>2 DEF Shape, WindowOK

\* Live events and replays keep the shape.
LEMMA ShapeHears ==
  ASSUME Shape, NEW e \in Posts, Hears(e) \/ Replays(e) \/ Admits(e)
  PROVE  Shape'
<1>0. /\ at \in [Posts -> Maybe] /\ clock \in Times /\ base \in Int
      /\ checkpoint \in Checkpoints /\ checkpoint.through \in Times /\ Ordered(checkpoint)
      /\ Lags(checkpoint, base, checkpoint.shrunk) /\ checkpoint.shrunk \in Int
      /\ WindowOK(pass, checkpoint, base, checkpoint.shrunk)
      /\ runner \in Runners /\ runner.seen \subseteq OnRelay
      /\ runner.backlog \subseteq runner.seen /\ OnRelay \subseteq Posts
      /\ fly \subseteq OnRelay /\ taken \in [Posts -> Nat]
      /\ ~alive => fly = {} /\ runner.backlog = {}
  BY ShapeParts DEF Shape, CatchUpTypeOK, Moment
<1>1. SUFFICES ASSUME e \in OnRelay /\ alive
               PROVE  /\ UNCHANGED <<polled, clock, at, on, alive, link, pass, base, owed, lost, upsets>>
                      /\ fly' \subseteq fly /\ taken' \in [Posts -> Nat]
                      /\ runner' \in Runners /\ runner'.seen \subseteq OnRelay
                      /\ runner'.backlog \subseteq runner'.seen
                      /\ runner'.quiet = runner.quiet /\ runner'.started = runner.started
                      /\ checkpoint' = checkpoint \/ checkpoint' = HeardIn(checkpoint, e)
  <2>1. e \in OnRelay /\ alive
    BY <1>0 DEF Hears, Replays, Admits, Replayable
  <2>2. /\ UNCHANGED <<polled, clock, at, on, alive, link, pass, base, owed, lost, upsets>>
        /\ fly' \subseteq fly /\ taken' \in [Posts -> Nat]
        /\ runner' \in Runners /\ runner'.seen \subseteq OnRelay
        /\ runner'.backlog \subseteq runner'.seen
        /\ runner'.quiet = runner.quiet /\ runner'.started = runner.started
        /\ checkpoint' = checkpoint \/ checkpoint' = HeardIn(checkpoint, e)
    BY <1>1, <2>1
  <2>3. /\ checkpoint' \in Checkpoints /\ checkpoint'.through \in Times /\ Ordered(checkpoint')
        /\ Lags(checkpoint', base, checkpoint'.shrunk)
        /\ checkpoint.shrunk <= checkpoint'.shrunk /\ checkpoint'.upper = checkpoint.upper
    <3> DEFINE h == HeardIn(checkpoint, e)
    <3>1. /\ h \in Checkpoints /\ h.through \in Times /\ Ordered(h) /\ Lags(h, base, h.shrunk)
          /\ checkpoint.shrunk <= h.shrunk /\ h.upper = checkpoint.upper
      BY <1>0, <2>1, HeardInOK
    <3> HIDE DEF h
    <3>2. checkpoint' = checkpoint \/ checkpoint' = h
      BY <2>2 DEF h
    <3> QED BY <1>0, <3>1, <3>2
  <2>4. WindowOK(pass, checkpoint', base, checkpoint'.shrunk)
    BY <2>3, HearsWindow
  <2>5. /\ Ordered(checkpoint)' /\ Lags(checkpoint, base, checkpoint.shrunk)'
        /\ WindowOK(pass, checkpoint, base, checkpoint.shrunk)' /\ OnRelay' = OnRelay
    BY <2>2, <2>3, <2>4, SameShape
  <2>6. CatchUpTypeOK'
    BY <1>0, <2>2, <2>3, <2>5, TimesAreNumbers DEF CatchUpTypeOK, Shape
  <2>7. Moment'
    BY <1>0, <2>1, <2>2, <2>5 DEF Moment, Shape
  <2> QED BY <2>5, <2>6, <2>7 DEF Shape
<1>2. CASE Hears(e)
  <2>1. CASE e \in runner.seen
    BY <1>0, <1>2, <2>1 DEF Hears
  <2>2. CASE e \notin runner.seen
    <3>1. /\ runner' = [runner EXCEPT !.seen = @ \cup {e}]
          /\ taken' = IF on THEN [taken EXCEPT ![e] = @ + 1] ELSE taken
          /\ checkpoint' = HeardIn(checkpoint, e) /\ fly' = fly \ {e}
          /\ UNCHANGED <<polled, clock, at, on, alive, link, pass, base, owed, lost, upsets>>
      BY <1>2, <2>2 DEF Hears
    <3>2. taken' \in [Posts -> Nat]
      BY <1>0, <3>1
    <3>3. /\ runner' \in Runners /\ runner'.seen = runner.seen \cup {e}
          /\ runner'.backlog = runner.backlog /\ runner'.quiet = runner.quiet
          /\ runner'.started = runner.started
      BY <1>0, <3>1 DEF Runners
    <3> QED BY <1>0, <1>1, <3>1, <3>2, <3>3
  <2> QED BY <2>1, <2>2
<1>3. CASE Replays(e)
  <2>1. /\ runner' = [runner EXCEPT !.seen = @ \cup {e}, !.backlog = @ \cup {e}]
        /\ UNCHANGED <<polled, clock, at, fly, checkpoint, on, alive, link, pass, taken, base, owed, lost, upsets>>
    BY <1>3 DEF Replays
  <2>2. /\ runner' \in Runners /\ runner'.seen = runner.seen \cup {e}
        /\ runner'.backlog = runner.backlog \cup {e} /\ runner'.quiet = runner.quiet
        /\ runner'.started = runner.started
    BY <1>0, <2>1 DEF Runners
  <2> QED BY <1>0, <1>1, <2>1, <2>2
<1>4. CASE Admits(e)
  <2>1. /\ runner' = [runner EXCEPT !.backlog = @ \ {e}]
        /\ taken' = IF on /\ at[e] >= runner.started THEN [taken EXCEPT ![e] = @ + 1] ELSE taken
        /\ checkpoint' = HeardIn(checkpoint, e)
        /\ UNCHANGED <<polled, clock, at, fly, on, alive, link, pass, base, owed, lost, upsets>>
    BY <1>4 DEF Admits
  <2>2. taken' \in [Posts -> Nat]
    BY <1>0, <2>1
  <2>3. /\ runner' \in Runners /\ runner'.seen = runner.seen
        /\ runner'.backlog = runner.backlog \ {e} /\ runner'.quiet = runner.quiet
        /\ runner'.started = runner.started
    BY <1>0, <2>1 DEF Runners
  <2> QED BY <1>0, <1>1, <2>1, <2>2, <2>3
<1> QED BY <1>2, <1>3, <1>4

\* The clock's steps, failing pages and events the relay stores keep the shape.
LEMMA ShapeTime ==
  ASSUME Shape, TimePasses \/ PageFails
  PROVE  Shape'
<1> USE ShapeParts
<1>1. CASE TimePasses
  <2>1. /\ clock' = clock + 1 /\ clock < MaxClock
        /\ UNCHANGED <<polled, at, fly, checkpoint, on, alive, link, runner, pass, taken, base, owed, lost, upsets>>
    BY <1>1 DEF TimePasses
  <2>2. OnRelay' = OnRelay /\ MaxClock \in Nat /\ clock \in Int /\ clock' \in Times
    BY <2>1, TimesAreNumbers DEF OnRelay, Times
  <2>3. /\ checkpoint.through \in Int /\ checkpoint.upper \in Int /\ pass.from.through \in Int
        /\ checkpoint.read \in Int /\ pass.upper \in Int /\ base \in Int /\ Overlap \in Int /\ pass.at \in Int
        /\ link.since \in Int /\ link.covered \in Int /\ runner.started \in Int
    BY CheckpointFields, PassFields, TimesAreNumbers, CatchUpAssumption DEF Links, Runners
  <2>4. Ordered(checkpoint)' /\ Lags(checkpoint, base, checkpoint.shrunk)'
    BY <2>1, <2>2, <2>3 DEF Shape, Ordered, Begins, Lags
  <2>5. WindowOK(pass, checkpoint, base, checkpoint.shrunk)'
    <3> SUFFICES ASSUME Window(pass)'
                 PROVE  WindowOK(pass, checkpoint, base, checkpoint.shrunk)'
      BY DEF WindowOK, Window
    <3>1. WindowOK(pass, checkpoint, base, checkpoint.shrunk) /\ Window(pass)
      BY <2>1 DEF Shape, Window
    <3>2. Lags(pass.from, base, checkpoint.shrunk)'
      BY <2>1, <2>3, <3>1 DEF WindowOK, Frame, Lags
    <3>3. Frame(pass, base, checkpoint.shrunk)'
      BY <2>1, <2>2, <2>3, <3>1, <3>2 DEF WindowOK, Frame, Undelivered, Before
    <3> QED BY <2>1, <3>1, <3>3 DEF WindowOK, Window
  <2>6. CatchUpTypeOK'
    BY <2>1, <2>2 DEF CatchUpTypeOK, Shape
  <2>7. Moment'
    <3>1. \A e \in Posts : at[e] <= clock'
      BY <2>1, <2>2, PostsOrdered DEF Shape, Moment
    <3> QED BY <2>1, <2>2, <2>3, <3>1 DEF Moment, Shape, Window
  <2> QED BY <2>4, <2>5, <2>6, <2>7 DEF Shape
<1>2. CASE PageFails
  <2>1. /\ pass' = [NoPass EXCEPT !.stage = "failed"] /\ pass.stage = "reading"
        /\ UNCHANGED <<polled, clock, at, fly, checkpoint, on, alive, link, runner, taken, base, owed, lost>>
        /\ upsets' \in 0..MaxUpsets
    BY <1>2, CatchUpAssumption DEF PageFails, Upset, Shape, CatchUpTypeOK
  <2>2. pass' \in Passes /\ pass'.at = NoTime /\ pass'.stage = "failed"
    BY <2>1, PassFields DEF Passes
  <2>3. WindowOK(pass', checkpoint', base', checkpoint'.shrunk)
    BY <2>2 DEF WindowOK, Window
  <2>4. /\ Ordered(checkpoint)' /\ Lags(checkpoint, base, checkpoint.shrunk)'
        /\ WindowOK(pass, checkpoint, base, checkpoint.shrunk)' /\ OnRelay' = OnRelay
    BY <2>1, <2>3, SameShape DEF Shape
  <2>5. CatchUpTypeOK'
    BY <2>1, <2>2, <2>4 DEF CatchUpTypeOK, Shape
  <2>6. Moment'
    <3>1. link.since # NoTime
      BY <2>1 DEF Shape, Moment
    <3> QED BY <2>1, <2>2, <2>4, <3>1, TimesAreNumbers DEF Moment, Shape, Window
  <2> QED BY <2>4, <2>5, <2>6 DEF Shape
<1> QED BY <1>1, <1>2

\* What is known of the other events stays when the relay stores one.
LEMMA StoresFrame ==
  ASSUME Shape, NEW e \in Posts, NEW t \in Times, Stores(e, t)
  PROVE  /\ at[e] = NoTime /\ t <= clock /\ at' = [at EXCEPT ![e] = t]
         /\ at' \in [Posts -> Maybe] /\ e \notin OnRelay
         /\ OnRelay' = OnRelay \cup {e} /\ \A d \in OnRelay : at'[d] = at[d]
         /\ UNCHANGED <<polled, clock, checkpoint, on, alive, link, runner, pass, taken, base, upsets>>
         /\ fly' \subseteq fly \cup {e} /\ owed' \cup lost' \subseteq owed \cup lost \cup {e}
         /\ owed \subseteq owed' /\ lost \subseteq lost' /\ fly \subseteq fly'
         /\ (~link.route => fly' = fly)
         /\ checkpoint.after # NoPost => checkpoint.after \in OnRelay
         /\ Window(pass) /\ pass.from.after # NoPost => pass.from.after \in OnRelay
<1> USE ShapeParts
<1>1. /\ at[e] = NoTime /\ t \in Larger(0, clock - Drift)..clock /\ at' = [at EXCEPT ![e] = t]
      /\ UNCHANGED <<polled, clock, checkpoint, on, alive, link, runner, pass, taken, base, upsets>>
      /\ fly' \subseteq fly \cup {e} /\ owed' \cup lost' \subseteq owed \cup lost \cup {e}
      /\ owed \subseteq owed' /\ lost \subseteq lost' /\ fly \subseteq fly'
      /\ (~link.route => fly' = fly)
  BY LeavesFields DEF Stores
<1>2. t \in Maybe /\ t # NoTime /\ t <= clock
  BY <1>1, TimesAreNumbers
<1>3. at' \in [Posts -> Maybe] /\ e \notin OnRelay /\ OnRelay' = OnRelay \cup {e}
      /\ \A d \in OnRelay : at'[d] = at[d]
  BY <1>1, <1>2 DEF OnRelay
<1>4. ASSUME NEW c \in Checkpoints, c.through \in Times,
             c.after # NoPost => at[c.after] = c.through + 1
      PROVE  c.after # NoPost => c.after \in OnRelay
  BY <1>4, CheckpointFields, TimesAreNumbers DEF OnRelay, NoTime
<1>5. checkpoint.after # NoPost => checkpoint.after \in OnRelay
  BY <1>4 DEF Shape, Ordered, Begins
<1>6. Window(pass) /\ pass.from.after # NoPost => pass.from.after \in OnRelay
  BY <1>4, PassFields DEF Shape, WindowOK, Frame
<1> QED BY <1>1, <1>2, <1>3, <1>5, <1>6

\* An event the relay stores keeps the shape.
LEMMA ShapeStores ==
  ASSUME Shape, NEW e \in Posts, NEW t \in Times, Stores(e, t)
  PROVE  Shape'
<1>1. /\ t <= clock /\ at' = [at EXCEPT ![e] = t]
      /\ at' \in [Posts -> Maybe] /\ e \notin OnRelay
      /\ OnRelay' = OnRelay \cup {e} /\ \A d \in OnRelay : at'[d] = at[d]
      /\ UNCHANGED <<polled, clock, checkpoint, on, alive, link, runner, pass, taken, base, upsets>>
      /\ fly' \subseteq fly \cup {e} /\ owed' \cup lost' \subseteq owed \cup lost \cup {e}
      /\ (~link.route => fly' = fly)
      /\ checkpoint.after # NoPost => checkpoint.after \in OnRelay
      /\ Window(pass) /\ pass.from.after # NoPost => pass.from.after \in OnRelay
  BY StoresFrame
<1>2. Ordered(checkpoint)' /\ Lags(checkpoint, base, checkpoint.shrunk)'
  BY <1>1 DEF Shape, Ordered, Begins, Lags
<1>3. WindowOK(pass, checkpoint, base, checkpoint.shrunk)'
  <2> SUFFICES ASSUME Window(pass)
               PROVE  WindowOK(pass, checkpoint, base, checkpoint.shrunk)'
    BY <1>1 DEF WindowOK, Window
  <2>1. WindowOK(pass, checkpoint, base, checkpoint.shrunk)
    BY DEF Shape
  <2>2. Frame(pass, base, checkpoint.shrunk)
    BY <2>1 DEF WindowOK
  <2>3. pass.read \subseteq OnRelay /\ pass.left \cup pass.given \subseteq OnRelay
    BY <2>2 DEF Frame
  <2>4. \A d \in pass.left \cup pass.given : Undelivered(pass.from, d)'
    BY <1>1, <2>2, <2>3 DEF Frame, Undelivered, Before
  <2>5. \A g \in pass.given, l \in pass.left : Before(g, l)'
    BY <1>1, <2>2, <2>3 DEF Frame, Before
  <2>6. \A d \in pass.read : pass.from.through < at'[d] /\ at'[d] <= pass.upper
    BY <1>1, <2>2, <2>3 DEF Frame
  <2>7. Frame(pass, base, checkpoint.shrunk)'
    BY <1>1, <2>2, <2>3, <2>4, <2>5, <2>6 DEF Frame, Lags
  <2> QED BY <1>1, <2>1, <2>7 DEF WindowOK, Window
<1>4. CatchUpTypeOK'
  BY <1>1 DEF CatchUpTypeOK, Shape
<1>5. Moment'
  <2>1. \A d \in Posts : at'[d] <= clock
    BY <1>1, ShapeParts
  <2>2. ~alive => fly' = {}
    BY <1>1 DEF Shape, Moment
  <2> QED BY <1>1, <2>1, <2>2 DEF Moment, Shape, Window
<1> QED BY <1>2, <1>3, <1>4, <1>5 DEF Shape

\* The checkpoint read at a start is the one saved: it is valid.
LEMMA ReopenedOK ==
  ASSUME at \in [Posts -> Maybe], clock \in Times, NEW c \in Checkpoints, c.through \in Times,
         Ordered(c), NEW b, Lags(c, b, c.shrunk)
  PROVE  LET h == Reopened(c)
         IN  /\ Holds(c, c.heard, h) /\ h \in Checkpoints /\ h.through \in Times
             /\ Ordered(h) /\ Lags(h, b, h.shrunk)
<1>1. /\ c.through \in Int /\ c.read \in Maybe /\ c.read \in Int /\ c.upper \in Int
      /\ c.shrunk \in Int /\ c.heard \in SUBSET Posts /\ c.after \in Posts \cup {NoPost}
      /\ 0 <= c.through
  BY CheckpointFields, TimesAreNumbers
<1>2. c.upper # NoTime => c.upper > c.through
  BY DEF Ordered, Begins
<1>3. c.after # NoPost => c.upper # NoTime /\ at[c.after] \in c.through+1..c.upper
  BY <1>1, PostsOrdered DEF Ordered, Begins
<1>4. [c EXCEPT !.read = IF @ > c.through THEN @ ELSE NoTime] = c
  <2>1. (IF c.read > c.through THEN c.read ELSE NoTime) = c.read
    BY <1>1 DEF Ordered, NoTime
  <2> QED BY <2>1 DEF Checkpoints
<1> DEFINE h == Reopened(c)
<1>5. h = HeardOf(c, c.heard)
  BY <1>2, <1>3, <1>4 DEF Reopened
<1>6. Steady(c)
  BY DEF Steady, Ordered, Begins
<1> HIDE DEF h
<1>7. Holds(c, c.heard, h)
  BY <1>1, <1>5, <1>6, HeardOfHolds
<1>8. /\ h \in Checkpoints /\ h.upper = c.upper /\ h.after = c.after
      /\ c.through <= h.through /\ (c.upper # NoTime => h.through = c.through)
      /\ h.through > c.through => h.through <= h.shrunk
      /\ c.shrunk <= h.shrunk /\ h.heard \subseteq c.heard
      /\ h.read # NoTime => h.read = c.read /\ h.read > h.through
  BY <1>7 DEF Holds
<1>9. h.through \in Times /\ h.through \in Int /\ h.shrunk \in Int
  BY <1>1, <1>8, CheckpointFields, TimesAreNumbers
<1>10. Ordered(h)
  BY <1>8 DEF Ordered, Begins
<1>11. Lags(h, b, h.shrunk)
  <2>1. h.through = c.through \/ h.through <= h.shrunk
    BY <1>1, <1>8, <1>9
  <2>2. c.through <= c.shrunk => c.through <= h.shrunk
    BY <1>1, <1>8, <1>9
  <2> QED BY <2>1, <2>2 DEF Lags
<1> QED BY <1>7, <1>8, <1>9, <1>10, <1>11 DEF h

\* Ends and starts of the program keep the shape.
LEMMA ShapeEnds ==
  ASSUME Shape, ProgramEnds \/ ProgramStarts
  PROVE  Shape'
<1> USE ShapeParts
<1>1. CASE ProgramEnds
  <2>1. /\ clock' = clock + 1 /\ clock < MaxClock /\ alive' = FALSE /\ fly' = {} /\ pass' = NoPass
        /\ owed' = {} /\ lost' \subseteq lost \cup Coming
        /\ link' = [since |-> NoTime, route |-> FALSE, covered |-> NoTime]
        /\ runner' = [seen |-> {}, backlog |-> {}, quiet |-> FALSE, started |-> NoTime, start |-> 0]
        /\ UNCHANGED <<polled, at, checkpoint, on, taken, base>>
        /\ upsets' \in 0..MaxUpsets
    BY <1>1, CatchUpAssumption DEF ProgramEnds, Upset, Shape, CatchUpTypeOK
  <2>2. /\ OnRelay' = OnRelay /\ MaxClock \in Nat /\ clock \in Int /\ clock' \in Times
        /\ checkpoint.through \in Int /\ checkpoint.upper \in Int /\ checkpoint.read \in Int
        /\ base \in Int /\ Overlap \in Int
    BY <2>1, CheckpointFields, TimesAreNumbers, CatchUpAssumption DEF OnRelay, Times
  <2>3. Ordered(checkpoint)' /\ Lags(checkpoint, base, checkpoint.shrunk)'
    BY <2>1, <2>2 DEF Shape, Ordered, Begins, Lags
  <2>4. WindowOK(pass, checkpoint, base, checkpoint.shrunk)'
    BY <2>1, PassFields DEF WindowOK, Window
  <2>5. link' \in Links /\ runner' \in Runners /\ pass' \in Passes /\ pass'.at = NoTime
    BY <2>1, PassFields, TimesAreNumbers DEF Links, Runners
  <2>6. CatchUpTypeOK'
    BY <2>1, <2>2, <2>5, ComingOnRelay DEF CatchUpTypeOK, Shape
  <2>7. \A e \in Posts : at[e] <= clock'
    BY <2>1, <2>2, PostsOrdered DEF Shape, Moment
  <2>8. /\ link'.since = NoTime /\ link'.covered = NoTime /\ link'.route = FALSE
        /\ runner'.quiet = FALSE /\ runner'.seen = {} /\ runner'.backlog = {}
        /\ runner'.started = NoTime
    BY <2>1
  <2>9. pass'.stage = "none" /\ ~Window(pass')
    BY <2>1, PassFields DEF Window
  <2>10. NoTime <= clock' /\ NoTime <= base' /\ base' <= clock'
    BY <2>1, <2>2, TimesAreNumbers DEF Shape, Moment, CatchUpTypeOK, NoTime, Times
  <2>11. Moment'
    BY <2>1, <2>2, <2>5, <2>7, <2>8, <2>9, <2>10 DEF Moment
  <2> QED BY <2>3, <2>4, <2>6, <2>11 DEF Shape
<1>2. CASE ProgramStarts
  <2> DEFINE c == Reopened(checkpoint)
             r == [runner EXCEPT !.start = clock]
  <2>1. /\ ~alive /\ alive' = TRUE
        /\ CatchesUp(FALSE, FALSE, c, link, r, on, pass)
        /\ UNCHANGED <<polled, clock, at, fly, taken, owed, lost, upsets>>
    BY <1>2 DEF ProgramStarts
  <2>2. /\ c \in Checkpoints /\ c.through \in Times /\ Ordered(c) /\ Lags(c, base, c.shrunk)
    BY ReopenedOK DEF Shape
  <2>3. /\ r \in Runners /\ r.started = runner.started /\ r.seen = runner.seen
        /\ r.backlog = runner.backlog
    BY DEF Runners
  <2> HIDE DEF c, r
  <2>4. CatchesUpTo(c, link, r, on, pass)
    BY <2>1, CatchesUpCases
  <2>5. /\ link.since = NoTime /\ ~link.route /\ pass.stage = "none"
        /\ owed \cup lost \subseteq OnRelay /\ upsets \in 0..MaxUpsets
    BY <2>1 DEF Shape, Moment, CatchUpTypeOK
  <2>6. WindowOK(pass, c, base, c.shrunk)
    BY <2>5 DEF WindowOK, Window
  <2> QED BY <2>1, <2>2, <2>3, <2>4, <2>5, <2>6, ShapeCatchesUp
<1> QED BY <1>1, <1>2

\* The shapes hold in the initial states.
LEMMA ShapeInit == CatchUpInit => Shape
<1> SUFFICES ASSUME CatchUpInit PROVE Shape
  OBVIOUS
<1>1. /\ polled \in BOOLEAN /\ clock = 0 /\ at = [e \in Posts |-> NoTime] /\ fly = {}
      /\ checkpoint = From(0) /\ on = TRUE /\ alive = TRUE
      /\ link = [since |-> NoTime, route |-> FALSE, covered |-> NoTime]
      /\ runner = [seen |-> {}, backlog |-> {}, quiet |-> FALSE, started |-> NoTime, start |-> 0]
      /\ pass = NoPass /\ taken = [e \in Posts |-> 0] /\ base = 0
      /\ owed = {} /\ lost = {} /\ upsets = 0
  BY DEF CatchUpInit
<1>2. /\ 0 \in Times /\ 0 \in Maybe /\ NoTime \in Maybe /\ 0 \in 0..MaxUpsets
      /\ checkpoint \in Checkpoints /\ checkpoint.through = 0 /\ checkpoint.upper = NoTime
      /\ checkpoint.read = NoTime /\ checkpoint.after = NoPost /\ checkpoint.heard = {}
  BY <1>1, FromFields, TimesAreNumbers, CatchUpAssumption
<1>3. /\ pass \in Passes /\ pass.at = NoTime /\ pass.stage = "none" /\ ~Window(pass)
      /\ link \in Links /\ runner \in Runners
  BY <1>1, <1>2, PassFields DEF Links, Runners
<1>4. CatchUpTypeOK
  BY <1>1, <1>2, <1>3, TimesAreNumbers DEF CatchUpTypeOK
<1>5. Moment
  <2>1. /\ link.since = NoTime /\ link.covered = NoTime /\ link.route = FALSE
        /\ runner.quiet = FALSE /\ runner.seen = {} /\ runner.backlog = {}
        /\ runner.started = NoTime
    BY <1>1
  <2>2. NoTime <= clock /\ NoTime <= base /\ base <= clock
    BY <1>1 DEF NoTime
  <2>3. \A e \in Posts : at[e] <= clock
    BY <1>1 DEF NoTime
  <2> QED BY <1>1, <1>3, <2>1, <2>2, <2>3 DEF Moment
<1>6. Ordered(checkpoint) /\ Lags(checkpoint, base, checkpoint.shrunk)
  BY <1>1, <1>2 DEF Ordered, Begins, Lags
<1> QED BY <1>3, <1>4, <1>5, <1>6 DEF Shape, WindowOK

\* Every step keeps the shape.
LEMMA ShapeNext ==
  ASSUME Shape, [CatchUpNext]_catchUp
  PROVE  Shape'
<1>1. CASE UNCHANGED catchUp
  <2>1. /\ at' = at /\ clock' = clock /\ polled' = polled
        /\ UNCHANGED <<fly, checkpoint, on, alive, link, runner, pass, taken, base, owed, lost, upsets>>
    BY <1>1 DEF catchUp
  <2>2. /\ Ordered(checkpoint)' /\ Lags(checkpoint, base, checkpoint.shrunk)'
        /\ WindowOK(pass, checkpoint, base, checkpoint.shrunk)' /\ OnRelay' = OnRelay
    BY <2>1, SameShape DEF Shape
  <2>3. CatchUpTypeOK' /\ Moment'
    BY <2>1, <2>2 DEF CatchUpTypeOK, Moment, Shape, Window
  <2> QED BY <2>2, <2>3 DEF Shape
<1>2. CASE TimePasses \/ PageFails
  BY <1>2, ShapeTime
<1>3. CASE LinkMade \/ LinkDrops \/ RouteLive \/ RouteDrops
  BY <1>3, ShapeLink
<1>4. CASE Edits \/ \E due \in BOOLEAN : Ticks(due)
  BY <1>4, ShapeTicks
<1>5. CASE \E e \in Posts, t \in 0..MaxClock : Stores(e, t)
  BY <1>5, ShapeStores DEF Times
<1>6. CASE PageArrives
  BY <1>6, ShapePage
<1>7. CASE \E n \in 1..BatchSize : Gives(n)
  BY <1>7, ShapeGives
<1>8. CASE \E e \in Posts : Hears(e) \/ Replays(e) \/ Admits(e)
  BY <1>8, ShapeHears
<1>9. CASE ProgramEnds \/ ProgramStarts
  BY <1>9, ShapeEnds
<1> QED BY <1>1, <1>2, <1>3, <1>4, <1>5, <1>6, <1>7, <1>8, <1>9 DEF CatchUpNext

\* The state of a stream's catch-up has its types (CatchUpTypeOK): whatever is heard, read,
\* dropped or restarted, checkpoints stay times the program can save and read again, and a
\* window's events are events.
THEOREM CatchUpTypeCorrect == CatchUpSpec => []CatchUpTypeOK
<1>1. CatchUpInit => Shape
  BY ShapeInit
<1>2. Shape /\ [CatchUpNext]_catchUp => Shape'
  BY ShapeNext
<1>3. Shape => CatchUpTypeOK
  BY DEF Shape
<1> QED BY <1>1, <1>2, <1>3, PTL DEF CatchUpSpec

\* The steps of the connection, ticks and edits catch up.
LEMMA LinkCatchesUp ==
  ASSUME Shape,
         \/ LinkMade \/ LinkDrops \/ RouteLive \/ RouteDrops
         \/ Edits \/ \E due \in BOOLEAN : Ticks(due)
  PROVE  \E l \in Links, o \in BOOLEAN, old \in Passes :
           /\ CatchesUpTo(checkpoint, l, runner, o, old) /\ (o /\ ~runner.quiet => on)
           /\ l.covered # NoTime => l.covered = link.covered
           /\ l.since \in {link.since, clock, NoTime}
           /\ old = NoPass \/ old = pass
           /\ alive /\ UNCHANGED <<at, clock, polled, alive, taken>>
           /\ \/ fly' = fly /\ owed' = owed /\ lost' = lost /\ (link.route => l.route)
              \/ fly' = {} /\ ~l.route /\ Leaves(Unheard)
<1> USE ShapeParts
<1> DEFINE Done(l, o, old) ==
             /\ CatchesUpTo(checkpoint, l, runner, o, old) /\ (o /\ ~runner.quiet => on)
             /\ l.covered # NoTime => l.covered = link.covered
             /\ l.since \in {link.since, clock, NoTime}
             /\ old = NoPass \/ old = pass
             /\ alive /\ UNCHANGED <<at, clock, polled, alive, taken>>
             /\ \/ fly' = fly /\ owed' = owed /\ lost' = lost /\ (link.route => l.route)
                \/ fly' = {} /\ ~l.route /\ Leaves(Unheard)
<1>1. /\ clock \in Maybe /\ NoTime \in Maybe /\ link.covered \in Maybe /\ link.since \in Maybe
      /\ alive => runner.quiet = ~on
      /\ link.since = NoTime => ~link.route
  BY TimesAreNumbers DEF Shape, Moment, Links
<1>2. CASE LinkMade
  <2>1. PICK route \in BOOLEAN :
          CatchesUp(FALSE, FALSE, checkpoint, [since |-> clock, route |-> route, covered |-> NoTime],
                    runner, on, pass)
    BY <1>2 DEF LinkMade
  <2> DEFINE l == [since |-> clock, route |-> route, covered |-> NoTime]
  <2>2. l \in Links /\ l.covered = NoTime /\ l.since = clock
    BY <1>1 DEF Links
  <2> HIDE DEF l
  <2>3. CatchesUpTo(checkpoint, l, runner, on, pass)
    BY <2>1, CatchesUpCases DEF l
  <2>4. Done(l, on, pass)
    BY <1>1, <1>2, <2>2, <2>3 DEF LinkMade
  <2> QED BY <2>2, <2>4
<1>3. CASE LinkDrops
  <2> DEFINE l == [since |-> NoTime, route |-> FALSE, covered |-> NoTime]
  <2>1. CatchesUp(FALSE, FALSE, checkpoint, l, runner, on, pass)
    BY <1>3 DEF LinkDrops
  <2>2. l \in Links /\ l.covered = NoTime /\ l.since = NoTime /\ ~l.route
    BY <1>1 DEF Links
  <2> HIDE DEF l
  <2>3. CatchesUpTo(checkpoint, l, runner, on, pass)
    BY <2>1, CatchesUpCases
  <2>4. Done(l, on, pass)
    BY <1>3, <2>2, <2>3 DEF LinkDrops
  <2> QED BY <2>2, <2>4
<1>4. CASE RouteLive
  <2> DEFINE l == [link EXCEPT !.route = TRUE]
  <2>1. PICK due \in BOOLEAN : CatchesUp(FALSE, due, checkpoint, l, runner, on, pass)
    BY <1>4 DEF RouteLive
  <2>2. l \in Links /\ l.covered = link.covered /\ l.since = link.since /\ l.route
    BY DEF Links
  <2> HIDE DEF l
  <2>3. CatchesUpTo(checkpoint, l, runner, on, pass)
    BY <2>1, CatchesUpCases
  <2>4. Done(l, on, pass)
    BY <1>4, <2>2, <2>3 DEF RouteLive
  <2> QED BY <2>2, <2>4
<1>5. CASE RouteDrops
  <2> DEFINE l == [link EXCEPT !.route = FALSE]
  <2>1. PICK due \in BOOLEAN : CatchesUp(FALSE, due, checkpoint, l, runner, on, pass)
    BY <1>5 DEF RouteDrops
  <2>2. l \in Links /\ l.covered = link.covered /\ l.since = link.since /\ ~l.route
    BY DEF Links
  <2> HIDE DEF l
  <2>3. CatchesUpTo(checkpoint, l, runner, on, pass)
    BY <2>1, CatchesUpCases
  <2>4. Done(l, on, pass)
    BY <1>5, <2>2, <2>3 DEF RouteDrops
  <2> QED BY <2>2, <2>4
<1>6. CASE Edits
  <2>1. PICK o \in BOOLEAN : CatchesUp(FALSE, FALSE, checkpoint, link, runner, o, NoPass)
    BY <1>6 DEF Edits
  <2>2. CatchesUpTo(checkpoint, link, runner, o, NoPass)
    BY <2>1, CatchesUpCases
  <2>3. Done(link, o, NoPass)
    BY <1>1, <1>6, <2>2 DEF Edits
  <2> QED BY <2>3, PassFields
<1>7. CASE \E due \in BOOLEAN : Ticks(due)
  <2>1. PICK due \in BOOLEAN : Ticks(due)
    BY <1>7
  <2>2. CatchesUp(TRUE, due, checkpoint, link, runner, on, pass)
    BY <2>1 DEF Ticks
  <2>3. CatchesUpTo(checkpoint, link, runner, on, pass)
    BY <2>2, CatchesUpCases
  <2>4. Done(link, on, pass)
    BY <1>1, <2>1, <2>3 DEF Ticks
  <2> QED BY <2>4
<1> QED BY <1>2, <1>3, <1>4, <1>5, <1>6, <1>7

(***************************************************************************)
(* What is owed. A replay reaches back to every event owed while the       *)
(* program runs, which it has since before its connection was made; at its *)
(* start the saved checkpoint was read to a time before it.                *)
(***************************************************************************)
Owing ==
  /\ \A e \in owed : alive /\ runner.start <= at[e]
  /\ runner.start <= clock
  /\ link.since # NoTime => runner.start <= link.since
  /\ ~alive => checkpoint.read < clock

\* It is so to begin with.
LEMMA OwingInit == CatchUpInit => Owing
BY DEF CatchUpInit, Owing

\* What catching up changes of it.
LEMMA OwingCatchesUp ==
  ASSUME NEW c, NEW l \in Links, NEW r \in Runners, NEW o, NEW old, CatchesUpTo(c, l, r, o, old)
  PROVE  runner'.start = r.start /\ link'.since = l.since
BY DEF CatchesUpTo, Runners, Links

\* What the stream leaves to a replay, one reaches back to.
LEMMA OwingLeaves ==
  ASSUME NEW S, Leaves(S), runner'.start = runner.start,
         \A e \in owed : alive' /\ runner.start <= at'[e]
  PROVE  \A e \in owed' : alive' /\ runner'.start <= at'[e]
<1>1. \A e \in owed' : e \in owed \/ Replayable(e)'
  BY LeavesFields
<1>2. \A e : Replayable(e)' => alive' /\ runner'.start <= at'[e]
  BY DEF Replayable
<1> QED BY <1>1, <1>2

\* No step takes it back.
LEMMA OwingNext ==
  ASSUME Shape, Owing, [CatchUpNext]_catchUp
  PROVE  Owing'
<1> USE ShapeParts
<1>0. /\ runner.start \in Int /\ clock \in Int /\ checkpoint.read \in Int
      /\ checkpoint.read <= clock /\ owed \subseteq OnRelay /\ 0 <= clock
  BY CheckpointFields, TimesAreNumbers DEF Runners, Shape, CatchUpTypeOK, Ordered, NoTime
<1>1. CASE UNCHANGED catchUp
  BY <1>1 DEF catchUp, Owing
<1>2. CASE \/ LinkMade \/ LinkDrops \/ RouteLive \/ RouteDrops
           \/ Edits \/ \E due \in BOOLEAN : Ticks(due)
  <2>1. PICK l \in Links, o \in BOOLEAN, old \in Passes :
          /\ CatchesUpTo(checkpoint, l, runner, o, old)
          /\ l.since \in {link.since, clock, NoTime}
          /\ alive /\ UNCHANGED <<at, clock, alive>>
          /\ (owed' = owed /\ lost' = lost) \/ Leaves(Unheard)
    BY <1>2, LinkCatchesUp
  <2>2. runner'.start = runner.start /\ link'.since = l.since
    BY <2>1, OwingCatchesUp
  <2>3. \A e \in owed' : alive' /\ runner'.start <= at'[e]
    BY <2>1, <2>2, OwingLeaves DEF Owing
  <2> QED BY <1>0, <2>1, <2>2, <2>3 DEF Owing
<1>3. CASE ProgramEnds
  <2>1. /\ clock' = clock + 1 /\ owed' = {} /\ link'.since = NoTime /\ runner'.start = 0
        /\ checkpoint' = checkpoint
    BY <1>3 DEF ProgramEnds
  <2> QED BY <1>0, <2>1 DEF Owing
<1>4. CASE ProgramStarts
  <2> DEFINE c == Reopened(checkpoint)
             r == [runner EXCEPT !.start = clock]
  <2>1. /\ ~alive /\ alive' = TRUE /\ CatchesUp(FALSE, FALSE, c, link, r, on, pass)
        /\ UNCHANGED <<clock, owed>>
    BY <1>4 DEF ProgramStarts
  <2>2. r \in Runners /\ r.start = clock
    BY TimesAreNumbers DEF Runners, Times
  <2> HIDE DEF c, r
  <2>3. CatchesUpTo(c, link, r, on, pass)
    BY <2>1, CatchesUpCases
  <2>4. runner'.start = clock /\ link'.since = link.since
    BY <2>2, <2>3, OwingCatchesUp
  <2>5. link.since = NoTime /\ owed = {}
    BY <2>1 DEF Shape, Moment, Owing
  <2> QED BY <1>0, <2>1, <2>4, <2>5 DEF Owing
<1>5. CASE \E e \in Posts, t \in 0..MaxClock : Stores(e, t)
  <2>1. PICK e \in Posts, t \in Times : Stores(e, t)
    BY <1>5 DEF Times
  <2>2. /\ UNCHANGED <<clock, checkpoint, alive, link, runner>>
        /\ \A d \in OnRelay : at'[d] = at[d]
    BY <2>1, StoresFrame
  <2>3. owed' = owed \/ \E S : Leaves(S)
    BY <2>1 DEF Stores
  <2>4. \A d \in owed : alive' /\ runner.start <= at'[d]
    BY <1>0, <2>2 DEF Owing
  <2>5. \A d \in owed' : alive' /\ runner'.start <= at'[d]
    BY <2>2, <2>3, <2>4, OwingLeaves
  <2> QED BY <2>2, <2>5 DEF Owing
<1>6. CASE TimePasses
  <2>1. clock' = clock + 1 /\ UNCHANGED <<at, checkpoint, alive, link, runner, owed>>
    BY <1>6 DEF TimePasses
  <2> QED BY <1>0, <2>1 DEF Owing
<1>7. CASE \/ PageArrives \/ PageFails \/ \E n \in 1..BatchSize : Gives(n)
           \/ \E e \in Posts : Hears(e) \/ Replays(e) \/ Admits(e)
  <2>1. alive /\ UNCHANGED <<clock, at, alive, link, owed>> /\ runner'.start = runner.start
    <3>1. Window(pass) => alive
      BY DEF Shape, Moment
    <3>2. CASE PageArrives \/ PageFails
      BY <3>1, <3>2 DEF PageArrives, PageFails, Window
    <3>3. CASE \E n \in 1..BatchSize : Gives(n)
      <4>1. PICK n \in 1..BatchSize : Gives(n)
        BY <3>3
      <4>2. /\ pass.stage = "giving" /\ UNCHANGED <<clock, at, alive, link, owed>>
            /\ runner' = [runner EXCEPT !.seen = @ \cup BatchOf(pass, n)]
        BY <4>1, GivesCases
      <4> QED BY <3>1, <4>2 DEF Window, Runners
    <3>4. CASE \E e \in Posts : Hears(e) \/ Replays(e) \/ Admits(e)
      <4>1. fly # {} \/ runner.backlog # {} => alive
        BY DEF Shape, Moment
      <4>2. PICK e \in Posts : Hears(e) \/ Replays(e) \/ Admits(e)
        BY <3>4
      <4>3. CASE Hears(e)
        <5>1. /\ alive /\ UNCHANGED <<clock, at, alive, link, owed>>
              /\ runner' = runner \/ runner' = [runner EXCEPT !.seen = @ \cup {e}]
          BY <4>1, <4>3 DEF Hears
        <5> QED BY <5>1 DEF Runners
      <4>4. CASE Replays(e)
        <5>1. /\ alive /\ UNCHANGED <<clock, at, alive, link, owed>>
              /\ runner' = [runner EXCEPT !.seen = @ \cup {e}, !.backlog = @ \cup {e}]
          BY <4>4 DEF Replays, Replayable
        <5> QED BY <5>1 DEF Runners
      <4>5. CASE Admits(e)
        <5>1. /\ alive /\ UNCHANGED <<clock, at, alive, link, owed>>
              /\ runner' = [runner EXCEPT !.backlog = @ \ {e}]
          BY <4>1, <4>5 DEF Admits
        <5> QED BY <5>1 DEF Runners
      <4> QED BY <4>2, <4>3, <4>4, <4>5
    <3> QED BY <1>7, <3>2, <3>3, <3>4
  <2> QED BY <2>1 DEF Owing
<1> QED BY <1>1, <1>2, <1>3, <1>4, <1>5, <1>6, <1>7 DEF CatchUpNext

(***************************************************************************)
(* Nothing is passed over. An event is settled when it is given, waits in  *)
(* the backlog or is lost, or is one that may be skipped; it is safe, too, *)
(* while a covered stream's route has it on its way, or it is owed.        *)
(***************************************************************************)
Settled ==
  {e \in OnRelay : \/ at[e] <= base \/ at[e] <= checkpoint.shrunk \/ taken[e] > 0
                   \/ e \in runner.backlog \cup lost}
Safe == Settled \cup Unheard \cup owed

\* The checkpoint c passes only events of T, and was read to a time before which all are.
Covers(c, T) == \A e \in OnRelay : ~Undelivered(c, e) => e \in T
ReadBy(c, T) == ~polled => \A e \in OnRelay : at[e] <= c.read => e \in T

\* What is not in T is read by the window, or left for the overlap of a next one.
ReadAll(p, T) ==
  \A e \in OnRelay : p.from.through < at[e] /\ at[e] <= p.upper =>
    e \in p.read \/ e \in T \/ (polled /\ at[e] > p.upper - Overlap)

\* Or the relay has it left below the last page of the window.
Beneath(p, e) == p.stage = "reading" /\ \A d \in p.read : Newer(d, e)
InRange(p, T) ==
  \A e \in OnRelay : p.from.through < at[e] /\ at[e] <= p.upper =>
    e \in p.read \/ Beneath(p, e) \/ e \in T \/ (polled /\ at[e] > p.upper - Overlap)

\* The window of p, with the checkpoint c, passes only events of T; what is delivered of
\* it is in S.
WindowCovers(p, c, S, T) ==
  Window(p) =>
    /\ Covers(p.from, T) /\ InRange(p, T)
    /\ p.stage = "reading" => c.heard \ p.from.heard \subseteq S
    /\ p.stage = "giving" =>
         /\ \A e \in p.read : e \in p.left \cup p.given \/ ~Undelivered(p.from, e)
         /\ p.given \subseteq S
         /\ \A e \in p.left : e \in S \/ Undelivered(c, e)

\* While the watch is on, all it has passed is safe, and all it has read to a time since
\* the program started.
NotPassed ==
  /\ runner.seen \subseteq Settled
  /\ Covers(checkpoint, Safe)
  /\ alive /\ runner.start <= checkpoint.read => ReadBy(checkpoint, Safe)
  /\ link.covered # NoTime => \A e \in OnRelay : at[e] > link.covered => e \in Safe
  /\ WindowCovers(pass, checkpoint, Settled, Safe)
PassInv == on => NotPassed

\* A step that stores no event passes only events of T.
PassesOnly(T) ==
  /\ runner'.seen \subseteq Settled' /\ Covers(checkpoint', T)
  /\ runner'.start <= checkpoint'.read => ReadBy(checkpoint', T)
  /\ link'.covered # NoTime => \A e \in OnRelay : at[e] > link'.covered => e \in T
  /\ WindowCovers(pass', checkpoint', Settled', T)

\* More events settled or safe pass no more.
LEMMA CoversMore ==
  ASSUME NEW S, NEW S1, S \subseteq S1, NEW T, NEW T1, T \subseteq T1, NEW c, NEW p
  PROVE  /\ Covers(c, T) => Covers(c, T1)
         /\ ReadBy(c, T) => ReadBy(c, T1)
         /\ WindowCovers(p, c, S, T) => WindowCovers(p, c, S1, T1)
<1>1. \A k : Covers(k, T) => Covers(k, T1)
  BY DEF Covers
<1>2. ReadBy(c, T) => ReadBy(c, T1)
  BY DEF ReadBy
<1>3. InRange(p, T) => InRange(p, T1)
  BY DEF InRange
<1>4. WindowCovers(p, c, S, T) => WindowCovers(p, c, S1, T1)
  BY <1>1, <1>3 DEF WindowCovers
<1> QED BY <1>1, <1>2, <1>4

\* A window begun passes what its checkpoint does.
LEMMA BegunCovers ==
  ASSUME NEW p \in Passes, NEW c, NEW l, NEW S, NEW T, Covers(c, T)
  PROVE  WindowCovers(Begun(p, c, l), c, S, T)
<1> DEFINE q == Begun(p, c, l)
<1>1. Window(q) => q.stage = "reading" /\ q.from = c /\ q.read = {}
  BY DEF Begun, Window, NoPass, Passes
<1> HIDE DEF q
<1>2. Window(q) => InRange(q, T)
  BY <1>1 DEF InRange, Beneath
<1>3. WindowCovers(q, c, S, T)
  BY <1>1, <1>2 DEF WindowCovers
<1> QED BY <1>3 DEF q

\* What a window's read times are, and the overlap.
LEMMA WindowTimes ==
  ASSUME at \in [Posts -> Maybe], NEW p, NEW b, NEW s, Frame(p, b, s)
  PROVE  /\ p.upper \in Int /\ p.from.through \in Int /\ Overlap \in Nat
         /\ OnRelay \subseteq Posts /\ p.read \subseteq OnRelay
         /\ \A e \in OnRelay : at[e] \in Int /\ 0 <= at[e]
BY PostsOrdered, OverlapIsOverlap, TimesAreNumbers DEF Frame, OnRelay

\* A window delivered passes what it read, and what it did not have to read.
LEMMA FinishCovers ==
  ASSUME at \in [Posts -> Maybe], NEW p, NEW b, NEW s, Frame(p, b, s), NEW l,
         NEW c, NEW f, Finishes(p, c, OverlapNow(l), f), NEW T,
         Covers(p.from, T), ReadAll(p, T), p.read \subseteq T, c.heard \subseteq T,
         \A e \in OnRelay : at[e] <= f.shrunk => e \in T
  PROVE  Covers(f, T) /\ ReadBy(f, T)
<1>1. /\ p.upper \in Int /\ p.from.through \in Int /\ Overlap \in Nat
      /\ OverlapNow(l) \in Nat /\ OnRelay \subseteq Posts
      /\ \A e \in OnRelay : at[e] \in Int /\ 0 <= at[e]
  BY WindowTimes, OverlapIsOverlap
<1>2. \A e \in OnRelay : at[e] <= p.from.through => e \in T
  BY <1>1 DEF Covers, Undelivered
<1>3. ASSUME NEW e \in OnRelay, at[e] <= p.upper,
             ~polled \/ at[e] <= p.upper - Overlap
      PROVE  e \in T
  BY <1>1, <1>2, <1>3 DEF ReadAll
<1>4. ASSUME NEW e \in OnRelay, at[e] <= p.upper - OverlapNow(l) PROVE e \in T
  <2>1. polled => OverlapNow(l) = Overlap
    BY OverlapIsOverlap
  <2> QED BY <1>1, <1>3, <1>4, <2>1
<1>5. \A e \in OnRelay : ~Undelivered(f, e) =>
        \/ e \in c.heard \cup p.read \/ at[e] <= p.from.through
        \/ at[e] <= p.upper - OverlapNow(l) \/ at[e] <= f.shrunk
  BY <1>1 DEF Finishes
<1>6. Covers(f, T)
  BY <1>2, <1>4, <1>5 DEF Covers
<1>7. ReadBy(f, T)
  <2> SUFFICES ASSUME ~polled, NEW e \in OnRelay, at[e] <= f.read PROVE e \in T
    BY DEF ReadBy
  <2>1. f.read # NoTime
    BY <1>1 DEF NoTime
  <2>2. at[e] <= p.upper
    BY <2>1 DEF Finishes
  <2> QED BY <1>3, <2>2
<1> QED BY <1>6, <1>7

\* A window read to its end, or cut, passes only events of T.
LEMMA WindowedCovers ==
  ASSUME at \in [Posts -> Maybe], clock \in Times, NEW p, NEW b \in Int, NEW c \in Checkpoints,
         c.heard \subseteq OnRelay, Frame(p, b, c.shrunk), NEW l,
         NEW S, NEW T, S \subseteq T, Covers(p.from, T), ReadAll(p, T),
         c.heard \ p.from.heard \subseteq S, p.given = {},
         \A e \in p.read : e \in p.left \/ ~Undelivered(p.from, e),
         \A e \in OnRelay : at[e] <= Windowed(p, c, l)[2].shrunk => e \in T
  PROVE  LET r == Windowed(p, c, l)
         IN  Covers(r[2], T) /\ ReadBy(r[2], T) /\ WindowCovers(r[1], r[2], S, T)
<1> DEFINE F(k) == Kept(k, Finished(p, k.heard, OverlapNow(l)))
<1>1. PICK c1 \in Checkpoints :
        /\ WindowSaved(p, c, c1)
        /\ p.left # {} => Windowed(p, c, l) = <<[p EXCEPT !.stage = "giving"], c1>>
        /\ p.left = {} => Windowed(p, c, l) = <<Begun(p, F(c1), l), F(c1)>>
  BY WindowedIs
<1>2. /\ OnRelay \subseteq Posts /\ p.read \subseteq OnRelay
      /\ \A e \in OnRelay : at[e] \in Int /\ 0 <= at[e]
  BY WindowTimes
<1>3. /\ c1.through = p.from.through /\ c1.after = p.from.after /\ c1.read = NoTime
      /\ c1.heard \subseteq c.heard /\ c1.heard \subseteq OnRelay
  BY <1>1 DEF WindowSaved
<1>4. \A e : Past(c1, e) <=> Past(p.from, e)
  BY <1>3 DEF Past
<1>5. \A e \in OnRelay : e \in p.from.heard => e \in T
  BY DEF Covers, Undelivered
<1>6. c1.heard \subseteq T
  BY <1>3, <1>5
<1>7. \A e \in OnRelay : ~Past(p.from, e) => e \in T
  BY UndeliveredIsPast DEF Covers
<1>8. Covers(c1, T)
  BY <1>4, <1>6, <1>7, UndeliveredIsPast DEF Covers
<1>9. CASE p.left # {}
  <2> DEFINE q == [p EXCEPT !.stage = "giving"]
  <2>1. /\ q.stage = "giving" /\ q.from = p.from /\ q.upper = p.upper /\ q.read = p.read
        /\ q.left = p.left /\ q.given = {}
    <3>1. p \in Passes
      BY DEF Frame
    <3> QED BY <3>1 DEF Passes
  <2> HIDE DEF q
  <2>2. InRange(q, T)
    BY <2>1 DEF InRange, ReadAll
  <2>3. ReadBy(c1, T)
    BY <1>2, <1>3 DEF ReadBy, NoTime
  <2>4. ASSUME NEW e \in p.left PROVE e \in S \/ Undelivered(c1, e)
    <3>1. Undelivered(p.from, e)
      BY <2>4 DEF Frame
    <3>2. Past(c1, e) /\ e \notin p.from.heard
      BY <1>4, <3>1, UndeliveredIsPast
    <3> QED BY <1>3, <3>2, UndeliveredIsPast
  <2>5. WindowCovers(q, c1, S, T)
    BY <2>1, <2>2, <2>4 DEF WindowCovers
  <2>6. Windowed(p, c, l) = <<q, c1>>
    BY <1>1, <1>9 DEF q
  <2> QED BY <1>8, <2>3, <2>5, <2>6
<1>10. CASE p.left = {}
  <2> DEFINE f == F(c1)
  <2>1. c.shrunk \in Int /\ c1.shrunk \in Int /\ c.shrunk <= c1.shrunk
    BY <1>1, CheckpointFields, TimesAreNumbers DEF WindowSaved
  <2>2. Frame(p, b, c1.shrunk)
    BY <2>1, FrameLater
  <2>3. Finishes(p, c1, OverlapNow(l), f)
    BY <1>3, <2>2, FinishOK
  <2>4. Windowed(p, c, l) = <<Begun(p, f, l), f>>
    BY <1>1, <1>10
  <2> HIDE DEF f
  <2>5. \A e \in OnRelay : at[e] <= f.shrunk => e \in T
    BY <2>4
  <2>6. p.read \subseteq T
    BY <1>2, <1>10 DEF Covers
  <2>7. Covers(f, T) /\ ReadBy(f, T)
    BY <1>6, <2>2, <2>3, <2>5, <2>6, FinishCovers
  <2>8. WindowCovers(Begun(p, f, l), f, S, T)
    BY <2>7, BegunCovers DEF Frame
  <2> QED BY <2>4, <2>7, <2>8
<1> QED BY <1>9, <1>10

\* What is settled stays so, and what is safe, when nothing that settles is taken back.
LEMMA SettledGrows ==
  ASSUME Shape, Shape', at' = at, base <= base', checkpoint.shrunk <= checkpoint'.shrunk,
         \A e \in Posts : taken[e] > 0 => taken'[e] > 0,
         \A e \in runner.backlog \cup lost :
           \/ e \in runner'.backlog \cup lost' \/ at[e] <= base' \/ taken'[e] > 0
  PROVE  /\ OnRelay' = OnRelay /\ Settled \subseteq Settled'
         /\ Unheard \cup owed \subseteq Safe' => Safe \subseteq Safe'
         /\ Settled' \subseteq Safe' /\ Settled \subseteq Safe
         /\ \A e \in OnRelay : at[e] <= checkpoint'.shrunk \/ at[e] <= base' => e \in Settled'
<1>1. OnRelay' = OnRelay /\ OnRelay \subseteq Posts
  BY DEF OnRelay
<1>2. /\ base \in Int /\ base' \in Int /\ checkpoint.shrunk \in Int /\ checkpoint'.shrunk \in Int
      /\ \A e \in OnRelay : at[e] \in Int
  BY <1>1, ShapeParts, PostsOrdered, CheckpointFields, TimesAreNumbers DEF Shape, CatchUpTypeOK
<1>3. Settled \subseteq Settled'
  BY <1>1, <1>2 DEF Settled
<1>4. \A e \in OnRelay : at[e] <= checkpoint'.shrunk \/ at[e] <= base' => e \in Settled'
  BY <1>1 DEF Settled
<1> QED BY <1>1, <1>3, <1>4 DEF Safe

\* What a step that stores no event must show.
LEMMA SamePassed ==
  ASSUME at' = at, polled' = polled, runner'.seen \subseteq Settled',
         Covers(checkpoint', Safe'),
         alive' /\ runner'.start <= checkpoint'.read => ReadBy(checkpoint', Safe'),
         link'.covered # NoTime => \A e \in OnRelay : at[e] > link'.covered => e \in Safe',
         WindowCovers(pass', checkpoint', Settled', Safe')
  PROVE  NotPassed'
<1>1. OnRelay' = OnRelay
  BY DEF OnRelay
<1>2. /\ Covers(checkpoint, Safe)'
      /\ alive' /\ runner'.start <= checkpoint'.read => ReadBy(checkpoint, Safe)'
  BY <1>1 DEF Covers, ReadBy, Undelivered, Before
<1>3. WindowCovers(pass, checkpoint, Settled, Safe)'
  BY <1>1 DEF WindowCovers, Covers, InRange, Beneath, Newer, Window, Undelivered, Before
<1> QED BY <1>1, <1>2, <1>3 DEF NotPassed

\* The step may also let go of events the stream has not gone past, if no route covers it.
LEMMA NarrowPassed ==
  ASSUME Shape', at' = at, polled' = polled, NEW T, PassesOnly(T),
         \A e \in T : e \in Safe' \/ ~Behind(e)',
         T \subseteq Safe' \/ link'.covered = NoTime
  PROVE  NotPassed'
<1>1. OnRelay' = OnRelay
  BY DEF OnRelay
<1>2. ASSUME NEW e \in OnRelay, ~Behind(e)'
      PROVE  /\ Undelivered(checkpoint', e)
             /\ alive' /\ runner'.start <= checkpoint'.read => ~(at[e] <= checkpoint'.read)
             /\ Window(pass') =>
                  /\ Undelivered(pass'.from, e)
                  /\ at[e] <= pass'.upper => e \in pass'.read \/ Beneath(pass', e)
  BY <1>1, <1>2 DEF Behind, Undelivered, Before, Below, Beneath, Newer, Window
<1>3. \A e \in T : e \in Safe' \/ ~Behind(e)'
  OBVIOUS
<1>4. Covers(checkpoint', Safe')
  BY <1>2, <1>3 DEF Covers, PassesOnly
<1>5. alive' /\ runner'.start <= checkpoint'.read => ReadBy(checkpoint', Safe')
  BY <1>2, <1>3 DEF ReadBy, PassesOnly
<1>6. link'.covered # NoTime => \A e \in OnRelay : at[e] > link'.covered => e \in Safe'
  BY DEF PassesOnly
<1>7. WindowCovers(pass', checkpoint', Settled', Safe')
  <2> SUFFICES ASSUME Window(pass') PROVE WindowCovers(pass', checkpoint', Settled', Safe')
    BY DEF WindowCovers
  <2>1. Covers(pass'.from, Safe')
    BY <1>2, <1>3 DEF Covers, PassesOnly, WindowCovers
  <2>2. InRange(pass', Safe')
    BY <1>2, <1>3 DEF InRange, PassesOnly, WindowCovers
  <2> QED BY <2>1, <2>2 DEF PassesOnly, WindowCovers
<1>8. runner'.seen \subseteq Settled'
  BY DEF PassesOnly
<1> QED BY <1>4, <1>5, <1>6, <1>7, <1>8, SamePassed

\* Catching up passes nothing but what was safe, or what is skipped because the watch was off.
LEMMA PassCatchesUp ==
  ASSUME Shape, Shape', at' = at, polled' = polled, clock' = clock,
         NEW c \in Checkpoints, NEW l \in Links, NEW r \in Runners, NEW o \in BOOLEAN,
         NEW old, CatchesUpTo(c, l, r, o, old), r.seen \subseteq OnRelay,
         NEW T, Settled' \subseteq T, \A e \in OnRelay : at[e] <= base' => e \in Settled',
         l.since # NoTime => r.start <= l.since,
         o /\ ~r.quiet =>
           /\ r.seen \subseteq Settled' /\ Covers(c, T) /\ (r.start <= c.read => ReadBy(c, T))
           /\ l.covered # NoTime => \A e \in OnRelay : at[e] > l.covered => e \in T
           /\ WindowCovers(old, c, Settled', T)
  PROVE  on' => PassesOnly(T)
<1> DEFINE k == Kept(c, From(clock))
           l1 == [l EXCEPT !.covered = Coverage(l)]
           moves == IF o THEN r.quiet ELSE c.through < clock
           reads == o /\ ~r.quiet /\ l.since # NoTime
<1>1. /\ link' = l1 /\ on' = o
      /\ runner' = [r EXCEPT !.quiet = ~o,
                             !.started = IF ~o THEN NoTime ELSE IF r.quiet THEN clock ELSE @]
      /\ base' = IF moves THEN Larger(base, clock) ELSE base
      /\ \/ ~reads /\ pass' = NoPass /\ checkpoint' = IF moves THEN k ELSE c
         \/ reads /\ checkpoint' = c /\ pass' = old
         \/ reads /\ checkpoint' = c /\ \E q \in Passes : q.at = clock /\ pass' = Begun(q, c, l1)
         \/ /\ reads /\ checkpoint' = k /\ old.stage = "done"
            /\ l1.covered # NoTime /\ Reached(c) >= Due(l1) /\ c.upper = NoTime
            /\ \/ pass' = old
               \/ \E q \in Passes : q.at = clock /\ pass' = Begun(q, k, l1)
  BY DEF CatchesUpTo
<1>2. /\ at \in [Posts -> Maybe] /\ clock \in Int /\ base \in Int /\ OnRelay \subseteq Posts
      /\ \A e \in OnRelay : at[e] \in Int /\ 0 <= at[e] /\ at[e] <= clock
      /\ c.read \in Int /\ c.through \in Int /\ base <= clock
  BY ShapeParts, PostsOrdered, CheckpointFields, TimesAreNumbers DEF OnRelay
<1>3. /\ l1.since = l.since /\ l1.route = l.route /\ l1.covered = Coverage(l)
      /\ l.since \in Int /\ l.covered \in Int
  BY TimesAreNumbers DEF Links
<1>4. runner'.seen = r.seen /\ runner'.start = r.start /\ r.start \in Int
  BY <1>1, TimesAreNumbers DEF Runners
<1> HIDE DEF k, l1
<1>5. SUFFICES ASSUME o PROVE PassesOnly(T)
  BY <1>1
<1>6. CASE r.quiet
  <2>1. base' = Larger(base, clock) /\ ~reads /\ pass' = NoPass
    BY <1>1, <1>5, <1>6
  <2>2. base' = clock
    BY <1>2, <2>1 DEF Larger
  <2>3. \A e \in OnRelay : e \in Settled' /\ e \in T
    BY <1>2, <2>2
  <2>4. ~Window(pass')
    BY <2>1, PassFields
  <2>5. WindowCovers(pass', checkpoint', Settled', T)
    BY <2>4 DEF WindowCovers
  <2>6. runner'.seen \subseteq Settled'
    BY <1>4, <2>3
  <2>7. Covers(checkpoint', T) /\ ReadBy(checkpoint', T)
    BY <2>3 DEF Covers, ReadBy
  <2> QED BY <2>3, <2>5, <2>6, <2>7 DEF PassesOnly
<1>7. CASE ~r.quiet
  <2>1. /\ r.seen \subseteq Settled' /\ Covers(c, T) /\ (r.start <= c.read => ReadBy(c, T))
        /\ l.covered # NoTime => \A e \in OnRelay : at[e] > l.covered => e \in T
        /\ WindowCovers(old, c, Settled', T)
    BY <1>5, <1>7
  <2>2. link'.covered # NoTime => \A e \in OnRelay : at[e] > link'.covered => e \in T
    <3>1. link'.covered = Coverage(l)
      BY <1>1, <1>3
    <3>2. Coverage(l) \in {NoTime, clock} \/ (l.covered # NoTime /\ Coverage(l) = l.covered)
      BY DEF Coverage
    <3> QED BY <1>2, <2>1, <3>1, <3>2
  <2>3. runner'.seen \subseteq Settled' /\ ~moves
    BY <1>4, <1>5, <1>7, <2>1
  <2>4. SUFFICES /\ Covers(checkpoint', T) /\ (r.start <= checkpoint'.read => ReadBy(checkpoint', T))
                 /\ WindowCovers(pass', checkpoint', Settled', T)
    BY <1>4, <2>2, <2>3, <2>4 DEF PassesOnly
  <2>5. CASE ~reads /\ pass' = NoPass /\ checkpoint' = IF moves THEN k ELSE c
    <3>1. checkpoint' = c
      BY <2>3, <2>5
    <3>2. WindowCovers(pass', checkpoint', Settled', T)
      BY <2>5, PassFields DEF WindowCovers
    <3> QED BY <2>1, <3>1, <3>2
  <2>6. CASE reads /\ checkpoint' = c /\ pass' = old
    BY <2>1, <2>6
  <2>7. CASE reads /\ checkpoint' = c /\ \E q \in Passes : q.at = clock /\ pass' = Begun(q, c, l1)
    BY <2>1, <2>7, BegunCovers
  <2>8. CASE /\ reads /\ checkpoint' = k /\ old.stage = "done"
             /\ l1.covered # NoTime /\ Reached(c) >= Due(l1) /\ c.upper = NoTime
             /\ \/ pass' = old
                \/ \E q \in Passes : q.at = clock /\ pass' = Begun(q, k, l1)
    <3>1. Coverage(l1) = l1.covered /\ l1.covered = link'.covered /\ ~polled
      BY <1>1, <1>3, <2>8 DEF Coverage
    <3>2. l1.covered \in Int
      BY <1>2, <1>3 DEF Coverage, NoTime
    <3>3. Due(l1) >= l1.covered /\ Due(l1) \in Int
      BY <1>3, <3>1, <3>2, TimesAreNumbers DEF Due
    <3>4. Due(l1) >= l.since /\ r.start <= l.since
      BY <1>3, <2>8, <3>2, <3>1, TimesAreNumbers DEF Due
    <3>5. ASSUME NEW e \in OnRelay PROVE e \in T
      <4>1. CASE at[e] > l1.covered
        BY <2>2, <2>8, <3>1, <4>1
      <4>2. CASE at[e] <= Reached(c)
        <5>1. CASE c.read # NoTime
          <6>1. r.start <= c.read
            BY <1>2, <1>3, <1>4, <2>8, <3>3, <3>4, <5>1 DEF Reached
          <6> QED BY <2>1, <3>1, <4>2, <5>1, <6>1 DEF Reached, ReadBy
        <5>2. CASE c.read = NoTime
          <6>1. ~Undelivered(c, e)
            BY <1>2, <4>2, <5>2 DEF Reached, Undelivered
          <6> QED BY <2>1, <6>1 DEF Covers
        <5> QED BY <5>1, <5>2
      <4>3. Reached(c) \in Int
        BY <1>2 DEF Reached
      <4> QED BY <1>2, <2>8, <3>2, <3>3, <4>1, <4>2, <4>3
    <3>6. Covers(k, T) /\ ReadBy(k, T)
      BY <3>5 DEF Covers, ReadBy
    <3>7. WindowCovers(pass', k, Settled', T)
      <4>1. pass' = old => ~Window(pass')
        BY <2>8 DEF Window
      <4>2. ~Window(pass') => WindowCovers(pass', k, Settled', T)
        BY DEF WindowCovers
      <4> QED BY <2>8, <3>6, <4>1, <4>2, BegunCovers
    <3> QED BY <2>8, <3>6, <3>7
  <2> QED BY <1>1, <2>5, <2>6, <2>7, <2>8
<1> QED BY <1>6, <1>7

\* The connection's steps, ticks, edits and starts pass nothing over.
LEMMA PassLink ==
  ASSUME Shape, Shape', Owing, PassInv,
         \/ LinkMade \/ LinkDrops \/ RouteLive \/ RouteDrops
         \/ Edits \/ \E due \in BOOLEAN : Ticks(due)
  PROVE  PassInv'
<1> USE ShapeParts
<1>1. PICK l \in Links, o \in BOOLEAN, old \in Passes :
        /\ CatchesUpTo(checkpoint, l, runner, o, old) /\ (o /\ ~runner.quiet => on)
        /\ l.covered # NoTime => l.covered = link.covered
        /\ l.since \in {link.since, clock, NoTime}
        /\ old = NoPass \/ old = pass
        /\ alive /\ UNCHANGED <<at, clock, polled, alive, taken>>
        /\ \/ fly' = fly /\ owed' = owed /\ lost' = lost
           \/ ~l.route /\ Leaves(Unheard)
  BY LinkCatchesUp
<1>2. /\ runner'.backlog = runner.backlog /\ runner'.seen = runner.seen /\ base <= base'
      /\ checkpoint.shrunk <= checkpoint'.shrunk
  <2>1. runner'.backlog = runner.backlog /\ runner'.seen = runner.seen
    BY <1>1 DEF CatchesUpTo, Runners
  <2>2. base <= base'
    BY <1>1, TimesAreNumbers DEF CatchesUpTo
  <2>3. checkpoint' = checkpoint \/ checkpoint' = Kept(checkpoint, From(clock))
    BY <1>1 DEF CatchesUpTo
  <2>4. checkpoint.shrunk <= checkpoint'.shrunk
    BY <2>3, MovedHolds
  <2> QED BY <2>1, <2>2, <2>4
<1> DEFINE T == Safe \cup Safe'
<1>3. /\ OnRelay' = OnRelay /\ Settled \subseteq Settled' /\ Settled' \subseteq T
      /\ Safe \subseteq T /\ \A e \in OnRelay : at[e] <= base' => e \in Settled'
  <2>1. lost \subseteq lost'
    BY <1>1, LeavesFields
  <2> QED BY <1>1, <1>2, <2>1, SettledGrows
<1>4. /\ \A e \in T : e \in Safe' \/ ~Behind(e)'
      /\ T \subseteq Safe' \/ link'.covered = NoTime
  <2>1. Unheard \subseteq OnRelay /\ owed \subseteq OnRelay
    BY ComingOnRelay DEF Shape, CatchUpTypeOK
  <2>2. CASE fly' = fly /\ owed' = owed /\ lost' = lost
    <3>1. Unheard' = Unheard
      BY <1>1, <1>2, <2>2 DEF Unheard
    <3>2. Safe \subseteq Safe'
      BY <1>3, <2>2, <3>1 DEF Safe
    <3> QED BY <3>2
  <2>3. CASE ~l.route /\ Leaves(Unheard)
    <3>1. link'.covered = NoTime
      BY <1>1, <2>3 DEF CatchesUpTo, Coverage, Links
    <3>2. owed \subseteq owed' /\ \A e \in Unheard : Behind(e)' => e \in owed' \cup lost'
      BY <2>3, LeavesFields
    <3>3. \A e \in OnRelay : e \in owed' \cup lost' => e \in Safe'
      BY <1>3 DEF Safe, Settled
    <3>4. Settled' \subseteq Safe'
      BY DEF Safe
    <3>5. \A e \in Safe : e \in Safe' \/ ~Behind(e)'
      BY <1>3, <2>1, <3>2, <3>3, <3>4 DEF Safe
    <3> QED BY <3>1, <3>5
  <2> QED BY <1>1, <2>2, <2>3
<1>5. l.since # NoTime => runner.start <= l.since
  BY <1>1 DEF Owing
<1> HIDE DEF T
<1>6. o /\ ~runner.quiet =>
        /\ runner.seen \subseteq Settled' /\ Covers(checkpoint, T) /\ (runner.start <= checkpoint.read => ReadBy(checkpoint, T))
        /\ l.covered # NoTime => \A e \in OnRelay : at[e] > l.covered => e \in T
        /\ WindowCovers(old, checkpoint, Settled', T)
  <2> SUFFICES ASSUME o /\ ~runner.quiet
               PROVE  /\ runner.seen \subseteq Settled' /\ Covers(checkpoint, T)
                      /\ (runner.start <= checkpoint.read => ReadBy(checkpoint, T))
                      /\ l.covered # NoTime => \A e \in OnRelay : at[e] > l.covered => e \in T
                      /\ WindowCovers(old, checkpoint, Settled', T)
    OBVIOUS
  <2>1. NotPassed
    BY <1>1 DEF PassInv
  <2>2. WindowCovers(old, checkpoint, Settled', T)
    <3>1. ~Window(NoPass)
      BY PassFields
    <3>2. WindowCovers(NoPass, checkpoint, Settled', T)
      BY <3>1 DEF WindowCovers
    <3>3. WindowCovers(pass, checkpoint, Settled', T)
      BY <1>3, <2>1, CoversMore DEF NotPassed
    <3> QED BY <1>1, <3>2, <3>3
  <2>3. Covers(checkpoint, T) /\ (runner.start <= checkpoint.read => ReadBy(checkpoint, T))
    BY <1>1, <1>3, <2>1, CoversMore DEF NotPassed
  <2> QED BY <1>1, <1>3, <2>1, <2>2, <2>3 DEF NotPassed
<1>7. on' => PassesOnly(T)
  BY <1>1, <1>3, <1>5, <1>6, PassCatchesUp
<1> QED BY <1>1, <1>4, <1>7, NarrowPassed DEF PassInv

\* Ends and starts of the program pass nothing over.
LEMMA PassEnds ==
  ASSUME Shape, Shape', Owing, PassInv, ProgramEnds \/ ProgramStarts
  PROVE  PassInv'
<1> USE ShapeParts
<1>1. CASE ProgramEnds
  <2>1. /\ alive /\ ~alive' /\ pass' = NoPass
        /\ lost' = lost \cup {e \in Coming : ~Undelivered(checkpoint, e)}
        /\ link' = [since |-> NoTime, route |-> FALSE, covered |-> NoTime]
        /\ runner' = [seen |-> {}, backlog |-> {}, quiet |-> FALSE, started |-> NoTime, start |-> 0]
        /\ UNCHANGED <<polled, at, checkpoint, on, taken, base>>
    BY <1>1 DEF ProgramEnds
  <2>2. OnRelay' = OnRelay
    BY <2>1 DEF OnRelay
  <2>3. SUFFICES ASSUME NotPassed PROVE NotPassed'
    BY <2>1 DEF PassInv
  <2>4. Settled' \subseteq Safe'
    BY DEF Safe
  <2>5. ASSUME NEW e \in OnRelay, ~Undelivered(checkpoint, e) PROVE e \in Safe'
    <3>1. e \in Coming \cup lost => e \in lost'
      BY <2>1, <2>5
    <3>2. e \in lost' => e \in Settled'
      BY <2>2 DEF Settled
    <3>3. e \in Settled => e \in Settled' \/ e \in Coming \cup lost
      BY <2>1, <2>2 DEF Settled, Coming
    <3>4. e \in Unheard => e \in Coming
      BY DEF Coming
    <3>5. e \in owed => e \in Settled \/ e \in Coming
      <4>1. e \in owed /\ e \notin runner.seen => Replayable(e)
        BY DEF Replayable, Owing
      <4> QED BY <2>3, <4>1 DEF NotPassed, Coming
    <3>6. e \in Safe
      BY <2>3, <2>5 DEF NotPassed, Covers
    <3> QED BY <2>4, <3>1, <3>2, <3>3, <3>4, <3>5, <3>6 DEF Safe
  <2>6. Covers(checkpoint', Safe')
    BY <2>1, <2>5 DEF Covers
  <2>7. WindowCovers(pass', checkpoint', Settled', Safe')
    BY <2>1, PassFields DEF WindowCovers
  <2>8. runner'.seen = {} /\ link'.covered = NoTime
    BY <2>1
  <2> QED BY <2>1, <2>6, <2>7, <2>8, SamePassed
<1>2. CASE ProgramStarts
  <2> DEFINE c == Reopened(checkpoint)
             r == [runner EXCEPT !.start = clock]
  <2>1. /\ ~alive
        /\ CatchesUp(FALSE, FALSE, c, link, r, on, pass)
        /\ UNCHANGED <<polled, clock, at, fly, taken, owed, lost, upsets>>
    BY <1>2 DEF ProgramStarts
  <2>2. Holds(checkpoint, checkpoint.heard, c) /\ c \in Checkpoints
    BY ReopenedOK DEF Shape
  <2>3. /\ r \in Runners /\ r.seen = runner.seen /\ r.backlog = runner.backlog
        /\ r.quiet = runner.quiet /\ r.start = clock
    BY TimesAreNumbers DEF Runners, Times
  <2> HIDE DEF c, r
  <2>4. CatchesUpTo(c, link, r, on, pass)
    BY <2>1, CatchesUpCases
  <2>5. /\ pass.stage = "none" /\ ~runner.quiet /\ runner.seen = {} /\ link.covered = NoTime
        /\ link.since = NoTime
    BY <2>1 DEF Shape, Moment
  <2>6. /\ runner'.backlog = runner.backlog /\ runner'.seen = runner.seen /\ base <= base'
        /\ checkpoint.shrunk <= checkpoint'.shrunk /\ c.shrunk <= checkpoint'.shrunk
    <3>1. runner'.backlog = runner.backlog /\ runner'.seen = runner.seen
      BY <2>3, <2>4 DEF CatchesUpTo, Runners
    <3>2. base <= base'
      BY <2>4, TimesAreNumbers DEF CatchesUpTo
    <3>3. checkpoint' = c \/ checkpoint' = Kept(c, From(clock))
      BY <2>4 DEF CatchesUpTo
    <3>4. c.shrunk <= checkpoint'.shrunk /\ checkpoint.shrunk <= c.shrunk
      BY <2>2, <3>3, MovedHolds, CheckpointFields, TimesAreNumbers DEF Holds
    <3>5. checkpoint' \in Checkpoints /\ checkpoint'.shrunk \in Int /\ c.shrunk \in Int
      BY <2>2, CheckpointFields, TimesAreNumbers DEF Shape, CatchUpTypeOK
    <3> QED BY <3>1, <3>2, <3>4, <3>5
  <2>7. /\ OnRelay' = OnRelay /\ Safe \subseteq Safe' /\ Settled' \subseteq Safe'
        /\ \A e \in OnRelay : at[e] <= base' \/ at[e] <= checkpoint'.shrunk => e \in Settled'
    <3>1. UNCHANGED <<fly, polled, owed, lost>>
      BY <2>1
    <3>2. Unheard \cup owed \subseteq Safe'
      BY <2>6, <3>1 DEF Unheard, Safe
    <3> QED BY <2>1, <2>6, <3>2, SettledGrows
  <2>8. \A e \in OnRelay : at[e] <= c.shrunk => e \in Safe'
    <3>1. checkpoint' \in Checkpoints /\ checkpoint'.shrunk \in Int /\ c.shrunk \in Int
      BY <2>2, CheckpointFields, TimesAreNumbers DEF Shape, CatchUpTypeOK
    <3>2. \A e \in OnRelay : at[e] \in Int
      BY PostsOrdered
    <3> QED BY <2>6, <2>7, <3>1, <3>2
  <2>9. on => Covers(c, Safe')
    <3> SUFFICES ASSUME on PROVE Covers(c, Safe')
      OBVIOUS
    <3>1. Covers(checkpoint, Safe')
      BY <2>7, CoversMore DEF PassInv, NotPassed
    <3>2. checkpoint.heard \in SUBSET Posts
      BY CheckpointFields
    <3>3. ASSUME NEW e \in OnRelay, ~Undelivered(c, e) PROVE e \in Safe'
      <4>1. e \in checkpoint.heard \/ ~Past(checkpoint, e) \/ at[e] <= c.shrunk
        BY <2>2, <3>2, <3>3, HeardPasses
      <4>2. at[e] <= c.shrunk \/ ~Undelivered(checkpoint, e)
        BY <4>1, UndeliveredIsPast
      <4> QED BY <2>8, <3>1, <4>2 DEF Covers
    <3> QED BY <3>3 DEF Covers
  <2>10. WindowCovers(pass, c, Settled', Safe')
    BY <2>5 DEF WindowCovers, Window
  <2>11. ~(clock <= c.read)
    <3>1. checkpoint.read < clock
      BY <2>1 DEF Owing
    <3>2. c.read = NoTime \/ c.read = checkpoint.read
      BY <2>2 DEF Holds
    <3>3. 0 <= clock /\ clock \in Int /\ checkpoint.read \in Int
      BY CheckpointFields, TimesAreNumbers
    <3> QED BY <3>1, <3>2, <3>3 DEF NoTime
  <2>12. on' => PassesOnly(Safe')
    BY <2>1, <2>2, <2>3, <2>4, <2>5, <2>7, <2>9, <2>10, <2>11, PassCatchesUp
  <2> QED BY <2>1, <2>12, NarrowPassed DEF PassInv
<1> QED BY <1>1, <1>2

\* Nor do the clock's steps and failing pages.
LEMMA PassTime ==
  ASSUME Shape, Shape', PassInv, TimePasses \/ PageFails
  PROVE  PassInv'
<1>1. /\ UNCHANGED <<polled, at, fly, checkpoint, on, alive, link, runner, taken, base, owed, lost>>
      /\ pass' = pass \/ pass'.stage = "failed"
  BY PassFields DEF TimePasses, PageFails, NoPass
<1>2. Settled' = Settled /\ Safe' = Safe
  BY <1>1 DEF Settled, Safe, OnRelay, Unheard
<1>3. SUFFICES ASSUME NotPassed PROVE NotPassed'
  BY <1>1 DEF PassInv
<1>4. pass'.stage = "failed" => WindowCovers(pass', checkpoint', Settled', Safe')
  BY DEF WindowCovers, Window
<1>5. WindowCovers(pass', checkpoint', Settled', Safe')
  BY <1>1, <1>2, <1>3, <1>4 DEF NotPassed
<1> QED BY <1>1, <1>2, <1>3, <1>5, SamePassed DEF NotPassed

\* Nor does what the relay stores: a covered stream's route brings it, or a later window
\* does, or else it is owed or lost; a polled stream's overlap reaches back to it.
LEMMA PassStores ==
  ASSUME Shape, Shape', PassInv, NEW e \in Posts, NEW t \in Times, Stores(e, t)
  PROVE  PassInv'
<1> USE ShapeParts
<1>1. /\ at[e] = NoTime /\ t <= clock /\ at' = [at EXCEPT ![e] = t]
      /\ at' \in [Posts -> Maybe] /\ e \notin OnRelay
      /\ OnRelay' = OnRelay \cup {e} /\ \A d \in OnRelay : at'[d] = at[d]
      /\ UNCHANGED <<polled, clock, checkpoint, on, alive, link, runner, pass, taken, base, upsets>>
      /\ owed \subseteq owed' /\ lost \subseteq lost' /\ fly \subseteq fly'
      /\ checkpoint.after # NoPost => checkpoint.after \in OnRelay
      /\ Window(pass) /\ pass.from.after # NoPost => pass.from.after \in OnRelay
  BY StoresFrame
<1>2. t \in Int /\ 0 <= t /\ at'[e] = t /\ clock - Drift <= t /\ Drift \in Nat /\ Overlap \in Nat
      /\ Drift < Overlap
  <2>1. t \in Larger(0, clock - Drift)..clock
    BY DEF Stores
  <2>2. Drift \in Nat /\ Overlap \in Nat /\ Drift < Overlap
    BY CatchUpAssumption
  <2> QED BY <1>1, <2>1, <2>2, TimesAreNumbers DEF Larger
<1>3. SUFFICES ASSUME NotPassed, on PROVE NotPassed'
  BY <1>1 DEF PassInv
<1>4. Settled \subseteq Settled' /\ Safe \subseteq Safe' /\ Settled' \subseteq Safe'
  BY <1>1 DEF Settled, Safe, Unheard
<1>5. /\ checkpoint.through \in Int /\ checkpoint.read \in Int /\ pass.upper \in Int
      /\ pass.from.through \in Int /\ base \in Int /\ checkpoint.shrunk \in Int
      /\ checkpoint.through \in Times /\ checkpoint.heard \subseteq OnRelay
      /\ checkpoint.read # NoTime => checkpoint.read > checkpoint.through
      /\ checkpoint.after # NoPost => ~polled
      /\ Lags(checkpoint, base, checkpoint.shrunk)
  BY CheckpointFields, PassFields, TimesAreNumbers DEF Shape, Ordered, Begins
<1>6. Window(pass) => /\ Frame(pass, base, checkpoint.shrunk) /\ pass.from.heard \subseteq OnRelay
                      /\ pass.from.through < pass.upper /\ pass.upper <= clock
                      /\ pass.from.after # NoPost => ~polled /\ at[pass.from.after] <= pass.upper
                      /\ Lags(pass.from, base, checkpoint.shrunk)
                      /\ pass.read \subseteq OnRelay /\ pass.left \cup pass.given \subseteq pass.read
  BY DEF Shape, WindowOK, Frame
<1>7. /\ \A d \in OnRelay : Undelivered(checkpoint, d)' <=> Undelivered(checkpoint, d)
      /\ Window(pass) =>
           \A d \in OnRelay : Undelivered(pass.from, d)' <=> Undelivered(pass.from, d)
  BY <1>1 DEF Undelivered, Before
<1>8. /\ ~Undelivered(checkpoint, e)' =>
           \/ t <= checkpoint.through
           \/ /\ checkpoint.after # NoPost
              /\ t < at[checkpoint.after] \/ (t = at[checkpoint.after] /\ e < checkpoint.after)
      /\ Window(pass) /\ ~Undelivered(pass.from, e)' =>
           \/ t <= pass.from.through
           \/ pass.from.after # NoPost /\ t <= pass.upper
  <2>1. ~Undelivered(checkpoint, e)' =>
          t <= checkpoint.through \/ (checkpoint.after # NoPost /\ ~Before(checkpoint.after, e)')
    BY <1>1, <1>2, <1>5 DEF Undelivered
  <2>2. checkpoint.after # NoPost /\ ~Before(checkpoint.after, e)' =>
          t < at[checkpoint.after] \/ (t = at[checkpoint.after] /\ e < checkpoint.after)
    <3> SUFFICES ASSUME checkpoint.after # NoPost, ~Before(checkpoint.after, e)'
                 PROVE  t < at[checkpoint.after] \/ (t = at[checkpoint.after] /\ e < checkpoint.after)
      OBVIOUS
    <3> DEFINE a == checkpoint.after
    <3>1. a \in OnRelay /\ a # e /\ at'[a] = at[a] /\ a \in Nat /\ e \in Nat /\ at[a] \in Int
      BY <1>1, PostsOrdered
    <3>2. ~(at[a] < t \/ (at[a] = t /\ a < e))
      BY <1>1, <1>2, <3>1 DEF Before
    <3> HIDE DEF a
    <3>3. t < at[a] \/ (t = at[a] /\ e < a)
      BY <1>2, <3>1, <3>2
    <3> QED BY <3>3 DEF a
  <2>3. Window(pass) /\ ~Undelivered(pass.from, e)' =>
          t <= pass.from.through \/ (pass.from.after # NoPost /\ ~Before(pass.from.after, e)')
    BY <1>1, <1>2, <1>5, <1>6 DEF Undelivered
  <2>4. Window(pass) /\ pass.from.after # NoPost /\ ~Before(pass.from.after, e)' => t <= pass.upper
    <3> SUFFICES ASSUME Window(pass), pass.from.after # NoPost, ~Before(pass.from.after, e)'
                 PROVE  t <= pass.upper
      OBVIOUS
    <3> DEFINE a == pass.from.after
    <3>1. a \in OnRelay /\ at'[a] = at[a] /\ at[a] \in Int /\ at[a] <= pass.upper
      BY <1>1, <1>6, PostsOrdered
    <3>2. ~(at[a] < t)
      BY <1>1, <1>2, <3>1 DEF Before
    <3> HIDE DEF a
    <3> QED BY <1>2, <1>5, <3>1, <3>2
  <2> QED BY <2>1, <2>2, <2>3, <2>4
<1>9. /\ ~Undelivered(checkpoint, e)' => e \in Safe'
      /\ alive /\ runner.start <= checkpoint.read /\ ~polled /\ t <= checkpoint.read => e \in Safe'
      /\ link.covered # NoTime /\ t > link.covered => e \in Safe'
      /\ Window(pass) /\ ~Undelivered(pass.from, e)' => e \in Safe'
      /\ Window(pass) /\ pass.from.through < t /\ t <= pass.upper =>
           e \in Safe' \/ Beneath(pass, e)' \/ (polled /\ t > pass.upper - Overlap)
  <2>1. CASE polled
    <3>1. /\ link.covered = NoTime /\ checkpoint.after = NoPost
          /\ Window(pass) => pass.from.after = NoPost
      BY <1>5, <1>6, <2>1 DEF Shape, Moment
    <3>2. t > clock - Overlap
      BY <1>2
    <3>3. t <= base \/ t <= checkpoint.shrunk => e \in Safe'
      BY <1>1, <1>2, <1>4 DEF Settled
    <3>4. t <= checkpoint.through => e \in Safe'
      BY <1>2, <1>5, <2>1, <3>2, <3>3 DEF Lags
    <3>5. Window(pass) /\ t <= pass.from.through => e \in Safe'
      BY <1>2, <1>5, <1>6, <2>1, <3>2, <3>3 DEF Lags
    <3>6. Window(pass) => t > pass.upper - Overlap
      BY <1>2, <1>5, <1>6
    <3> QED BY <1>8, <2>1, <3>1, <3>4, <3>5, <3>6
  <2>2. CASE ~polled /\ e \in fly'
    BY <1>1, <2>2 DEF Safe, Unheard, Shape, Moment
  <2>3. CASE ~polled /\ e \notin fly'
    <3>1. ~link.route /\ Leaves({e})
      BY <2>3 DEF Stores
    <3>2. link.covered = NoTime
      BY <3>1 DEF Shape, Moment
    <3>3. Behind(e)' => e \in owed' \cup lost'
      BY <3>1, LeavesFields
    <3>4. e \in owed' \cup lost' => e \in Safe'
      BY <1>1 DEF Safe, Settled
    <3>5. ~Undelivered(checkpoint, e)' => Behind(e)'
      BY DEF Behind
    <3>6. alive /\ runner.start <= checkpoint.read /\ t <= checkpoint.read => Behind(e)'
      BY <1>1, <1>2 DEF Behind
    <3>7. Window(pass) /\ ~Undelivered(pass.from, e)' => Behind(e)'
      BY <1>1 DEF Behind, Window
    <3>8. ASSUME Window(pass), pass.from.through < t, t <= pass.upper, ~Behind(e)'
          PROVE  Beneath(pass, e)'
      <4>1. e \notin pass.read
        BY <1>1, <1>6, <3>8
      <4>2. pass.stage = "reading" /\ e \in Below(pass)'
        BY <1>1, <1>2, <3>8, <4>1 DEF Behind, Window
      <4> QED BY <1>1, <4>2 DEF Below, Beneath
    <3> QED BY <2>3, <3>2, <3>3, <3>4, <3>5, <3>6, <3>7, <3>8
  <2> QED BY <2>1, <2>2, <2>3
<1>10. runner'.seen \subseteq Settled'
  BY <1>1, <1>3, <1>4 DEF NotPassed
<1>11. /\ Covers(checkpoint, Safe)'
       /\ (alive /\ runner.start <= checkpoint.read => ReadBy(checkpoint, Safe))'
  BY <1>1, <1>3, <1>4, <1>7, <1>9 DEF NotPassed, Covers, ReadBy
<1>12. link'.covered # NoTime => \A d \in OnRelay' : at'[d] > link'.covered => d \in Safe'
  BY <1>1, <1>3, <1>4, <1>9 DEF NotPassed
<1>13. WindowCovers(pass, checkpoint, Settled, Safe)'
  <2> SUFFICES ASSUME Window(pass)
               PROVE  WindowCovers(pass, checkpoint, Settled, Safe)'
    BY <1>1 DEF WindowCovers, Window
  <2>1. WindowCovers(pass, checkpoint, Settled, Safe)
    BY <1>3 DEF NotPassed
  <2>2. Covers(pass.from, Safe)'
    BY <1>1, <1>4, <1>7, <1>9, <2>1 DEF Covers, WindowCovers
  <2>3. InRange(pass, Safe)'
    <3> SUFFICES ASSUME NEW d \in OnRelay', pass.from.through < at'[d], at'[d] <= pass.upper
                 PROVE  \/ d \in pass.read \/ Beneath(pass, d)' \/ d \in Safe'
                        \/ polled /\ at'[d] > pass.upper - Overlap
      BY <1>1 DEF InRange
    <3>1. CASE d = e
      BY <1>1, <1>9, <3>1
    <3>2. CASE d \in OnRelay
      <4>1. at'[d] = at[d] /\ \A x \in pass.read : at'[x] = at[x]
        BY <1>1, <1>6, <3>2
      <4>2. Beneath(pass, d) => Beneath(pass, d)'
        BY <1>1, <4>1 DEF Beneath, Newer
      <4>3. InRange(pass, Safe)
        BY <2>1 DEF WindowCovers
      <4> QED BY <1>4, <3>2, <4>1, <4>2, <4>3 DEF InRange
    <3> QED BY <1>1, <3>1, <3>2
  <2>4. \A d \in pass.read : d \in OnRelay
    BY <1>6
  <2>5. pass.stage = "giving" =>
          /\ \A d \in pass.read : d \in pass.left \cup pass.given \/ ~Undelivered(pass.from, d)'
          /\ \A d \in pass.left : d \in Settled' \/ Undelivered(checkpoint, d)'
    BY <1>4, <1>6, <1>7, <2>1 DEF WindowCovers
  <2>6. pass.given \subseteq Settled \/ pass.stage # "giving"
    BY <2>1 DEF WindowCovers
  <2>7. pass.stage = "reading" => checkpoint.heard \ pass.from.heard \subseteq Settled
    BY <2>1 DEF WindowCovers
  <2> QED BY <1>1, <1>4, <2>2, <2>3, <2>5, <2>6, <2>7 DEF WindowCovers
<1>14. NotPassed'
  BY ONLY <1>10, <1>11, <1>12, <1>13 DEF NotPassed
<1> QED BY <1>14

\* Nor does an event heard, replayed or admitted.
LEMMA PassHears ==
  ASSUME Shape, Shape', PassInv, NEW e \in Posts, Hears(e) \/ Replays(e) \/ Admits(e)
  PROVE  PassInv'
<1> USE ShapeParts
<1>1. /\ e \in OnRelay /\ UNCHANGED <<polled, at, on, alive, link, pass, base, owed, lost>>
      /\ runner.backlog \subseteq OnRelay /\ owed \subseteq OnRelay
  BY DEF Hears, Replays, Replayable, Admits, Shape, CatchUpTypeOK
<1>2. SUFFICES ASSUME NotPassed, on PROVE NotPassed'
  BY <1>1 DEF PassInv
<1> DEFINE h == HeardIn(checkpoint, e)
<1>3. /\ h \in Checkpoints /\ h.upper = checkpoint.upper
      /\ checkpoint.shrunk <= h.shrunk
      /\ h.heard \subseteq checkpoint.heard \cup {e}
      /\ h.read # NoTime => h.read = checkpoint.read
      /\ (h = checkpoint /\ ~Undelivered(checkpoint, e)) \/ Holds(checkpoint, checkpoint.heard \cup {e}, h)
  BY <1>1, HeardInOK DEF Shape
<1> HIDE DEF h
<1>4. /\ checkpoint' = checkpoint \/ checkpoint' = h
      /\ runner'.seen \subseteq runner.seen \cup {e} /\ runner'.start = runner.start
      /\ e \in runner.seen \/ taken'[e] > 0 \/ e \in runner'.backlog
      /\ \A d \in Posts : taken[d] > 0 => taken'[d] > 0
      /\ \A d \in runner.backlog :
           d \in runner'.backlog \/ at[d] <= base \/ taken'[d] > 0
      /\ \A d \in fly : d \in fly' \/ d = e
  <2>1. /\ taken \in [Posts -> Nat] /\ runner.started \in Int /\ at[e] \in Int
        /\ runner.seen \in SUBSET Posts /\ runner.backlog \in SUBSET Posts
    BY PostsOrdered, TimesAreNumbers DEF Shape, CatchUpTypeOK, Runners
  <2>2. CASE Hears(e)
    <3>1. CASE e \in runner.seen
      <4>1. UNCHANGED <<runner, taken, checkpoint>> /\ fly' = fly \ {e}
        BY <2>2, <3>1 DEF Hears
      <4> QED BY <3>1, <4>1
    <3>2. CASE e \notin runner.seen
      <4>1. /\ runner' = [runner EXCEPT !.seen = @ \cup {e}] /\ fly' = fly \ {e}
            /\ taken' = [taken EXCEPT ![e] = @ + 1] /\ checkpoint' = h
        BY <1>2, <2>2, <3>2 DEF Hears, h
      <4>2. /\ runner'.seen = runner.seen \cup {e} /\ runner'.backlog = runner.backlog
            /\ runner'.start = runner.start
        BY <4>1 DEF Runners
      <4>3. taken'[e] > 0 /\ \A d \in Posts : taken[d] > 0 => taken'[d] > 0
        BY <2>1, <4>1
      <4> QED BY <4>1, <4>2, <4>3
    <3> QED BY <3>1, <3>2
  <2>3. CASE Replays(e)
    <3>1. /\ runner' = [runner EXCEPT !.seen = @ \cup {e}, !.backlog = @ \cup {e}]
          /\ UNCHANGED <<fly, checkpoint, taken>>
      BY <2>3 DEF Replays
    <3>2. /\ runner'.seen = runner.seen \cup {e} /\ runner'.backlog = runner.backlog \cup {e}
          /\ runner'.start = runner.start
      BY <3>1 DEF Runners
    <3> QED BY <3>1, <3>2
  <2>4. CASE Admits(e)
    <3>1. /\ runner' = [runner EXCEPT !.backlog = @ \ {e}] /\ e \in runner.backlog
          /\ taken' = IF on /\ at[e] >= runner.started THEN [taken EXCEPT ![e] = @ + 1] ELSE taken
          /\ checkpoint' = h /\ fly' = fly
      BY <2>4 DEF Admits, h
    <3>2. /\ runner'.seen = runner.seen /\ runner'.backlog = runner.backlog \ {e}
          /\ runner'.start = runner.start
      BY <3>1 DEF Runners
    <3>3. /\ \A d \in Posts : taken[d] > 0 => taken'[d] > 0
          /\ at[e] <= base \/ taken'[e] > 0
      BY <1>2, <2>1, <3>1
    <3> QED BY <3>1, <3>2, <3>3
  <2> QED BY <2>2, <2>3, <2>4
<1>5. checkpoint.shrunk <= checkpoint'.shrunk /\ base <= base'
  BY <1>1, <1>3, <1>4
<1>6. e \in Settled'
  <2>1. OnRelay' = OnRelay /\ Settled \subseteq Settled'
    BY <1>1, <1>4, <1>5, SettledGrows
  <2>2. taken'[e] > 0 \/ e \in runner'.backlog => e \in Settled'
    BY <1>1, <2>1 DEF Settled
  <2> QED BY <1>2, <1>4, <2>1, <2>2 DEF NotPassed
<1>7. /\ OnRelay' = OnRelay /\ Settled \subseteq Settled' /\ Safe \subseteq Safe'
      /\ Settled' \subseteq Safe'
      /\ \A d \in OnRelay : at[d] <= checkpoint'.shrunk => d \in Safe'
  <2>1. Unheard \cup owed \subseteq Safe'
    BY <1>1, <1>4, <1>6 DEF Unheard, Safe
  <2> QED BY <1>1, <1>4, <1>5, <2>1, SettledGrows
<1>8. runner'.seen \subseteq Settled'
  BY <1>2, <1>4, <1>6, <1>7 DEF NotPassed
<1>9. /\ Covers(checkpoint, Safe')
      /\ alive /\ runner.start <= checkpoint.read => ReadBy(checkpoint, Safe')
      /\ WindowCovers(pass, checkpoint, Settled', Safe')
  BY <1>2, <1>7, CoversMore DEF NotPassed
<1>10. CASE checkpoint' = checkpoint
  BY <1>1, <1>2, <1>4, <1>7, <1>8, <1>9, <1>10, SamePassed DEF NotPassed
<1>11. CASE checkpoint' = h /\ checkpoint' # checkpoint
  <2>1. Holds(checkpoint, checkpoint.heard \cup {e}, h) /\ checkpoint.heard \cup {e} \in SUBSET Posts
    BY <1>3, <1>11, CheckpointFields
  <2>2. Covers(h, Safe')
    <3> SUFFICES ASSUME NEW d \in OnRelay, ~Undelivered(h, d) PROVE d \in Safe'
      BY DEF Covers
    <3>1. d \in checkpoint.heard \cup {e} \/ ~Past(checkpoint, d) \/ at[d] <= h.shrunk
      BY <1>3, <2>1, HeardPasses
    <3>2. d = e \/ ~Undelivered(checkpoint, d) \/ at[d] <= h.shrunk
      BY <3>1, UndeliveredIsPast
    <3> QED BY <1>6, <1>7, <1>9, <1>11, <3>2 DEF Covers
  <2>3. alive /\ runner.start <= h.read => ReadBy(h, Safe')
    <3> SUFFICES ASSUME alive, runner.start <= h.read, ~polled, NEW d \in OnRelay, at[d] <= h.read
                 PROVE  d \in Safe'
      BY DEF ReadBy
    <3>1. at[d] \in Int /\ 0 <= at[d]
      BY PostsOrdered, TimesAreNumbers
    <3>2. h.read = checkpoint.read
      BY <1>3, <3>1 DEF NoTime
    <3> QED BY <1>9, <3>2 DEF ReadBy
  <2>4. WindowCovers(pass, h, Settled', Safe')
    <3> SUFFICES ASSUME Window(pass) PROVE WindowCovers(pass, h, Settled', Safe')
      BY DEF WindowCovers
    <3>1. pass.stage = "reading" => h.heard \ pass.from.heard \subseteq Settled'
      BY <1>3, <1>6, <1>9 DEF WindowCovers
    <3>2. ASSUME pass.stage = "giving", NEW d \in pass.left
          PROVE  d \in Settled' \/ Undelivered(h, d)
      <4>1. checkpoint.upper # NoTime /\ d \in Posts
        BY <3>2, TimesAreNumbers, PassFields DEF Shape, WindowOK, Frame
      <4>2. Undelivered(checkpoint, d) \/ d \in Settled'
        BY <1>9, <3>2 DEF WindowCovers
      <4>3. ASSUME Undelivered(checkpoint, d), d # e PROVE Undelivered(h, d)
        <5>1. Past(h, d) <=> Past(checkpoint, d)
          BY <1>3, <2>1, <4>1, HeardPasses
        <5> QED BY <1>3, <4>3, <5>1, UndeliveredIsPast
      <4> QED BY <1>6, <4>2, <4>3
    <3> QED BY <1>9, <3>1, <3>2 DEF WindowCovers
  <2> QED BY <1>1, <1>2, <1>4, <1>7, <1>8, <1>11, <2>2, <2>3, <2>4, SamePassed DEF NotPassed
<1> QED BY <1>4, <1>10, <1>11

\* Nor do pages: below the last one nothing is left, or what is left is skipped.
LEMMA PassPage ==
  ASSUME Shape, Shape', PassInv, PageArrives
  PROVE  PassInv'
<1> DEFINE s == checkpoint.shrunk
<1>0. /\ at \in [Posts -> Maybe] /\ clock \in Times /\ base \in Times /\ base \in Int
      /\ base <= clock /\ clock \in Int
      /\ checkpoint \in Checkpoints /\ checkpoint.heard \subseteq OnRelay /\ s \in Int
      /\ link \in Links /\ link.since <= clock /\ link.covered <= clock
      /\ pass \in Passes /\ pass.at <= clock /\ OnRelay \subseteq Posts
  BY ShapeParts
<1>1. /\ pass.stage = "reading"
      /\ UNCHANGED <<polled, clock, at, fly, on, alive, link, runner, taken, owed, lost, upsets>>
  BY PageCases
<1>2. /\ Frame(pass, base, s) /\ pass.given = {} /\ pass.left = {} /\ on
      /\ pass.pages > 0 => pass.read # {}
  BY <1>1 DEF Shape, WindowOK, Window, Moment
<1>3. /\ NotPassed /\ Covers(pass.from, Safe) /\ InRange(pass, Safe)
      /\ checkpoint.heard \ pass.from.heard \subseteq Settled
  BY <1>1, <1>2 DEF PassInv, NotPassed, WindowCovers, Window
<1>4. /\ \A e \in OnRelay : at[e] \in Int /\ 0 <= at[e]
      /\ pass.upper \in Int /\ pass.from.through \in Int /\ Overlap \in Nat
  BY <1>0, <1>2, WindowTimes
<1>5. ASSUME base <= base', checkpoint.shrunk <= checkpoint'.shrunk
      PROVE  /\ OnRelay' = OnRelay /\ Settled \subseteq Settled' /\ Safe \subseteq Safe'
             /\ Settled' \subseteq Safe'
             /\ \A e \in OnRelay : at[e] <= checkpoint'.shrunk \/ at[e] <= base' => e \in Safe'
             /\ Covers(pass.from, Safe') /\ InRange(pass, Safe')
             /\ checkpoint.heard \ pass.from.heard \subseteq Settled'
  <2>1. Unheard \cup owed \subseteq Safe'
    BY <1>1 DEF Unheard, Safe
  <2>2. /\ OnRelay' = OnRelay /\ Settled \subseteq Settled' /\ Safe \subseteq Safe'
        /\ Settled' \subseteq Safe'
        /\ \A e \in OnRelay : at[e] <= checkpoint'.shrunk \/ at[e] <= base' => e \in Settled'
    BY <1>1, <1>5, <2>1, SettledGrows
  <2>3. Covers(pass.from, Safe') /\ InRange(pass, Safe')
    BY <1>3, <2>2 DEF Covers, InRange
  <2> QED BY <1>3, <2>2, <2>3
<1>6. ASSUME base <= base', checkpoint.shrunk <= checkpoint'.shrunk,
             Covers(checkpoint', Safe'),
             alive /\ runner.start <= checkpoint'.read => ReadBy(checkpoint', Safe'),
             WindowCovers(pass', checkpoint', Settled', Safe')
      PROVE  PassInv'
  <2>1. Settled \subseteq Settled' /\ Safe \subseteq Safe'
    BY <1>5, <1>6
  <2>2. NotPassed'
    BY <1>1, <1>3, <1>6, <2>1, SamePassed DEF NotPassed
  <2> QED BY <2>2 DEF PassInv
<1>7. CASE /\ Below(pass) = {} /\ base' = base
           /\ pass' = Windowed(EndedOf(pass), checkpoint, link)[1]
           /\ checkpoint' = Windowed(EndedOf(pass), checkpoint, link)[2]
  <2> DEFINE q == EndedOf(pass)
  <2>1. /\ Frame(q, base, s) /\ q.at = pass.at /\ q.from = pass.from /\ q.upper = pass.upper
        /\ q.read = pass.read /\ q.given = {} /\ q.left = PendingOf(pass, pass.read)
        /\ q.pages = pass.pages
    BY <1>0, <1>2, EndedFrame
  <2> HIDE DEF q
  <2> DEFINE r == Windowed(q, checkpoint, link)
  <2>2. checkpoint.shrunk <= r[2].shrunk
    BY <1>0, <1>2, <2>1, WindowedOK
  <2>3. pass' = r[1] /\ checkpoint' = r[2] /\ base' = base
    BY <1>7 DEF q
  <2>4. checkpoint.shrunk <= checkpoint'.shrunk /\ base <= base'
    BY <1>0, <2>2, <2>3
  <2>5. ReadAll(q, Safe')
    <3> SUFFICES ASSUME NEW e \in OnRelay, pass.from.through < at[e], at[e] <= pass.upper
                 PROVE  e \in pass.read \/ e \in Safe' \/ (polled /\ at[e] > pass.upper - Overlap)
      BY <2>1 DEF ReadAll
    <3>1. ~Beneath(pass, e)
      BY <1>7 DEF Below, Beneath
    <3> QED BY <1>5, <2>4, <3>1 DEF InRange
  <2>6. \A e \in q.read : e \in q.left \/ ~Undelivered(q.from, e)
    BY <2>1 DEF PendingOf
  <2>7. Covers(r[2], Safe') /\ ReadBy(r[2], Safe') /\ WindowCovers(r[1], r[2], Settled', Safe')
    <3> HIDE DEF r
    <3>1. \A e \in OnRelay : at[e] <= r[2].shrunk => e \in Safe'
      BY <1>5, <2>3, <2>4
    <3> USE DEF r
    <3> QED BY <1>0, <1>5, <2>1, <2>4, <2>5, <2>6, <3>1, WindowedCovers
  <2> HIDE DEF r
  <2> QED BY <1>6, <2>3, <2>4, <2>7
<1>8. CASE /\ Below(pass) # {} /\ pass.pages > 0 /\ base' = Larger(base, ReachedBy(pass))
           /\ pass' = Windowed(CutOf(pass), checkpoint, link)[1]
           /\ checkpoint' = Windowed(CutOf(pass), checkpoint, link)[2]
  <2> DEFINE q == CutOf(pass)
             t == ReachedBy(pass)
  <2>1. /\ t \in Int /\ t <= pass.upper /\ pass.from.through < t
        /\ \A e \in pass.read : t <= at[e]
        /\ \E e \in pass.read : t = at[e]
    BY <1>0, <1>2, <1>8, ReachedIs
  <2>2. base <= base' /\ t <= base' /\ base' \in Int
    BY <1>0, <1>8, <2>1, TimesAreNumbers
  <2>3. /\ Frame(q, base', s) /\ q.at = pass.at /\ q.from.through = t /\ q.from.after = NoPost
        /\ q.from.heard = pass.from.heard /\ q.upper = pass.upper /\ q.given = {}
        /\ q.read = WholeOf(pass) /\ q.left = PendingOf(pass, WholeOf(pass))
    BY <1>0, <1>2, <1>8, <2>2, CutFrame
  <2>4. \A e \in WholeOf(pass) : at[e] > t
    BY DEF WholeOf
  <2>5. \A e \in pass.read : e \in WholeOf(pass) \/ at[e] <= t
    BY <1>2, <1>4, <2>1 DEF WholeOf, Frame
  <2> HIDE DEF q, t
  <2> DEFINE r == Windowed(q, checkpoint, link)
  <2>6. q.left = {} \/ q.read # {}
    BY <2>3 DEF Frame
  <2>7. checkpoint.shrunk <= r[2].shrunk
    BY <1>0, <2>2, <2>3, <2>6, WindowedOK
  <2>8. pass' = r[1] /\ checkpoint' = r[2]
    BY <1>8 DEF q
  <2>9. checkpoint.shrunk <= checkpoint'.shrunk
    BY <2>7, <2>8
  <2>10. \A e \in OnRelay : at[e] <= t => e \in Safe'
    BY <1>4, <1>5, <2>1, <2>2, <2>9
  <2>11. Covers(q.from, Safe')
    <3>1. \A e \in OnRelay : e \in pass.from.heard => e \in Safe'
      BY <1>5, <2>2, <2>9 DEF Covers, Undelivered
    <3> QED BY <1>4, <2>1, <2>3, <2>10, <3>1 DEF Covers, Undelivered
  <2>12. ReadAll(q, Safe')
    <3> SUFFICES ASSUME NEW e \in OnRelay, t < at[e], at[e] <= pass.upper
                 PROVE  e \in q.read \/ e \in Safe' \/ (polled /\ at[e] > pass.upper - Overlap)
      BY <2>3 DEF ReadAll
    <3>1. ~Beneath(pass, e)
      BY <1>4, <2>1 DEF Beneath, Newer
    <3>2. pass.from.through < at[e]
      BY <1>4, <2>1
    <3>3. e \in pass.read => e \in q.read
      BY <1>4, <2>1, <2>3, <2>5
    <3> QED BY <1>5, <2>2, <2>9, <3>1, <3>2, <3>3 DEF InRange
  <2>13. \A e \in q.read : e \in q.left \/ ~Undelivered(q.from, e)
    <3> SUFFICES ASSUME NEW e \in q.read, ~Undelivered(pass.from, e)
                 PROVE  ~Undelivered(q.from, e)
      BY <2>3 DEF PendingOf
    <3>1. e \in pass.read /\ e \in OnRelay /\ e \in Posts /\ pass.from.through < at[e]
      BY <1>0, <1>2, <2>3 DEF WholeOf, Frame
    <3>2. e \in pass.from.heard \/ (pass.from.after # NoPost /\ ~Before(pass.from.after, e))
      BY <3>1 DEF Undelivered
    <3>3. pass.from.after # NoPost => /\ pass.from.after \in Posts
                                      /\ at[pass.from.after] = pass.from.through + 1
      BY <1>0, <1>2, PassFields, CheckpointFields DEF Frame
    <3>4. pass.from.after # NoPost => Before(pass.from.after, e)
      BY <1>4, <2>1, <2>3, <2>4, <3>1, <3>3 DEF Before
    <3> QED BY <2>3, <3>2, <3>4 DEF Undelivered
  <2>14. checkpoint.heard \ q.from.heard \subseteq Settled'
    BY <1>5, <2>2, <2>3, <2>9
  <2>15. Covers(r[2], Safe') /\ ReadBy(r[2], Safe') /\ WindowCovers(r[1], r[2], Settled', Safe')
    <3> HIDE DEF r
    <3>1. \A e \in OnRelay : at[e] <= r[2].shrunk => e \in Safe'
      BY <1>5, <2>2, <2>8, <2>9
    <3>2. Settled' \subseteq Safe'
      BY <1>5, <2>2, <2>9
    <3> USE DEF r
    <3> QED BY <1>0, <2>2, <2>3, <2>11, <2>12, <2>13, <2>14, <3>1, <3>2, WindowedCovers
  <2> HIDE DEF r
  <2> QED BY <1>6, <2>2, <2>8, <2>9, <2>15
<1>9. CASE /\ Below(pass) # {} /\ pass.pages < MaxPages
           /\ pass' = [pass EXCEPT !.read = @ \cup PageOf(pass), !.pages = @ + 1]
           /\ checkpoint' = checkpoint /\ base' = base
  <2>1. base <= base' /\ checkpoint.shrunk <= checkpoint'.shrunk
    BY <1>0, <1>9
  <2>2. /\ pass'.stage = "reading" /\ pass'.from = pass.from /\ pass'.upper = pass.upper
        /\ pass'.read = pass.read \cup PageOf(pass)
    BY <1>0, <1>1, <1>9 DEF Passes
  <2>3. \A e \in Below(pass) \ PageOf(pass), d \in PageOf(pass) : Newer(d, e)
    <3> DEFINE S == Below(pass)
    <3>1. S \in SUBSET Posts
      BY <1>0 DEF Below
    <3>2. PageOf(pass) = {e \in S : Cardinality({d \in S : Newer(d, e)}) < PageSize}
      BY DEF PageOf
    <3> HIDE DEF S
    <3>3. \A e \in S \ PageOf(pass), d \in PageOf(pass) : Newer(d, e)
      BY <1>0, <3>1, <3>2, PageFirst
    <3> QED BY <3>3 DEF S
  <2>4. InRange(pass', Safe')
    <3> SUFFICES ASSUME NEW e \in OnRelay, pass.from.through < at[e], at[e] <= pass.upper
                 PROVE  \/ e \in pass'.read \/ Beneath(pass', e) \/ e \in Safe'
                        \/ polled /\ at[e] > pass.upper - Overlap
      BY <2>2 DEF InRange
    <3>1. Beneath(pass, e) => e \in pass'.read \/ Beneath(pass', e)
      <4>1. Beneath(pass, e) => e \in Below(pass)
        BY DEF Beneath, Below
      <4> QED BY <2>2, <2>3, <4>1 DEF Beneath
    <3> QED BY <1>5, <2>1, <2>2, <3>1 DEF InRange
  <2>5. WindowCovers(pass', checkpoint', Settled', Safe')
    BY <1>5, <1>9, <2>1, <2>2, <2>4 DEF WindowCovers
  <2>6. /\ Covers(checkpoint', Safe')
        /\ alive /\ runner.start <= checkpoint'.read => ReadBy(checkpoint', Safe')
    BY <1>3, <1>5, <1>9, <2>1, CoversMore DEF NotPassed
  <2> QED BY <1>6, <2>1, <2>5, <2>6
<1> QED BY <1>7, <1>8, <1>9, PageCases

\* The checkpoint that follows the events given of a window passes only those, and what
\* the window need not give.
LEMMA AdmitCovers ==
  ASSUME at \in [Posts -> Maybe], NEW p, NEW b, NEW s, Frame(p, b, s), NEW l,
         NEW c \in Checkpoints, NEW a, NEW last \in p.given,
         AdmitsTo(p, c, p.given, OverlapNow(l), last, a), a.heard \subseteq OnRelay,
         NEW T, Covers(p.from, T), ReadAll(p, T), p.given \subseteq T,
         \A e \in c.heard : e \in OnRelay => e \in T,
         \A e \in p.read : e \in p.left \cup p.given \/ ~Undelivered(p.from, e)
  PROVE  /\ Covers(a, T)
         /\ \A e \in p.left : e \in c.heard \/ Undelivered(a, e)
<1> DEFINE ov == OverlapNow(l)
           u == Smaller(at[last] - 1, p.upper - ov)
<1>1. /\ p.upper \in Int /\ p.from.through \in Int /\ Overlap \in Nat /\ ov \in Nat
      /\ OnRelay \subseteq Posts /\ p.read \subseteq OnRelay
      /\ p.left \subseteq p.read /\ p.given \subseteq p.read
      /\ \A e \in OnRelay : at[e] \in Int /\ 0 <= at[e]
      /\ polled => ov = Overlap /\ ov # 0
  BY WindowTimes, OverlapIsOverlap DEF Frame
<1>2. /\ last \in OnRelay /\ last \in Posts /\ \A d \in p.given : d = last \/ Before(d, last)
      /\ at[last] \in Int /\ at[last] <= p.upper /\ p.from.through < at[last]
      /\ \A x \in p.left : Before(last, x)
  BY <1>1 DEF AdmitsTo, Frame
<1>3. /\ ov = 0 => /\ a.through = at[last] - 1 /\ a.after = last /\ a.heard \subseteq c.heard
      /\ ov # 0 => /\ a.through = Larger(p.from.through, u) /\ a.after = NoPost
                   /\ a.heard \subseteq c.heard \cup PassedOf(p) \cup p.given
  BY DEF AdmitsTo
<1>4. u \in Int /\ u <= at[last] - 1 /\ u <= p.upper - ov
  BY <1>1, <1>2, TimesAreNumbers
<1> HIDE DEF ov, u
<1>5. ov # 0 => a.through \in {p.from.through, u} /\ p.from.through <= a.through
  BY <1>1, <1>3, <1>4, TimesAreNumbers
<1>6. \A e \in OnRelay : at[e] <= p.from.through => e \in T
  BY <1>1 DEF Covers, Undelivered
<1>7. ASSUME NEW e \in OnRelay, e = last \/ Before(e, last),
             ~polled \/ at[e] <= p.upper - ov
      PROVE  e \in T
  <2>1. CASE e = last
    BY <2>1
  <2>2. CASE Before(e, last)
    <3>1. at[e] <= p.upper /\ ~Before(last, e) /\ e \in Posts
      <4>1. e \in Posts
        BY <1>1
      <4>2. at[e] <= at[last] /\ ~Before(last, e)
        BY <1>2, <2>2, <4>1, BeforeOrders
      <4> QED BY <1>1, <1>2, <4>1, <4>2
    <3>2. e \notin p.left
      BY <1>2, <3>1
    <3>3. e \in p.read => e \in T
      BY <3>2 DEF Covers
    <3>4. ~(polled /\ at[e] > p.upper - Overlap)
      BY <1>1, <1>7
    <3> QED BY <1>1, <1>6, <3>1, <3>3, <3>4 DEF ReadAll
  <2> QED BY <1>7, <2>1, <2>2
<1>8. ASSUME NEW e \in PassedOf(p)
      PROVE  e \in OnRelay /\ ~Undelivered(p.from, e) /\ e \in T
  <2>1. /\ e \in p.read /\ p.from.after # NoPost /\ (e = p.from.after \/ Before(e, p.from.after))
    BY <1>8 DEF PassedOf
  <2>2. p.from.after \in Posts /\ e \in Posts
    BY <1>1, <2>1, PassFields, CheckpointFields DEF Frame
  <2>3. ~Before(p.from.after, e)
    BY <2>1, <2>2, BeforeOrders
  <2> QED BY <1>1, <2>1, <2>3 DEF Undelivered, Covers
<1>9. Covers(a, T)
  <2> SUFFICES ASSUME NEW e \in OnRelay, ~Undelivered(a, e) PROVE e \in T
    BY DEF Covers
  <2>1. e \in Posts /\ at[e] \in Int
    BY <1>1
  <2>2. CASE ov = 0
    <3>1. ~polled /\ a.after # NoPost /\ a.after = last
      BY <1>1, <1>2, <1>3, <2>2, PostsOrdered
    <3>2. at[e] <= a.through => Before(e, last)
      BY <1>2, <1>3, <2>1, <2>2 DEF Before
    <3>3. ~Before(last, e) => e = last \/ Before(e, last)
      BY <1>2, <2>1, BeforeOrders
    <3>4. e \in a.heard => e \in T
      BY <1>3, <2>2
    <3>5. at[e] <= a.through \/ e \in a.heard \/ ~Before(last, e)
      BY <1>2, <1>3, <2>1, <2>2, <3>1 DEF Undelivered
    <3> QED BY <1>7, <3>1, <3>2, <3>3, <3>4, <3>5
  <2>3. CASE ov # 0
    <3>1. at[e] <= a.through \/ e \in a.heard
      BY <1>1, <1>3, <1>4, <1>5, <2>1, <2>3 DEF Undelivered
    <3>2. e \in a.heard => e \in T
      BY <1>3, <1>8, <2>3
    <3>3. ASSUME at[e] <= a.through, at[e] > p.from.through PROVE e \in T
      <4>1. at[e] <= u
        BY <1>1, <1>4, <1>5, <2>1, <2>3, <3>3
      <4>2. at[e] <= p.upper - ov /\ Before(e, last)
        BY <1>1, <1>2, <1>4, <2>1, <4>1 DEF Before
      <4> QED BY <1>7, <4>2
    <3> QED BY <1>1, <1>6, <2>1, <3>1, <3>2, <3>3
  <2> QED BY <2>2, <2>3
<1>10. ASSUME NEW e \in p.left, e \notin c.heard PROVE Undelivered(a, e)
  <2>1. /\ e \in OnRelay /\ e \in Posts /\ at[e] \in Int /\ Undelivered(p.from, e) /\ Before(last, e)
        /\ p.from.through < at[e]
    BY <1>1, <1>2 DEF Frame, Undelivered
  <2>2. at[last] <= at[e]
    BY <1>2, <2>1, BeforeOrders
  <2>3. e \notin PassedOf(p)
    BY <1>8, <2>1
  <2>4. e \notin p.given
    BY <1>2, <2>1, BeforeOrders DEF Frame
  <2>5. e \notin a.heard
    BY <1>3, <1>10, <2>3, <2>4
  <2>6. at[e] > a.through
    BY <1>1, <1>2, <1>3, <1>4, <1>5, <2>1, <2>2
  <2>7. a.after # NoPost => a.after = last
    BY <1>3
  <2> QED BY <2>1, <2>5, <2>6, <2>7 DEF Undelivered
<1> QED BY <1>9, <1>10

\* Nor do batches: what they give is given now, was heard, or need not be.
LEMMA PassGives ==
  ASSUME Shape, Shape', PassInv, NEW n \in 1..BatchSize, Gives(n)
  PROVE  PassInv'
<1> DEFINE p == GivenOf(pass, n)
           c1 == AdmitOf(p, checkpoint, link)
           c2 == FinishOf(p, c1, link)
           B == BatchOf(pass, n)
<1>0. /\ at \in [Posts -> Maybe] /\ clock \in Times /\ base \in Int
      /\ checkpoint \in Checkpoints /\ checkpoint.heard \subseteq OnRelay
      /\ checkpoint.shrunk \in Int /\ runner \in Runners /\ pass \in Passes
      /\ OnRelay \subseteq Posts /\ taken \in [Posts -> Nat]
  BY ShapeParts DEF Shape, CatchUpTypeOK
<1>1. /\ pass.stage = "giving"
      /\ taken' = [e \in Posts |-> IF e \in B \ runner.seen /\ Undelivered(checkpoint, e)
                                   THEN taken[e] + 1 ELSE taken[e]]
      /\ runner' = [runner EXCEPT !.seen = @ \cup B]
      /\ checkpoint' = IF p.left = {} THEN c2 ELSE c1
      /\ pass' = IF p.left = {} THEN Begun(p, c2, link) ELSE p
      /\ UNCHANGED <<polled, clock, at, fly, on, alive, link, base, owed, lost, upsets>>
  BY GivesCases
<1>2. /\ Frame(p, base, checkpoint.shrunk)
      /\ c1 \in Checkpoints /\ c1.heard \subseteq OnRelay
      /\ checkpoint.shrunk <= c1.shrunk /\ c1.shrunk \in Int
      /\ \E last \in p.given : AdmitsTo(p, checkpoint, p.given, OverlapNow(link), last, c1)
      /\ Frame(p, base, c1.shrunk) /\ Finishes(p, c1, OverlapNow(link), c2)
      /\ c2 \in Checkpoints /\ c1.shrunk <= c2.shrunk /\ c2.shrunk \in Int
  BY GivesOK
<1>3. /\ p.stage = "giving" /\ p.from = pass.from /\ p.upper = pass.upper /\ p.read = pass.read
      /\ B \subseteq pass.left /\ p.left = pass.left \ B /\ p.given = pass.given \cup B
      /\ on /\ NotPassed
  <2>1. n \in Nat \ {0}
    BY CatchUpAssumption
  <2>2. Frame(pass, base, checkpoint.shrunk) /\ pass.left # {} /\ on
    BY <1>1 DEF Shape, WindowOK, Window, Moment
  <2> QED BY <1>0, <1>1, <2>1, <2>2, GivenFrame DEF PassInv
<1> HIDE DEF p, c1, c2, B
<1>4. /\ Covers(pass.from, Safe) /\ InRange(pass, Safe)
      /\ \A e \in pass.read : e \in pass.left \cup pass.given \/ ~Undelivered(pass.from, e)
      /\ pass.given \subseteq Settled
      /\ \A e \in pass.left : e \in Settled \/ Undelivered(checkpoint, e)
  BY <1>1, <1>3 DEF NotPassed, WindowCovers, Window
<1>5. checkpoint.shrunk <= checkpoint'.shrunk /\ base <= base'
  BY <1>0, <1>1, <1>2
<1>6. B \subseteq OnRelay /\ p.read \subseteq OnRelay /\ p.left \cup p.given \subseteq p.read
  BY <1>2, <1>3 DEF Frame
<1>7. /\ \A e \in Posts : taken[e] > 0 => taken'[e] > 0
      /\ \A e \in B : e \in runner.seen \/ ~Undelivered(checkpoint, e) \/ taken'[e] > 0
      /\ runner'.backlog = runner.backlog /\ runner'.seen = runner.seen \cup B
  <2>1. \A e \in Posts : taken[e] \in Nat
    BY <1>0
  <2>2. runner'.backlog = runner.backlog /\ runner'.seen = runner.seen \cup B
    BY <1>0, <1>1 DEF Runners
  <2> QED BY <1>0, <1>1, <1>6, <2>1, <2>2
<1>8. /\ OnRelay' = OnRelay /\ Settled \subseteq Settled' /\ Settled' \subseteq Safe'
      /\ Unheard \cup owed \subseteq Safe' => Safe \subseteq Safe'
      /\ \A e \in OnRelay : at[e] <= checkpoint'.shrunk \/ at[e] <= base' => e \in Settled'
  BY <1>1, <1>5, <1>7, SettledGrows
<1>9. B \subseteq Settled'
  <2> SUFFICES ASSUME NEW e \in B PROVE e \in Settled'
    OBVIOUS
  <2>1. CASE taken'[e] > 0
    BY <1>6, <1>8, <2>1 DEF Settled
  <2>2. CASE e \in runner.seen
    BY <1>3, <1>8, <2>2 DEF NotPassed
  <2>3. CASE ~Undelivered(checkpoint, e)
    BY <1>3, <1>4, <1>8, <2>3
  <2> QED BY <1>7, <2>1, <2>2, <2>3
<1>10. Safe \subseteq Safe'
  <2>1. Unheard \cup owed \subseteq Safe'
    BY <1>1, <1>7, <1>8, <1>9 DEF Unheard, Safe
  <2> QED BY <1>8, <2>1
<1>11. /\ Covers(p.from, Safe') /\ ReadAll(p, Safe') /\ InRange(p, Safe')
       /\ p.given \subseteq Settled' /\ p.given \subseteq Safe'
       /\ \A e \in p.read : e \in p.left \cup p.given \/ ~Undelivered(p.from, e)
  <2>1. Covers(p.from, Safe')
    BY <1>3, <1>4, <1>8, <1>10 DEF Covers
  <2>2. ReadAll(p, Safe') /\ InRange(p, Safe')
    BY <1>1, <1>3, <1>4, <1>8, <1>10 DEF ReadAll, InRange, Beneath
  <2>3. p.given \subseteq Settled'
    BY <1>3, <1>4, <1>8, <1>10, <1>9
  <2>4. \A e \in p.read : e \in p.left \cup p.given \/ ~Undelivered(p.from, e)
    BY <1>3, <1>4
  <2> QED BY <1>8, <1>10, <2>1, <2>2, <2>3, <2>4
<1>12. \A e \in checkpoint.heard : e \in OnRelay => e \in Safe'
  BY <1>3, <1>8, <1>10 DEF NotPassed, Covers, Undelivered
<1>13. /\ Covers(c1, Safe')
       /\ \A e \in p.left : e \in checkpoint.heard \/ Undelivered(c1, e)
  <2>1. PICK last \in p.given : AdmitsTo(p, checkpoint, p.given, OverlapNow(link), last, c1)
    BY <1>2
  <2> QED BY <1>0, <1>2, <1>11, <1>12, <2>1, AdmitCovers
<1>14. runner'.seen \subseteq Settled'
  BY <1>3, <1>7, <1>8, <1>10, <1>9 DEF NotPassed
<1>15. CASE p.left # {}
  <2>1. pass' = p /\ checkpoint' = c1
    BY <1>1, <1>15
  <2>2. ReadBy(c1, Safe')
    <3>1. c1.read = NoTime
      BY <1>2 DEF AdmitsTo
    <3>2. \A e \in OnRelay : at[e] \in Int /\ 0 <= at[e]
      BY <1>0, <1>2, WindowTimes
    <3> QED BY <3>1, <3>2 DEF ReadBy, NoTime
  <2>3. \A e \in p.left : e \in Settled' \/ Undelivered(c1, e)
    <3> SUFFICES ASSUME NEW e \in p.left, e \in checkpoint.heard PROVE e \in Settled'
      BY <1>13
    <3>1. ~Undelivered(checkpoint, e)
      BY DEF Undelivered
    <3> QED BY <1>3, <1>4, <1>8, <1>10, <3>1
  <2>4. WindowCovers(p, c1, Settled', Safe')
    BY <1>3, <1>11, <2>3 DEF WindowCovers
  <2>5. NotPassed'
    BY <1>1, <1>3, <1>8, <1>10, <1>13, <1>14, <2>1, <2>2, <2>4, SamePassed DEF NotPassed
  <2> QED BY <2>5 DEF PassInv
<1>16. CASE p.left = {}
  <2>1. pass' = Begun(p, c2, link) /\ checkpoint' = c2
    BY <1>1, <1>16
  <2>2. p.read \subseteq Safe'
    BY <1>6, <1>11, <1>16 DEF Covers
  <2>3. c1.heard \subseteq Safe'
    BY <1>2, <1>13 DEF Covers, Undelivered
  <2>4. \A e \in OnRelay : at[e] <= c2.shrunk => e \in Safe'
    BY <1>8, <1>10, <2>1
  <2>5. Covers(c2, Safe') /\ ReadBy(c2, Safe')
    BY <1>0, <1>2, <1>11, <2>2, <2>3, <2>4, FinishCovers
  <2>6. WindowCovers(Begun(p, c2, link), c2, Settled', Safe')
    BY <1>2, <2>5, BegunCovers DEF Frame
  <2>7. NotPassed'
    BY <1>1, <1>3, <1>8, <1>10, <1>14, <2>1, <2>5, <2>6, SamePassed DEF NotPassed
  <2> QED BY <2>7 DEF PassInv
<1> QED BY <1>15, <1>16

\* Nothing is passed over to begin with.
LEMMA PassInit == CatchUpInit => PassInv
<1> SUFFICES ASSUME CatchUpInit PROVE NotPassed
  BY DEF PassInv
<1>1. OnRelay = {} /\ runner.seen = {} /\ pass = NoPass
  BY DEF CatchUpInit, OnRelay
<1>2. WindowCovers(pass, checkpoint, Settled, Safe)
  BY <1>1, PassFields DEF WindowCovers
<1> QED BY <1>1, <1>2 DEF NotPassed, Covers, ReadBy

\* No step passes anything over.
LEMMA PassNext ==
  ASSUME Shape, Owing, PassInv, [CatchUpNext]_catchUp
  PROVE  PassInv'
<1>1. Shape'
  BY ShapeNext
<1>2. CASE UNCHANGED catchUp
  BY <1>2 DEF catchUp, PassInv, NotPassed, WindowCovers, Covers, ReadBy, InRange, Beneath, Newer,
             Window, Undelivered, Before, Settled, Safe, Unheard, OnRelay
<1>3. CASE TimePasses \/ PageFails
  BY <1>1, <1>3, PassTime
<1>4. CASE \/ LinkMade \/ LinkDrops \/ RouteLive \/ RouteDrops
           \/ Edits \/ \E due \in BOOLEAN : Ticks(due)
  BY <1>1, <1>4, PassLink
<1>5. CASE \E e \in Posts, t \in 0..MaxClock : Stores(e, t)
  BY <1>1, <1>5, PassStores DEF Times
<1>6. CASE PageArrives
  BY <1>1, <1>6, PassPage
<1>7. CASE \E n \in 1..BatchSize : Gives(n)
  BY <1>1, <1>7, PassGives
<1>8. CASE \E e \in Posts : Hears(e) \/ Replays(e) \/ Admits(e)
  BY <1>1, <1>8, PassHears
<1>9. CASE ProgramEnds \/ ProgramStarts
  BY <1>1, <1>9, PassEnds
<1> QED BY <1>2, <1>3, <1>4, <1>5, <1>6, <1>7, <1>8, <1>9 DEF CatchUpNext

\* The checkpoint passes no event the agent was not given (NothingPassedOver): whatever is
\* heard, read, dropped, edited or restarted in whatever order, an event the saved
\* checkpoint counts as delivered was taken, or still comes to the program that runs (out
\* of its backlog, on its covered stream's route, or by a replay that reaches back to it),
\* or is one a bound or an off watch skips; or it is lost in one of the ways `lost` counts.
THEOREM NothingIsPassedOver == CatchUpSpec => []NothingPassedOver
<1>1. CatchUpInit => Shape /\ Owing /\ PassInv
  BY ShapeInit, OwingInit, PassInit
<1>2. (Shape /\ Owing /\ PassInv) /\ [CatchUpNext]_catchUp => (Shape /\ Owing /\ PassInv)'
  BY ShapeNext, OwingNext, PassNext
<1>3. Shape /\ Owing /\ PassInv => NothingPassedOver
  <2> SUFFICES ASSUME Shape, Owing, PassInv, NEW e \in OnRelay, on,
                      at[e] > Larger(base, checkpoint.shrunk), ~Undelivered(checkpoint, e)
               PROVE  taken[e] > 0 \/ e \in Coming \cup lost
    BY DEF NothingPassedOver
  <2>1. e \in Safe
    BY DEF PassInv, NotPassed, Covers
  <2>2. /\ at[e] \in Int /\ base \in Int /\ checkpoint.shrunk \in Int
        /\ base <= Larger(base, checkpoint.shrunk)
        /\ checkpoint.shrunk <= Larger(base, checkpoint.shrunk)
        /\ Larger(base, checkpoint.shrunk) \in Int
    BY ShapeParts, PostsOrdered, TimesAreNumbers
  <2>3. ~(at[e] <= base) /\ ~(at[e] <= checkpoint.shrunk)
    BY <2>2
  <2>4. e \in Settled => taken[e] > 0 \/ e \in Coming \cup lost
    BY <2>3 DEF Settled, Coming
  <2>5. e \in owed => e \in Settled \/ e \in Coming
    <3>1. e \in owed /\ e \notin runner.seen => Replayable(e)
      BY DEF Replayable, Owing
    <3> QED BY <3>1 DEF PassInv, NotPassed, Coming
  <2> QED BY <2>1, <2>4, <2>5 DEF Safe, Coming
<1> QED BY <1>1, <1>2, <1>3, PTL DEF CatchUpSpec

(***************************************************************************)
(* Given once. What the list of heard events, or its cursor, tells of the  *)
(* events given must survive every checkpoint a window is resumed from.    *)
(***************************************************************************)
\* The events given, those the program, since it started, neither heard nor gave, and those
\* the limits on the list of c let go.
Taken == {e \in Posts : taken[e] > 0}
Fresh == OnRelay \ (runner.seen \cup Taken)
Lost(c) == {e \in OnRelay : at[e] <= c.shrunk \/ at[e] <= c.forgot}

\* A window finished now reaches back.
Uncovered(l) == polled \/ l.since = NoTime \/ ~l.route

\* The checkpoint c has delivered the events of G, but those of L.
Spares(c, G, L) == \A e \in G : e \in L \/ ~Undelivered(c, e)

\* The checkpoint c of the window of p is where the window began, or went on only because
\* its list was full, or before an event given; if v, only so far as a window that reaches
\* back will be.
Trails(p, c, v) ==
  \/ c.after = p.from.after /\ (c.through <= p.from.through \/ c.through <= c.shrunk)
  \/ \E g \in p.given :
       /\ c.after \in {NoPost, g} /\ c.through < at[g]
       /\ v => /\ c.after = NoPost
               /\ c.through <= p.from.through \/ c.through <= p.upper - Overlap

\* So besides the events of L, it is only past what the window began past, or gave.
NotBeyond(p, c, v, L) ==
  \A e \in OnRelay : ~Past(c, e) =>
    \/ ~Past(p.from, e) \/ e \in L
    \/ \E g \in p.given : /\ ~Before(g, e)
                          /\ v => at[e] < at[g] /\ at[e] <= p.upper - Overlap

\* The window may go on: it read what a route that is down has brought before.
Resumes(p, c, v, N) ==
  Window(p) => Trails(p, c, v) /\ (~polled /\ v => InRange(p, N))

\* What the program remembers of the events given.
Remembered ==
  /\ Taken \subseteq OnRelay /\ runner.backlog \cap Taken = {}
  /\ \A e \in Taken : IF alive THEN e \in runner.seen \/ (e \notin fly /\ at[e] < runner.start)
                      ELSE at[e] < clock
  /\ ~polled /\ ~link.route => fly = {}

OnceInv ==
  /\ \A e \in OnRelay \ Lost(checkpoint) : taken[e] <= 1
  /\ Spares(checkpoint, Taken, Lost(checkpoint)) /\ Remembered
  /\ Resumes(pass, checkpoint, Uncovered(link), Fresh)

\* So the overlap of a window finished now is not zero.
LEMMA UncoveredOverlaps ==
  ASSUME clock \in Times, NEW l
  PROVE  Uncovered(l) <=> OverlapNow(l) # 0
BY OverlapIsOverlap, TimesAreNumbers DEF Uncovered, OverlapNow, Coverage

\* A later checkpoint has let go more.
LEMMA LostGrows ==
  ASSUME at \in [Posts -> Maybe], NEW c \in Checkpoints, NEW d \in Checkpoints,
         c.shrunk <= d.shrunk, c.forgot <= d.forgot
  PROVE  Lost(c) \subseteq Lost(d)
BY PostsOrdered, CheckpointFields, TimesAreNumbers DEF Lost, OnRelay

\* More events let go spare less.
LEMMA SparesMore ==
  ASSUME NEW L, NEW L1, L \subseteq L1, NEW v, NEW v1, v1 => v, NEW c, NEW p, NEW G,
         NEW N, NEW N1, N \subseteq N1
  PROVE  /\ Spares(c, G, L) => Spares(c, G, L1)
         /\ Resumes(p, c, v, N) => Resumes(p, c, v1, N1)
<1>1. Spares(c, G, L) => Spares(c, G, L1)
  BY DEF Spares
<1>2. Trails(p, c, v) => Trails(p, c, v1)
  BY DEF Trails
<1>3. InRange(p, N) => InRange(p, N1)
  BY DEF InRange
<1> QED BY <1>1, <1>2, <1>3 DEF Resumes

\* A window begun resumes from its checkpoint.
LEMMA BegunResumes ==
  ASSUME NEW p \in Passes, NEW c \in Checkpoints, NEW l, NEW v, NEW N
  PROVE  Resumes(Begun(p, c, l), c, v, N)
<1> DEFINE q == Begun(p, c, l)
<1>1. Window(q) => q.stage = "reading" /\ q.from = c /\ q.read = {}
  BY DEF Begun, Window, NoPass, Passes
<1> HIDE DEF q
<1>2. Window(q) => InRange(q, N)
  BY <1>1 DEF InRange, Beneath
<1>3. Window(q) => Trails(q, c, v)
  BY <1>1, CheckpointFields, TimesAreNumbers DEF Trails
<1> QED BY <1>2, <1>3 DEF Resumes, q

\* What a checkpoint that trails is past.
LEMMA TrailsNotBeyond ==
  ASSUME at \in [Posts -> Maybe], NEW p, NEW b, NEW s, Frame(p, b, s), NEW c \in Checkpoints,
         NEW v, Trails(p, c, v), NEW L, Lost(c) \subseteq L
  PROVE  NotBeyond(p, c, v, L)
<1>1. /\ p.upper \in Int /\ p.from.through \in Int /\ Overlap \in Nat /\ OnRelay \subseteq Posts
      /\ p.given \subseteq OnRelay /\ NoPost \notin Posts
      /\ \A e \in OnRelay : at[e] \in Int
      /\ c.through \in Int /\ c.shrunk \in Int
  BY WindowTimes, PostsOrdered, CheckpointFields, TimesAreNumbers DEF Frame
<1> SUFFICES ASSUME NEW e \in OnRelay, ~Past(c, e), Past(p.from, e), e \notin L
             PROVE  \E g \in p.given : /\ ~Before(g, e)
                                       /\ v => at[e] < at[g] /\ at[e] <= p.upper - Overlap
  BY DEF NotBeyond
<1>2. at[e] <= c.through \/ (c.after # NoPost /\ ~Before(c.after, e))
  BY <1>1 DEF Past
<1>3. at[e] > p.from.through /\ (p.from.after # NoPost => Before(p.from.after, e))
      /\ ~(at[e] <= c.shrunk)
  BY DEF Past, Lost
<1>4. PICK g \in p.given :
        /\ c.after \in {NoPost, g} /\ c.through < at[g]
        /\ v => /\ c.after = NoPost
                /\ c.through <= p.from.through \/ c.through <= p.upper - Overlap
  BY <1>1, <1>2, <1>3 DEF Trails
<1>5. CASE at[e] <= c.through
  <2>1. at[e] < at[g]
    BY <1>1, <1>4, <1>5
  <2>2. ~Before(g, e)
    BY <1>1, <2>1 DEF Before
  <2>3. v => at[e] <= p.upper - Overlap
    BY <1>1, <1>3, <1>4, <1>5
  <2> QED BY <2>1, <2>2, <2>3
<1>6. CASE ~(at[e] <= c.through)
  BY <1>2, <1>4, <1>6
<1> QED BY <1>5, <1>6

\* What a window began past has a time up to its end; what the cursor's second holds of it
\* was read, if it was given.
LEMMA BegunPast ==
  ASSUME at \in [Posts -> Maybe], NEW p, NEW b, NEW s, Frame(p, b, s),
         NEW e \in OnRelay, ~Past(p.from, e)
  PROVE  /\ at[e] <= p.upper
         /\ \/ at[e] <= p.from.through
            \/ /\ ~polled /\ p.from.after \in Posts /\ p.from.after # NoPost
               /\ at[e] = at[p.from.after] /\ p.from.through < at[e]
               /\ e = p.from.after \/ Before(e, p.from.after)
<1>1. /\ p.upper \in Int /\ p.from.through \in Int /\ at[e] \in Int /\ e \in Posts
      /\ p.from.through <= p.upper
  BY WindowTimes DEF Frame
<1>2. CASE at[e] <= p.from.through
  BY <1>1, <1>2
<1>3. CASE at[e] > p.from.through
  <2> DEFINE a == p.from.after
  <2>1. a # NoPost /\ ~Before(a, e)
    BY <1>3 DEF Past
  <2>2. /\ a \in Posts /\ ~polled /\ at[a] = p.from.through + 1 /\ at[a] <= p.upper
    BY <2>1, PassFields, CheckpointFields DEF Frame
  <2> HIDE DEF a
  <2>3. e = a \/ Before(e, a)
    BY <1>1, <2>1, <2>2, BeforeOrders
  <2>4. at[e] <= at[a] /\ at[a] \in Int
    BY <1>1, <2>2, <2>3, BeforeOrders, PostsOrdered
  <2>5. at[e] = at[a] /\ at[e] <= p.upper
    BY <1>1, <1>3, <2>2, <2>4
  <2> QED BY <1>1, <1>3, <2>1, <2>2, <2>3, <2>5 DEF a
<1> QED BY <1>1, <1>2, <1>3

\* A window delivered spares what was given.
LEMMA FinishSpares ==
  ASSUME at \in [Posts -> Maybe], clock \in Times, NEW p, NEW b, NEW s, Frame(p, b, s), NEW l,
         NEW c \in Checkpoints, NEW f, Finishes(p, c, OverlapNow(l), f),
         NEW G, G \subseteq OnRelay, NEW L, Spares(c, G, L),
         NotBeyond(p, c, Uncovered(l), L),
         ~polled /\ Uncovered(l) => \A e \in G : p.from.through < at[e] /\ at[e] <= p.upper => e \in p.read,
         \A e \in OnRelay : at[e] <= f.forgot => e \in L
  PROVE  Spares(f, G, L)
<1> DEFINE ov == OverlapNow(l)
<1>1. /\ p.upper \in Int /\ p.from.through \in Int /\ Overlap \in Nat
      /\ ov \in Nat /\ ov \in {0, Overlap} /\ OnRelay \subseteq Posts
      /\ p.read \subseteq OnRelay /\ p.given \subseteq p.read
      /\ \A e \in OnRelay : at[e] \in Int
      /\ \A e \in p.read : at[e] <= p.upper
      /\ polled => ov # 0
  BY WindowTimes, OverlapIsOverlap DEF Frame
<1>2. \A e \in OnRelay :
        e \in c.heard \/ (e \in p.read /\ ov # 0) \/ at[e] <= p.from.through
          \/ at[e] <= p.upper - ov =>
        ~Undelivered(f, e) \/ e \in L
  BY <1>1 DEF Finishes
<1>3. Uncovered(l) <=> ov # 0
  BY UncoveredOverlaps
<1> HIDE DEF ov
<1>4. SUFFICES ASSUME NEW e \in G, e \notin L, e \notin c.heard, ~(at[e] <= p.upper - ov)
               PROVE  at[e] <= p.from.through \/ (e \in p.read /\ ov # 0)
  BY <1>2 DEF Spares
<1>5. e \in OnRelay /\ e \in Posts /\ ~Past(c, e) /\ at[e] \in Int
  BY <1>1, <1>4, UndeliveredIsPast DEF Spares
<1>6. CASE ~Past(p.from, e)
  <2>1. CASE at[e] <= p.from.through
    BY <2>1
  <2>2. CASE ~(at[e] <= p.from.through)
    <3>1. ~polled /\ at[e] <= p.upper /\ p.from.through < at[e]
      BY <1>5, <1>6, <2>2, BegunPast
    <3>2. ov # 0
      BY <1>1, <1>4, <1>5, <3>1
    <3> QED BY <1>3, <3>1, <3>2
  <2> QED BY <2>1, <2>2
<1>7. CASE Past(p.from, e)
  <2>1. PICK g \in p.given : /\ ~Before(g, e)
                             /\ Uncovered(l) => at[e] < at[g] /\ at[e] <= p.upper - Overlap
    BY <1>4, <1>5, <1>7 DEF NotBeyond
  <2>2. CASE ov # 0
    BY <1>1, <1>3, <1>4, <2>1, <2>2
  <2>3. CASE ov = 0
    <3>1. g \in Posts /\ at[g] \in Int /\ at[g] <= p.upper
      BY <1>1
    <3>2. at[e] <= at[g]
      BY <1>5, <2>1, <3>1, BeforeOrders
    <3> QED BY <1>1, <1>4, <1>5, <2>3, <3>1, <3>2
  <2> QED BY <2>2, <2>3
<1> QED BY <1>6, <1>7

\* A batch given: its checkpoint spares what was given before and what is given now.
LEMMA AdmitSpares ==
  ASSUME at \in [Posts -> Maybe], clock \in Times, NEW p, NEW b, NEW s, Frame(p, b, s), NEW l,
         NEW c \in Checkpoints, NEW a, NEW last \in p.given,
         AdmitsTo(p, c, p.given, OverlapNow(l), last, a),
         NEW G, G \subseteq OnRelay, NEW L, Spares(c, G, L),
         NotBeyond(p, c, Uncovered(l), L),
         ~polled /\ Uncovered(l) => \A e \in G : p.from.through < at[e] /\ at[e] <= p.upper => e \in p.read,
         \A e \in OnRelay : at[e] <= a.forgot => e \in L
  PROVE  Spares(a, G \cup p.given, L) /\ Trails(p, a, Uncovered(l))
<1> DEFINE ov == OverlapNow(l)
           u == Smaller(at[last] - 1, p.upper - ov)
<1>1. /\ p.upper \in Int /\ p.from.through \in Int /\ Overlap \in Nat
      /\ ov \in Nat /\ ov \in {0, Overlap} /\ OnRelay \subseteq Posts /\ Posts \subseteq Nat
      /\ p.read \subseteq OnRelay /\ p.given \subseteq p.read
      /\ \A e \in OnRelay : at[e] \in Int
      /\ polled => ov # 0
  BY WindowTimes, OverlapIsOverlap, PostsOrdered DEF Frame
<1>2. /\ last \in OnRelay /\ last \in Posts /\ \A d \in p.given : d = last \/ Before(d, last)
      /\ at[last] \in Int /\ p.from.through < at[last] /\ Undelivered(p.from, last)
      /\ last # NoPost
  BY <1>1, PostsOrdered DEF AdmitsTo, Frame
<1>3. /\ ov = 0 => a.through = at[last] - 1 /\ a.after = last
      /\ ov # 0 => a.through = Larger(p.from.through, u) /\ a.after = NoPost
      /\ \A e \in OnRelay : e \in c.heard \/ (ov # 0 /\ e \in PassedOf(p) \cup p.given) =>
           e \in L \/ ~Undelivered(a, e)
  BY <1>1 DEF AdmitsTo
<1>4. u \in Int /\ u <= at[last] - 1 /\ u <= p.upper - ov
      /\ (u = at[last] - 1 \/ u = p.upper - ov)
  BY <1>1, <1>2, TimesAreNumbers
<1>5. Uncovered(l) <=> ov # 0
  BY UncoveredOverlaps
<1> HIDE DEF ov, u
<1>6. ov # 0 => /\ a.through \in {p.from.through, u}
                /\ p.from.through <= a.through /\ u <= a.through
  BY <1>1, <1>3, <1>4, TimesAreNumbers
<1>7. ASSUME NEW e \in OnRelay, ov = 0 PROVE Past(a, e) <=> Before(last, e)
  <2>1. a.through = at[last] - 1 /\ a.after = last /\ at[e] \in Int
    BY <1>1, <1>3, <1>7
  <2>2. Past(a, e) <=> at[e] > at[last] - 1 /\ Before(last, e)
    BY <1>2, <2>1 DEF Past
  <2>3. Before(last, e) => at[e] > at[last] - 1
    BY <1>2, <2>1 DEF Before
  <2> QED BY <2>2, <2>3
<1>8. \A e \in OnRelay : ov # 0 => (Past(a, e) <=> at[e] > a.through)
  BY <1>3 DEF Past
<1>9. ASSUME NEW e \in OnRelay, e \in p.given PROVE e \in L \/ ~Undelivered(a, e)
  <2>1. CASE ov = 0
    <3>1. ~Before(last, e)
      BY <1>1, <1>2, <1>9, BeforeOrders
    <3> QED BY <1>7, <2>1, <3>1, UndeliveredIsPast
  <2>2. CASE ov # 0
    BY <1>3, <1>9, <2>2
  <2> QED BY <2>1, <2>2
<1>10. ASSUME NEW e \in G, e \notin L, e \notin c.heard PROVE ~Undelivered(a, e)
  <2>1. e \in OnRelay /\ e \in Posts /\ ~Past(c, e) /\ at[e] \in Int
    BY <1>1, <1>10, UndeliveredIsPast DEF Spares
  <2>2. CASE ~Past(p.from, e)
    <3>1. CASE at[e] <= p.from.through
      <4>1. ov = 0 => ~Before(last, e)
        BY <1>1, <1>2, <2>1, <3>1 DEF Before
      <4>2. ov # 0 => ~(at[e] > a.through)
        BY <1>1, <1>4, <1>6, <2>1, <3>1
      <4> QED BY <1>7, <1>8, <2>1, <4>1, <4>2, UndeliveredIsPast
    <3>2. CASE ~(at[e] <= p.from.through)
      <4> DEFINE k == p.from.after
      <4>1. /\ ~polled /\ at[e] <= p.upper /\ p.from.through < at[e] /\ k \in Posts
            /\ k # NoPost /\ at[e] = at[k] /\ (e = k \/ Before(e, k))
        BY <2>1, <2>2, <3>2, BegunPast
      <4>2. CASE ov = 0
        <5>1. Before(k, last)
          BY <1>2, <4>1 DEF Undelivered
        <5>2. ~Before(last, e)
          BY <1>2, <2>1, <4>1, <5>1, BeforeOrders
        <5> QED BY <1>7, <2>1, <4>2, <5>2, UndeliveredIsPast
      <4>3. CASE ov # 0
        <5>1. e \in p.read
          BY <1>5, <1>10, <4>1, <4>3
        <5>2. e \in PassedOf(p)
          BY <4>1, <5>1 DEF PassedOf
        <5> QED BY <1>3, <1>10, <2>1, <4>3, <5>2
      <4> QED BY <4>2, <4>3
    <3> QED BY <3>1, <3>2
  <2>3. CASE Past(p.from, e)
    <3>1. PICK g \in p.given : /\ ~Before(g, e)
                               /\ Uncovered(l) => at[e] < at[g] /\ at[e] <= p.upper - Overlap
      BY <1>10, <2>1, <2>3 DEF NotBeyond
    <3>2. g \in Posts /\ (g = last \/ Before(g, last)) /\ at[g] \in Int
      BY <1>1, <1>2
    <3>3. CASE ov = 0
      <4>1. ~Before(last, e)
        BY <1>2, <2>1, <3>1, <3>2, BeforeOrders
      <4> QED BY <1>7, <2>1, <3>3, <4>1, UndeliveredIsPast
    <3>4. CASE ov # 0
      <4>1. at[g] <= at[last]
        BY <1>2, <3>2, BeforeOrders
      <4>2. at[e] < at[last] /\ at[e] <= p.upper - ov
        BY <1>1, <1>2, <1>5, <2>1, <3>1, <3>2, <3>4, <4>1
      <4>3. at[e] <= u
        BY <1>1, <1>2, <1>4, <2>1, <4>2
      <4>4. ~(at[e] > a.through)
        BY <1>1, <1>4, <1>6, <2>1, <3>4, <4>3
      <4> QED BY <1>8, <2>1, <3>4, <4>4, UndeliveredIsPast
    <3> QED BY <3>3, <3>4
  <2> QED BY <2>2, <2>3
<1>11. Spares(a, G \cup p.given, L)
  <2> SUFFICES ASSUME NEW e \in G \cup p.given PROVE e \in L \/ ~Undelivered(a, e)
    BY DEF Spares
  <2>1. e \in OnRelay
    BY <1>1
  <2> QED BY <1>3, <1>9, <1>10, <2>1
<1>12. Trails(p, a, Uncovered(l))
  <2>1. CASE ov = 0
    BY <1>2, <1>3, <1>5, <2>1 DEF Trails
  <2>2. CASE ov # 0
    <3>1. a.after = NoPost /\ a.through < at[last]
      BY <1>1, <1>2, <1>3, <1>4, <1>6, <2>2
    <3>2. a.through <= p.from.through \/ a.through <= p.upper - Overlap
      BY <1>1, <1>4, <1>6, <2>2
    <3> QED BY <3>1, <3>2 DEF Trails
  <2> QED BY <2>1, <2>2
<1> QED BY <1>11, <1>12

\* A window read spares what its checkpoint did, and may go on.
LEMMA WindowedSpares ==
  ASSUME at \in [Posts -> Maybe], clock \in Times, NEW p, NEW b \in Int, NEW c \in Checkpoints,
         c.heard \subseteq OnRelay, Frame(p, b, c.shrunk), NEW l, p.given = {},
         NEW G, G \subseteq OnRelay, NEW L, Spares(c, G, L), NotBeyond(p, c, Uncovered(l), L),
         NEW N,
         ~polled /\ Uncovered(l) =>
           \A e \in OnRelay : p.from.through < at[e] /\ at[e] <= p.upper => e \in p.read \/ e \in N,
         G \cap N = {},
         \A e \in OnRelay : at[e] <= Windowed(p, c, l)[2].forgot => e \in L
  PROVE  LET r == Windowed(p, c, l)
         IN  /\ Spares(r[2], G, L) /\ Resumes(r[1], r[2], Uncovered(l), N)
             /\ c.forgot <= r[2].forgot
<1> DEFINE F(k) == Kept(k, Finished(p, k.heard, OverlapNow(l)))
<1>1. PICK c1 \in Checkpoints :
        /\ WindowSaved(p, c, c1)
        /\ p.left # {} => Windowed(p, c, l) = <<[p EXCEPT !.stage = "giving"], c1>>
        /\ p.left = {} => Windowed(p, c, l) = <<Begun(p, F(c1), l), F(c1)>>
  BY WindowedIs
<1>2. /\ OnRelay \subseteq Posts /\ c.forgot \in Int /\ c1.forgot \in Int /\ c.shrunk \in Int
      /\ c1.shrunk \in Int /\ c.shrunk <= c1.shrunk /\ c.forgot <= c1.forgot
      /\ c1.heard \subseteq OnRelay
      /\ \A e \in OnRelay : at[e] \in Int
      /\ \A e \in c.heard : ~Undelivered(c1, e) \/ at[e] <= c1.forgot
      /\ \A e : Past(c1, e) <=> Past(p.from, e)
  BY <1>1, WindowTimes, CheckpointFields, TimesAreNumbers DEF WindowSaved, Past
<1>3. ASSUME \A e \in OnRelay : at[e] <= c1.forgot => e \in L
      PROVE  Spares(c1, G, L)
  <2> SUFFICES ASSUME NEW e \in G, e \notin L, e \notin c.heard PROVE ~Undelivered(c1, e)
    BY <1>2, <1>3 DEF Spares
  <2>1. e \in OnRelay /\ ~Past(c, e)
    BY UndeliveredIsPast DEF Spares
  <2>2. ~Past(p.from, e)
    BY <2>1 DEF NotBeyond
  <2> QED BY <1>2, <2>2, UndeliveredIsPast
<1>4. NotBeyond(p, c1, Uncovered(l), L)
  BY <1>2 DEF NotBeyond
<1>5. CASE p.left # {}
  <2> DEFINE q == [p EXCEPT !.stage = "giving"]
  <2>1. /\ q.stage = "giving" /\ q.from = p.from /\ q.upper = p.upper /\ q.read = p.read
        /\ q.given = {}
    <3>1. p \in Passes
      BY DEF Frame
    <3> QED BY <3>1 DEF Passes
  <2> HIDE DEF q
  <2>2. Windowed(p, c, l) = <<q, c1>>
    BY <1>1, <1>5 DEF q
  <2>3. Spares(c1, G, L)
    BY <1>3, <2>2
  <2>4. Trails(q, c1, Uncovered(l))
    <3>1. c1.through = p.from.through /\ c1.after = p.from.after /\ p.from.through \in Int
      BY <1>1, WindowTimes DEF WindowSaved
    <3> QED BY <2>1, <3>1 DEF Trails
  <2>5. ~polled /\ Uncovered(l) => InRange(q, N)
    BY <2>1 DEF InRange
  <2>6. Resumes(q, c1, Uncovered(l), N)
    BY <2>4, <2>5 DEF Resumes
  <2> QED BY <1>2, <2>2, <2>3, <2>6
<1>6. CASE p.left = {}
  <2> DEFINE f == F(c1)
  <2>1. Frame(p, b, c1.shrunk)
    BY <1>2, FrameLater
  <2>2. Finishes(p, c1, OverlapNow(l), f)
    BY <1>2, <2>1, FinishOK
  <2>3. Windowed(p, c, l) = <<Begun(p, f, l), f>>
    BY <1>1, <1>6
  <2> HIDE DEF f
  <2>4. f \in Checkpoints /\ c1.forgot <= f.forgot /\ f.forgot \in Int
    BY <2>2, CheckpointFields, TimesAreNumbers DEF Finishes
  <2>5. \A e \in OnRelay : at[e] <= f.forgot => e \in L
    BY <2>3
  <2>6. Spares(c1, G, L)
    BY <1>2, <1>3, <2>4, <2>5
  <2>7. ~polled /\ Uncovered(l) =>
          \A e \in G : p.from.through < at[e] /\ at[e] <= p.upper => e \in p.read
    OBVIOUS
  <2>8. Spares(f, G, L)
    BY <1>4, <2>1, <2>2, <2>5, <2>6, <2>7, FinishSpares
  <2>9. Resumes(Begun(p, f, l), f, Uncovered(l), N)
    BY <2>4, BegunResumes DEF Frame
  <2>10. c.forgot <= f.forgot
    BY <1>2, <2>4
  <2> QED BY <2>3, <2>8, <2>9, <2>10
<1> QED BY <1>5, <1>6

\* What a step that stores no event must show.
LEMMA SameOnce ==
  ASSUME at' = at, polled' = polled,
         \A e \in OnRelay \ Lost(checkpoint') : taken'[e] <= 1,
         Spares(checkpoint', Taken', Lost(checkpoint')), Remembered',
         Resumes(pass', checkpoint', Uncovered(link'), Fresh')
  PROVE  OnceInv'
<1>1. OnRelay' = OnRelay
  BY DEF OnRelay
<1>2. Lost(checkpoint)' = Lost(checkpoint') /\ Uncovered(link)' = Uncovered(link')
  BY <1>1 DEF Lost, Uncovered
<1>3. Spares(checkpoint, Taken, Lost(checkpoint))'
  BY <1>2 DEF Spares, Undelivered, Before
<1>4. Resumes(pass, checkpoint, Uncovered(link), Fresh)'
  BY <1>1, <1>2 DEF Resumes, Trails, Before, InRange, Beneath, Newer, Window
<1> QED BY <1>1, <1>2, <1>3, <1>4 DEF OnceInv

\* Catching up spares what was given, and resumes only what it may.
LEMMA OnceCatchesUp ==
  ASSUME Shape, Shape', at' = at, polled' = polled, clock' = clock, taken' = taken,
         NEW c \in Checkpoints, checkpoint.shrunk <= c.shrunk, checkpoint.forgot <= c.forgot,
         NEW l \in Links, NEW r \in Runners, r.seen = runner.seen,
         NEW o \in BOOLEAN, NEW old, CatchesUpTo(c, l, r, o, old),
         OnceInv, Spares(c, Taken, Lost(c)), Remembered',
         l.since # NoTime => Resumes(old, c, Uncovered(l), Fresh)
  PROVE  OnceInv'
<1> USE ShapeParts
<1> DEFINE k == Kept(c, From(clock))
           l1 == [l EXCEPT !.covered = Coverage(l)]
           L == Lost(checkpoint')
<1>1. /\ link' = l1
      /\ runner' = [r EXCEPT !.quiet = ~o,
                             !.started = IF ~o THEN NoTime ELSE IF r.quiet THEN clock ELSE @]
      /\ \/ pass' = NoPass /\ (checkpoint' = k \/ checkpoint' = c)
         \/ l.since # NoTime /\ checkpoint' = c /\ pass' = old
         \/ checkpoint' = c /\ \E q \in Passes : pass' = Begun(q, c, l1)
         \/ /\ checkpoint' = k /\ old.stage = "done"
            /\ pass' = old \/ \E q \in Passes : pass' = Begun(q, k, l1)
  BY DEF CatchesUpTo
<1>2. runner'.seen = runner.seen /\ l1.since = l.since /\ l1.route = l.route
  BY <1>1 DEF Runners, Links
<1>3. Fresh' = Fresh /\ Taken' = Taken /\ Uncovered(link') = Uncovered(l)
  BY <1>1, <1>2 DEF Fresh, Taken, OnRelay, Uncovered
<1>4. k \in Checkpoints /\ c.shrunk <= k.shrunk /\ c.forgot <= k.forgot
      /\ \A e \in Posts : at[e] <= clock => ~Undelivered(k, e)
  BY MovedHolds
<1> HIDE DEF k, l1
<1>5. /\ checkpoint' \in Checkpoints
      /\ c.shrunk <= checkpoint'.shrunk /\ c.forgot <= checkpoint'.forgot
  BY <1>1, <1>4, CheckpointFields, TimesAreNumbers
<1>6. Lost(checkpoint) \subseteq Lost(c) /\ Lost(c) \subseteq L
  BY <1>5, LostGrows
<1> HIDE DEF L
<1>7. \A e \in OnRelay \ L : taken'[e] <= 1
  BY <1>6 DEF OnceInv
<1>8. Spares(checkpoint', Taken', L)
  <2>1. Spares(k, Taken, L)
    BY <1>4 DEF Spares, Taken
  <2>2. Spares(c, Taken, L)
    BY <1>6, SparesMore
  <2> QED BY <1>1, <1>3, <2>1, <2>2
<1>9. Resumes(pass', checkpoint', Uncovered(l), Fresh)
  <2>1. \A q : ~Window(q) => Resumes(q, checkpoint', Uncovered(l), Fresh)
    BY DEF Resumes
  <2>2. CASE l.since # NoTime /\ checkpoint' = c /\ pass' = old
    BY <1>6, <2>2, SparesMore
  <2>3. CASE pass' = NoPass
    BY <2>1, <2>3, PassFields
  <2>4. CASE old.stage = "done" /\ pass' = old
    BY <2>1, <2>4 DEF Window
  <2>5. CASE \E q \in Passes : pass' = Begun(q, checkpoint', l1)
    BY <1>5, <2>5, BegunResumes
  <2> QED BY <1>1, <2>2, <2>3, <2>4, <2>5
<1> QED BY <1>3, <1>7, <1>8, <1>9, SameOnce DEF L

\* A covered stream's route is only lost with the connection while a window is under way.
StaysLive == ~polled /\ link.route /\ ~link'.route => link'.since = NoTime \/ ~Window(pass)

\* The steps of the connection, ticks and edits keep it.
LEMMA OnceLink ==
  ASSUME Shape, Shape', OnceInv, StaysLive,
         \/ LinkMade \/ LinkDrops \/ RouteLive \/ RouteDrops
         \/ Edits \/ \E due \in BOOLEAN : Ticks(due)
  PROVE  OnceInv'
<1> USE ShapeParts
<1>1. PICK l \in Links, o \in BOOLEAN, old \in Passes :
        /\ CatchesUpTo(checkpoint, l, runner, o, old)
        /\ old = NoPass \/ old = pass
        /\ alive /\ UNCHANGED <<at, clock, polled, alive, taken>>
        /\ \/ fly' = fly /\ (link.route => l.route)
           \/ fly' = {}
  BY LinkCatchesUp
<1>2. link'.route = l.route /\ link'.since = l.since
  BY <1>1 DEF CatchesUpTo, Links
<1>3. /\ runner'.seen = runner.seen /\ runner'.backlog = runner.backlog
      /\ runner'.start = runner.start
  BY <1>1 DEF CatchesUpTo, Runners
<1>4. Remembered'
  <2>1. Taken' = Taken /\ OnRelay' = OnRelay
    BY <1>1 DEF Taken, OnRelay
  <2>2. ~polled' /\ ~link'.route => fly' = {}
    BY <1>1, <1>2 DEF OnceInv, Remembered
  <2>3. fly' \subseteq fly
    BY <1>1
  <2> QED BY <1>1, <1>3, <2>1, <2>2, <2>3 DEF OnceInv, Remembered
<1>5. ASSUME l.since # NoTime
      PROVE  Resumes(old, checkpoint, Uncovered(l), Fresh)
  <2>1. CASE ~Window(old)
    BY <2>1 DEF Resumes
  <2>2. CASE Window(old)
    <3>1. old = pass /\ Window(pass)
      BY <1>1, <2>2, PassFields
    <3>2. Uncovered(l) => Uncovered(link)
      BY <1>2, <1>5, <3>1 DEF Uncovered, StaysLive
    <3> QED BY <3>1, <3>2, SparesMore DEF OnceInv
  <2> QED BY <2>1, <2>2
<1>6. checkpoint.shrunk <= checkpoint.shrunk /\ checkpoint.forgot <= checkpoint.forgot
  BY CheckpointFields, TimesAreNumbers
<1> QED BY <1>1, <1>4, <1>5, <1>6, OnceCatchesUp DEF OnceInv

\* Ends and starts of the program keep it.
LEMMA OnceEnds ==
  ASSUME Shape, Shape', OnceInv, ProgramEnds \/ ProgramStarts
  PROVE  OnceInv'
<1> USE ShapeParts
<1>1. CASE ProgramEnds
  <2>1. /\ alive /\ alive' = FALSE /\ clock' = clock + 1 /\ fly' = {} /\ pass' = NoPass
        /\ runner' = [seen |-> {}, backlog |-> {}, quiet |-> FALSE, started |-> NoTime, start |-> 0]
        /\ UNCHANGED <<polled, at, checkpoint, taken>>
    BY <1>1 DEF ProgramEnds
  <2>2. Taken' = Taken /\ OnRelay' = OnRelay
    BY <2>1 DEF Taken, OnRelay
  <2>3. \A e \in OnRelay : at[e] < clock'
    BY <2>1, PostsOrdered
  <2>4. Remembered'
    BY <2>1, <2>2, <2>3 DEF OnceInv, Remembered
  <2>5. ~Window(pass')
    BY <2>1, PassFields
  <2>6. Resumes(pass', checkpoint', Uncovered(link'), Fresh')
    BY <2>5 DEF Resumes
  <2> QED BY <2>1, <2>2, <2>4, <2>6, SameOnce DEF OnceInv
<1>2. CASE ProgramStarts
  <2> DEFINE c == Reopened(checkpoint)
             r == [runner EXCEPT !.start = clock]
  <2>1. /\ ~alive /\ alive' = TRUE
        /\ CatchesUp(FALSE, FALSE, c, link, r, on, pass)
        /\ UNCHANGED <<polled, clock, at, fly, taken>>
    BY <1>2 DEF ProgramStarts
  <2>2. Holds(checkpoint, checkpoint.heard, c) /\ c \in Checkpoints
    BY ReopenedOK DEF Shape
  <2>3. /\ r \in Runners /\ r.seen = runner.seen /\ r.backlog = runner.backlog
        /\ r.start = clock
    BY DEF Runners
  <2> HIDE DEF c, r
  <2>4. CatchesUpTo(c, link, r, on, pass)
    BY <2>1, CatchesUpCases
  <2>5. link.since = NoTime /\ fly = {} /\ runner.backlog = {}
    BY <2>1 DEF Shape, Moment
  <2>6. /\ runner'.seen = runner.seen /\ runner'.backlog = runner.backlog /\ runner'.start = clock
    BY <2>3, <2>4 DEF CatchesUpTo, Runners
  <2>7. checkpoint.shrunk <= c.shrunk /\ checkpoint.forgot <= c.forgot
    BY <2>2 DEF Holds
  <2>8. Spares(c, Taken, Lost(c))
    <3> SUFFICES ASSUME NEW e \in Taken, e \notin Lost(c) PROVE ~Undelivered(c, e)
      BY DEF Spares
    <3>1. e \in OnRelay /\ e \notin Lost(checkpoint) /\ e \in Posts
      BY <2>2, <2>7, LostGrows DEF OnceInv, Remembered
    <3>2. e \in checkpoint.heard \/ ~Past(checkpoint, e)
      BY <3>1, UndeliveredIsPast DEF OnceInv, Spares
    <3>3. checkpoint.heard \in SUBSET Posts
      BY CheckpointFields
    <3>4. ~Undelivered(c, e) \/ at[e] <= c.forgot
      BY <2>2, <3>1, <3>2, <3>3, HeardPasses
    <3> QED BY <3>1, <3>4 DEF Lost
  <2>9. Remembered'
    <3>1. Taken' = Taken /\ OnRelay' = OnRelay
      BY <2>1 DEF Taken, OnRelay
    <3> QED BY <2>1, <2>5, <2>6, <3>1 DEF OnceInv, Remembered
  <2> QED BY <2>1, <2>2, <2>3, <2>4, <2>5, <2>7, <2>8, <2>9, OnceCatchesUp
<1> QED BY <1>1, <1>2

\* So do the clock's steps and failing pages.
LEMMA OnceTime ==
  ASSUME Shape, Shape', OnceInv, TimePasses \/ PageFails
  PROVE  OnceInv'
<1>1. /\ UNCHANGED <<polled, at, fly, checkpoint, alive, link, runner, taken>>
      /\ pass' = pass \/ pass'.stage = "failed"
      /\ clock <= clock' /\ clock \in Int /\ clock' \in Int
  BY ShapeParts, PassFields DEF TimePasses, PageFails, NoPass
<1>2. Taken' = Taken /\ OnRelay' = OnRelay /\ Fresh' = Fresh /\ Uncovered(link') = Uncovered(link)
  BY <1>1 DEF Taken, OnRelay, Fresh
<1>3. Remembered'
  <2>1. \A e \in Taken : at[e] \in Int
    BY ShapeParts, PostsOrdered DEF Taken
  <2> QED BY <1>1, <1>2, <2>1 DEF OnceInv, Remembered
<1>4. Resumes(pass', checkpoint', Uncovered(link'), Fresh')
  BY <1>1, <1>2 DEF OnceInv, Resumes, Window
<1> QED BY <1>1, <1>2, <1>3, <1>4, SameOnce DEF OnceInv

\* So does what the relay stores.
LEMMA OnceStores ==
  ASSUME Shape, Shape', OnceInv, NEW e \in Posts, NEW t \in Times, Stores(e, t)
  PROVE  OnceInv'
<1> USE ShapeParts
<1>1. /\ at' \in [Posts -> Maybe] /\ e \notin OnRelay
      /\ OnRelay' = OnRelay \cup {e} /\ \A d \in OnRelay : at'[d] = at[d]
      /\ UNCHANGED <<polled, clock, checkpoint, on, alive, link, runner, pass, taken, base, upsets>>
      /\ fly' \subseteq fly \cup {e}
      /\ (~link.route => fly' = fly)
      /\ checkpoint.after # NoPost => checkpoint.after \in OnRelay
      /\ Window(pass) /\ pass.from.after # NoPost => pass.from.after \in OnRelay
  BY StoresFrame
<1>2. /\ Taken' = Taken /\ Taken \subseteq OnRelay /\ e \notin Taken
      /\ runner.seen \subseteq OnRelay /\ Fresh' = Fresh \cup {e}
  BY <1>1 DEF Taken, OnceInv, Remembered, Fresh
<1>3. Lost(checkpoint) \subseteq Lost(checkpoint)'
  BY <1>1 DEF Lost
<1>4. \A d \in OnRelay' \ Lost(checkpoint)' : taken'[d] <= 1
  <2>1. taken \in [Posts -> Nat] /\ taken[e] <= 1
    BY <1>2 DEF Shape, CatchUpTypeOK, Taken
  <2> QED BY <1>1, <1>3, <2>1 DEF OnceInv
<1>5. \A d \in OnRelay : (Undelivered(checkpoint, d)' <=> Undelivered(checkpoint, d))
                         /\ (Past(checkpoint, d)' <=> Past(checkpoint, d))
  BY <1>1 DEF Undelivered, Past, Before
<1>6. Spares(checkpoint, Taken, Lost(checkpoint))'
  BY <1>1, <1>2, <1>3, <1>5 DEF Spares, OnceInv
<1>7. Remembered'
  BY <1>1, <1>2 DEF OnceInv, Remembered
<1>8. Resumes(pass, checkpoint, Uncovered(link), Fresh)'
  <2> SUFFICES ASSUME Window(pass)
               PROVE  /\ Trails(pass, checkpoint, Uncovered(link))'
                      /\ ~polled /\ Uncovered(link) => InRange(pass, Fresh)'
    BY <1>1 DEF Resumes, Window, Uncovered
  <2>1. pass.read \subseteq OnRelay /\ pass.given \subseteq OnRelay
    BY DEF Shape, WindowOK, Frame
  <2>2. /\ Trails(pass, checkpoint, Uncovered(link))
        /\ ~polled /\ Uncovered(link) => InRange(pass, Fresh)
    BY DEF OnceInv, Resumes
  <2>3. Uncovered(link)' = Uncovered(link) /\ \A g \in pass.given : at'[g] = at[g]
    BY <1>1, <2>1 DEF Uncovered
  <2>4. Trails(pass, checkpoint, Uncovered(link))'
    BY <1>1, <2>2, <2>3 DEF Trails
  <2>5. ASSUME InRange(pass, Fresh) PROVE InRange(pass, Fresh)'
    <3>1. \A d \in OnRelay : Beneath(pass, d)' <=> Beneath(pass, d)
      BY <1>1, <2>1 DEF Beneath, Newer
    <3> QED BY <1>1, <1>2, <2>5, <3>1 DEF InRange
  <2> QED BY <2>2, <2>4, <2>5
<1> QED BY <1>4, <1>6, <1>7, <1>8 DEF OnceInv

\* So does what is heard, replayed and admitted.
LEMMA OnceHears ==
  ASSUME Shape, Shape', OnceInv, NEW e \in Posts, Hears(e) \/ Replays(e) \/ Admits(e)
  PROVE  OnceInv'
<1> USE ShapeParts
<1> DEFINE h == HeardIn(checkpoint, e)
<1>1. /\ e \in OnRelay /\ UNCHANGED <<polled, clock, at, link, pass, alive>> /\ alive
      /\ OnRelay' = OnRelay /\ taken \in [Posts -> Nat]
  BY DEF Hears, Replays, Replayable, Admits, Shape, CatchUpTypeOK, Moment, OnRelay
<1>2. /\ h \in Checkpoints /\ h.upper = checkpoint.upper /\ h.after = checkpoint.after
      /\ checkpoint.shrunk <= h.shrunk /\ checkpoint.forgot <= h.forgot
      /\ (h = checkpoint /\ ~Undelivered(checkpoint, e)) \/ Holds(checkpoint, checkpoint.heard \cup {e}, h)
  BY <1>1, HeardInOK DEF Shape
<1> HIDE DEF h
<1>3. /\ Taken \subseteq OnRelay /\ runner.backlog \cap Taken = {}
      /\ \A d \in Taken : d \in runner.seen \/ (d \notin fly /\ at[d] < runner.start)
      /\ ~polled /\ ~link.route => fly = {}
  BY <1>1 DEF OnceInv, Remembered
<1> DEFINE Gives1 == e \notin Taken /\ taken' = [taken EXCEPT ![e] = @ + 1]
<1>4. /\ checkpoint' = h \/ (checkpoint' = checkpoint /\ taken' = taken)
      /\ runner'.start = runner.start /\ fly' \subseteq fly
      /\ runner'.seen = runner.seen \/ (runner'.seen = runner.seen \cup {e} /\ (polled \/ link.route))
      /\ taken' = taken \/ Gives1
      /\ taken' # taken => e \in runner'.seen /\ e \notin runner'.backlog
      /\ runner'.backlog \subseteq runner.backlog \cup {e}
      /\ e \in Taken => e \notin runner'.backlog
  <2>1. runner.seen \in SUBSET Posts /\ runner.backlog \in SUBSET Posts /\ at[e] \in Int
        /\ runner.start \in Int
    BY PostsOrdered, TimesAreNumbers DEF Runners
  <2>2. CASE Hears(e)
    <3>1. CASE e \in runner.seen
      <4>1. UNCHANGED <<runner, taken, checkpoint>> /\ fly' = fly \ {e}
        BY <2>2, <3>1 DEF Hears
      <4> QED BY <1>3, <4>1
    <3>2. CASE e \notin runner.seen
      <4>1. /\ runner' = [runner EXCEPT !.seen = @ \cup {e}] /\ fly' = fly \ {e} /\ e \in fly
            /\ taken' = IF on THEN [taken EXCEPT ![e] = @ + 1] ELSE taken
            /\ checkpoint' = h
        BY <2>2, <3>2 DEF Hears, h
      <4>2. /\ runner'.seen = runner.seen \cup {e} /\ runner'.backlog = runner.backlog
            /\ runner'.start = runner.start
        BY <4>1 DEF Runners
      <4>3. e \notin Taken /\ (polled \/ link.route)
        BY <1>3, <3>2, <4>1
      <4>4. e \notin runner.backlog
        BY <3>2
      <4> QED BY <4>1, <4>2, <4>3, <4>4
    <3> QED BY <3>1, <3>2
  <2>3. CASE Replays(e)
    <3>1. /\ runner' = [runner EXCEPT !.seen = @ \cup {e}, !.backlog = @ \cup {e}]
          /\ link.route /\ e \notin runner.seen /\ at[e] >= runner.start
          /\ UNCHANGED <<fly, checkpoint, taken>>
      BY <2>3 DEF Replays, Replayable
    <3>2. /\ runner'.seen = runner.seen \cup {e} /\ runner'.backlog = runner.backlog \cup {e}
          /\ runner'.start = runner.start
      BY <3>1 DEF Runners
    <3>3. e \notin Taken
      BY <1>3, <2>1, <3>1
    <3> QED BY <3>1, <3>2, <3>3
  <2>4. CASE Admits(e)
    <3>1. /\ runner' = [runner EXCEPT !.backlog = @ \ {e}] /\ e \in runner.backlog
          /\ taken' = IF on /\ at[e] >= runner.started THEN [taken EXCEPT ![e] = @ + 1] ELSE taken
          /\ checkpoint' = h /\ fly' = fly
      BY <2>4 DEF Admits, h
    <3>2. /\ runner'.seen = runner.seen /\ runner'.backlog = runner.backlog \ {e}
          /\ runner'.start = runner.start
      BY <3>1 DEF Runners
    <3>3. e \notin Taken
      BY <1>3, <3>1
    <3> QED BY <3>1, <3>2, <3>3
  <2> QED BY <2>2, <2>3, <2>4
<1>5. /\ Taken \subseteq Taken' /\ Taken' \subseteq Taken \cup {e}
      /\ Taken' # Taken => taken' # taken /\ e \notin Taken
      /\ \A d \in Posts : taken'[d] = taken[d] \/ (d = e /\ taken'[d] = 1)
  <2>1. CASE taken' = taken
    BY <2>1 DEF Taken
  <2>2. CASE Gives1
    <3>1. taken[e] = 0 /\ taken'[e] = 1 /\ \A d \in Posts : d # e => taken'[d] = taken[d]
      BY <1>1, <2>2 DEF Taken
    <3> QED BY <2>2, <3>1 DEF Taken
  <2> QED BY <1>4, <2>1, <2>2
<1> HIDE DEF Gives1
<1>6. /\ checkpoint' \in Checkpoints /\ checkpoint'.upper = checkpoint.upper
      /\ checkpoint'.after = checkpoint.after
      /\ checkpoint.shrunk <= checkpoint'.shrunk /\ checkpoint.forgot <= checkpoint'.forgot
  BY <1>2, <1>4, CheckpointFields, TimesAreNumbers
<1>7. Lost(checkpoint) \subseteq Lost(checkpoint')
  BY <1>6, LostGrows
<1>8. \A d \in OnRelay \ Lost(checkpoint') : taken'[d] <= 1
  BY <1>5, <1>7 DEF OnceInv
<1>9. Spares(checkpoint', Taken', Lost(checkpoint'))
  <2> SUFFICES ASSUME NEW d \in Taken', d \notin Lost(checkpoint')
               PROVE  ~Undelivered(checkpoint', d)
    BY DEF Spares
  <2>1. d \in OnRelay /\ d \in Posts
    BY <1>1, <1>3, <1>5
  <2>2. d \in Taken => ~Undelivered(checkpoint, d)
    BY <1>7 DEF OnceInv, Spares
  <2>3. CASE checkpoint' = checkpoint /\ d \in Taken
    BY <2>2, <2>3
  <2>4. CASE checkpoint' = h /\ h = checkpoint /\ ~Undelivered(checkpoint, e)
    BY <1>5, <2>2, <2>4
  <2>5. CASE checkpoint' = h /\ Holds(checkpoint, checkpoint.heard \cup {e}, h)
    <3>1. checkpoint.heard \cup {e} \in SUBSET Posts
      BY CheckpointFields
    <3>2. d \in checkpoint.heard \cup {e} \/ ~Past(checkpoint, d)
      BY <1>5, <2>2, UndeliveredIsPast
    <3>3. ~Undelivered(h, d) \/ at[d] <= h.forgot
      BY <1>2, <2>1, <2>5, <3>1, <3>2, HeardPasses
    <3> QED BY <2>1, <2>5, <3>3 DEF Lost
  <2> QED BY <1>2, <1>4, <1>5, <2>3, <2>4, <2>5
<1>10. Remembered'
  <2>1. Taken' \subseteq OnRelay' /\ runner'.backlog \cap Taken' = {}
    BY <1>1, <1>3, <1>4, <1>5
  <2>2. \A d \in Taken' : d \in runner'.seen \/ (d \notin fly' /\ at[d] < runner'.start)
    BY <1>3, <1>4, <1>5
  <2>3. ~polled /\ ~link.route => fly' = {}
    BY <1>3, <1>4
  <2> QED BY <1>1, <2>1, <2>2, <2>3 DEF Remembered
<1>11. Resumes(pass', checkpoint', Uncovered(link'), Fresh')
  <2> SUFFICES ASSUME Window(pass)
               PROVE  /\ Trails(pass, checkpoint', Uncovered(link))
                      /\ ~polled /\ Uncovered(link) => InRange(pass, Fresh')
    BY <1>1 DEF Resumes
  <2>1. /\ Trails(pass, checkpoint, Uncovered(link))
        /\ ~polled /\ Uncovered(link) => InRange(pass, Fresh)
    BY DEF OnceInv, Resumes
  <2>2. ~polled /\ Uncovered(link) => Fresh' = Fresh
    <3> SUFFICES ASSUME ~polled, Uncovered(link) PROVE Fresh' = Fresh
      OBVIOUS
    <3>1. ~link.route
      BY DEF Uncovered, Shape, Moment
    <3>2. runner'.seen = runner.seen
      BY <1>4, <3>1
    <3> QED BY <1>1, <1>4, <1>5, <3>2 DEF Fresh
  <2>3. /\ checkpoint.through \in Int /\ checkpoint.shrunk \in Int /\ checkpoint'.through \in Int
        /\ checkpoint'.shrunk \in Int /\ checkpoint.through <= checkpoint'.through
        /\ checkpoint'.through > checkpoint.through => checkpoint'.through <= checkpoint'.shrunk
        /\ checkpoint.upper # NoTime => checkpoint'.through = checkpoint.through
    <3>1. \/ checkpoint' = checkpoint
          \/ checkpoint' = h /\ Holds(checkpoint, checkpoint.heard \cup {e}, h)
      BY <1>2, <1>4
    <3>2. /\ checkpoint.through \in Int /\ checkpoint.shrunk \in Int /\ checkpoint'.through \in Int
          /\ checkpoint'.shrunk \in Int
      BY <1>6, CheckpointFields, TimesAreNumbers
    <3> QED BY <3>1, <3>2 DEF Holds
  <2>4. pass.given # {} => checkpoint'.through = checkpoint.through
    <3>1. pass.given # {} => checkpoint.upper = pass.upper /\ pass.upper \in Times
      BY DEF Shape, WindowOK, Window, Frame
    <3> QED BY <2>3, <3>1, TimesAreNumbers
  <2>5. pass.from.through \in Int
    BY TimesAreNumbers DEF Shape, WindowOK, Frame
  <2>6. Trails(pass, checkpoint', Uncovered(link))
    BY <1>6, <2>1, <2>3, <2>4, <2>5 DEF Trails
  <2> QED BY <2>1, <2>2, <2>6
<1> QED BY <1>1, <1>8, <1>9, <1>10, <1>11, SameOnce

\* So do batches: what they give is given once, and their checkpoint spares it.
LEMMA OnceGives ==
  ASSUME Shape, Shape', OnceInv, NEW n \in 1..BatchSize, Gives(n)
  PROVE  OnceInv'
<1> DEFINE p == GivenOf(pass, n)
           c1 == AdmitOf(p, checkpoint, link)
           c2 == FinishOf(p, c1, link)
           B == BatchOf(pass, n)
           L == Lost(checkpoint')
           U == Uncovered(link)
<1>0. /\ at \in [Posts -> Maybe] /\ clock \in Times /\ base \in Int
      /\ checkpoint \in Checkpoints /\ runner \in Runners /\ pass \in Passes
      /\ OnRelay \subseteq Posts /\ taken \in [Posts -> Nat] /\ runner.backlog \subseteq runner.seen
  BY ShapeParts DEF Shape, CatchUpTypeOK
<1>1. /\ pass.stage = "giving"
      /\ taken' = [e \in Posts |-> IF e \in B \ runner.seen /\ Undelivered(checkpoint, e)
                                   THEN taken[e] + 1 ELSE taken[e]]
      /\ runner' = [runner EXCEPT !.seen = @ \cup B]
      /\ checkpoint' = IF p.left = {} THEN c2 ELSE c1
      /\ pass' = IF p.left = {} THEN Begun(p, c2, link) ELSE p
      /\ UNCHANGED <<polled, clock, at, fly, on, alive, link, base, owed, lost, upsets>>
  BY GivesCases
<1>2. /\ Frame(p, base, checkpoint.shrunk) /\ c1 \in Checkpoints
      /\ \E last \in p.given : AdmitsTo(p, checkpoint, p.given, OverlapNow(link), last, c1)
      /\ Frame(p, base, c1.shrunk) /\ Finishes(p, c1, OverlapNow(link), c2)
      /\ c2 \in Checkpoints /\ checkpoint.shrunk <= c1.shrunk /\ c1.shrunk <= c2.shrunk
  BY GivesOK
<1>3. /\ p.stage = "giving" /\ p.from = pass.from /\ p.upper = pass.upper /\ p.read = pass.read
      /\ B \subseteq pass.left /\ p.left = pass.left \ B /\ p.given = pass.given \cup B
  <2>1. n \in Nat \ {0}
    BY CatchUpAssumption
  <2>2. Frame(pass, base, checkpoint.shrunk) /\ pass.left # {}
    BY <1>1 DEF Shape, WindowOK, Window
  <2> QED BY <1>0, <1>1, <2>1, <2>2, GivenFrame
<1>4. /\ alive /\ runner'.backlog = runner.backlog /\ runner'.seen = runner.seen \cup B
      /\ runner'.start = runner.start
  BY <1>0, <1>1 DEF Runners, Shape, Moment, Window
<1> HIDE DEF p, c1, c2, B
<1>5. B \subseteq p.given /\ p.given \subseteq p.read /\ p.read \subseteq OnRelay
  BY <1>2, <1>3 DEF Frame
<1>6. /\ checkpoint.forgot <= c1.forgot /\ c1.forgot <= c2.forgot
      /\ checkpoint' \in Checkpoints /\ checkpoint.shrunk <= checkpoint'.shrunk
      /\ checkpoint.forgot <= checkpoint'.forgot
      /\ c1.shrunk <= checkpoint'.shrunk /\ c1.forgot <= checkpoint'.forgot
  <2>1. checkpoint.forgot <= c1.forgot /\ c1.forgot <= c2.forgot
    BY <1>2 DEF AdmitsTo, Finishes
  <2>2. /\ c1.shrunk \in Int /\ c1.forgot \in Int /\ c2.shrunk \in Int /\ c2.forgot \in Int
        /\ checkpoint.shrunk \in Int /\ checkpoint.forgot \in Int
    BY <1>0, <1>2, CheckpointFields, TimesAreNumbers
  <2> QED BY <1>1, <1>2, <2>1, <2>2
<1>7. /\ Lost(checkpoint) \subseteq L /\ Lost(c1) \subseteq L
      /\ \A e \in OnRelay : at[e] <= checkpoint'.forgot => e \in L
      /\ \A e \in OnRelay : at[e] <= c1.forgot => e \in L
  <2>1. Lost(checkpoint) \subseteq L /\ Lost(c1) \subseteq L
    BY <1>0, <1>2, <1>6, LostGrows
  <2> QED BY <2>1 DEF Lost
<1> HIDE DEF L
<1>8. Spares(checkpoint, Taken, L) /\ Taken \subseteq OnRelay
  BY <1>7, SparesMore DEF OnceInv, Remembered
<1>9. Trails(p, checkpoint, U) /\ (~polled /\ U => InRange(pass, Fresh))
  BY <1>1, <1>3 DEF OnceInv, Resumes, Window, Trails
<1>10. ~polled /\ U =>
         \A e \in Taken \cup p.given : p.from.through < at[e] /\ at[e] <= p.upper => e \in p.read
  BY <1>1, <1>3, <1>5, <1>8, <1>9 DEF InRange, Beneath, Fresh
<1>11. NotBeyond(p, checkpoint, U, L)
  BY <1>0, <1>2, <1>7, <1>9, TrailsNotBeyond
<1>12. Spares(c1, Taken \cup p.given, L) /\ Trails(p, c1, U)
  <2>1. PICK last \in p.given : AdmitsTo(p, checkpoint, p.given, OverlapNow(link), last, c1)
    BY <1>2
  <2>2. ~polled /\ U => \A e \in Taken : p.from.through < at[e] /\ at[e] <= p.upper => e \in p.read
    BY <1>10
  <2> QED BY <1>0, <1>2, <1>7, <1>8, <1>11, <2>1, <2>2, AdmitSpares
<1>13. ASSUME p.left = {} PROVE Spares(c2, Taken \cup p.given, L)
  <2>1. NotBeyond(p, c1, U, L)
    BY <1>0, <1>2, <1>7, <1>12, TrailsNotBeyond
  <2>2. Taken \cup p.given \subseteq OnRelay
    BY <1>5, <1>8
  <2>3. \A e \in OnRelay : at[e] <= c2.forgot => e \in L
    BY <1>1, <1>7, <1>13
  <2> QED BY <1>0, <1>2, <1>10, <1>12, <2>1, <2>2, <2>3, FinishSpares
<1>14. /\ Taken' \subseteq Taken \cup B
       /\ \A e \in Taken' : e \in Taken \/ e \notin runner.seen
       /\ \A e \in Posts : taken'[e] = taken[e] \/ (taken'[e] = taken[e] + 1 /\ Undelivered(checkpoint, e))
  <2>1. \A e \in Posts : taken[e] \in Nat
    BY <1>0
  <2> QED BY <1>1, <2>1 DEF Taken
<1>15. OnRelay' = OnRelay /\ Uncovered(link') = U
  BY <1>1 DEF OnRelay, Uncovered
<1>16. \A e \in OnRelay \ L : taken'[e] <= 1
  <2> SUFFICES ASSUME NEW e \in OnRelay, e \notin L PROVE taken'[e] <= 1
    OBVIOUS
  <2>1. taken[e] <= 1 /\ e \in Posts /\ taken[e] \in Nat
    BY <1>0, <1>7 DEF OnceInv
  <2>2. Undelivered(checkpoint, e) => e \notin Taken
    BY <1>8 DEF Spares
  <2>3. e \notin Taken => taken[e] = 0
    BY <2>1 DEF Taken
  <2> QED BY <1>14, <2>1, <2>2, <2>3
<1>17. Spares(checkpoint', Taken', L)
  <2>1. Spares(checkpoint', Taken \cup p.given, L)
    BY <1>1, <1>12, <1>13
  <2> QED BY <1>5, <1>14, <2>1 DEF Spares
<1>18. Remembered'
  <2>1. /\ Taken \subseteq OnRelay /\ runner.backlog \cap Taken = {}
        /\ \A e \in Taken : e \in runner.seen \/ (e \notin fly /\ at[e] < runner.start)
        /\ ~polled /\ ~link.route => fly = {}
    BY <1>4 DEF OnceInv, Remembered
  <2>2. Taken' \subseteq OnRelay /\ runner'.backlog \cap Taken' = {}
    BY <1>0, <1>4, <1>5, <1>14, <2>1
  <2>3. \A e \in Taken' : e \in runner'.seen \/ (e \notin fly' /\ at[e] < runner'.start)
    BY <1>1, <1>4, <1>14, <2>1
  <2> QED BY <1>1, <1>4, <1>15, <2>1, <2>2, <2>3 DEF Remembered
<1>19. Resumes(pass', checkpoint', U, Fresh')
  <2>1. CASE p.left = {}
    <3>1. pass' = Begun(p, c2, link) /\ checkpoint' = c2
      BY <1>1, <2>1
    <3>2. p \in Passes
      BY <1>2 DEF Frame
    <3> QED BY <1>2, <3>1, <3>2, BegunResumes
  <2>2. CASE p.left # {}
    <3>1. pass' = p /\ checkpoint' = c1
      BY <1>1, <2>2
    <3>2. Fresh \ B \subseteq Fresh'
      BY <1>4, <1>14, <1>15 DEF Fresh
    <3>3. ASSUME InRange(pass, Fresh) PROVE InRange(p, Fresh')
      BY <1>1, <1>3, <1>5, <3>2, <3>3 DEF InRange, Beneath
    <3> QED BY <1>9, <1>12, <3>1, <3>3 DEF Resumes
  <2> QED BY <2>1, <2>2
<1> QED BY <1>1, <1>15, <1>16, <1>17, <1>18, <1>19, SameOnce DEF L

\* So do pages.
LEMMA OncePage ==
  ASSUME Shape, Shape', OnceInv, PageArrives
  PROVE  OnceInv'
<1> DEFINE s == checkpoint.shrunk
           U == Uncovered(link)
           L == Lost(checkpoint) \cup Lost(checkpoint')
<1>0. /\ at \in [Posts -> Maybe] /\ clock \in Times /\ base \in Int
      /\ checkpoint \in Checkpoints /\ checkpoint.heard \subseteq OnRelay /\ s \in Int
      /\ link \in Links /\ link.since <= clock /\ link.covered <= clock
      /\ pass \in Passes /\ pass.at <= clock /\ OnRelay \subseteq Posts
      /\ checkpoint' \in Checkpoints
  BY ShapeParts DEF Shape, CatchUpTypeOK
<1>1. /\ pass.stage = "reading"
      /\ UNCHANGED <<polled, clock, at, fly, on, alive, link, runner, taken, owed, lost, upsets>>
  BY PageCases
<1>2. /\ Frame(pass, base, s) /\ pass.given = {} /\ pass.left = {}
      /\ pass.pages > 0 => pass.read # {}
  BY <1>1 DEF Shape, WindowOK, Window
<1>3. Trails(pass, checkpoint, U) /\ (~polled /\ U => InRange(pass, Fresh))
  BY <1>1 DEF OnceInv, Resumes, Window
<1>4. /\ \A e \in OnRelay : at[e] \in Int
      /\ pass.upper \in Int /\ pass.from.through \in Int
  BY <1>0, <1>2, WindowTimes
<1>5. OnRelay' = OnRelay /\ Taken' = Taken /\ Fresh' = Fresh /\ Uncovered(link') = U
  BY <1>1 DEF OnRelay, Taken, Fresh, Uncovered
<1>6. /\ Taken \cap Fresh = {} /\ Taken \subseteq OnRelay /\ Remembered'
  BY <1>1, <1>5 DEF OnceInv, Remembered, Fresh
<1>7. ASSUME s <= checkpoint'.shrunk, checkpoint.forgot <= checkpoint'.forgot,
             Spares(checkpoint', Taken, L), Resumes(pass', checkpoint', U, Fresh)
      PROVE  OnceInv'
  <2>1. Lost(checkpoint) \subseteq Lost(checkpoint')
    BY <1>0, <1>7, LostGrows
  <2>2. L = Lost(checkpoint')
    BY <2>1
  <2> HIDE DEF L
  <2>3. \A e \in OnRelay \ Lost(checkpoint') : taken'[e] <= 1
    BY <1>1, <2>1 DEF OnceInv
  <2> QED BY <1>1, <1>5, <1>6, <1>7, <2>2, <2>3, SameOnce
<1>8. Spares(checkpoint, Taken, L) /\ NotBeyond(pass, checkpoint, U, L)
  <2>1. Lost(checkpoint) \subseteq L
    OBVIOUS
  <2> HIDE DEF L
  <2> QED BY <1>0, <1>2, <1>3, <2>1, SparesMore, TrailsNotBeyond DEF OnceInv
<1>9. \A e \in OnRelay : at[e] <= checkpoint'.forgot => e \in L
  BY DEF Lost
<1> HIDE DEF L
<1>10. CASE /\ Below(pass) = {} /\ base' = base
            /\ pass' = Windowed(EndedOf(pass), checkpoint, link)[1]
            /\ checkpoint' = Windowed(EndedOf(pass), checkpoint, link)[2]
  <2> DEFINE q == EndedOf(pass)
             r == Windowed(q, checkpoint, link)
  <2>1. /\ Frame(q, base, s) /\ q.at = pass.at /\ q.from = pass.from /\ q.upper = pass.upper
        /\ q.read = pass.read /\ q.given = {} /\ q.left = PendingOf(pass, pass.read)
        /\ q.pages = pass.pages
    BY <1>0, <1>2, EndedFrame
  <2>2. pass' = r[1] /\ checkpoint' = r[2]
    BY <1>10
  <2> HIDE DEF q
  <2>3. s <= r[2].shrunk
    BY <1>0, <1>2, <2>1, WindowedOK
  <2>4. NotBeyond(q, checkpoint, U, L)
    BY <1>2, <1>8, <2>1 DEF NotBeyond
  <2>5. ~polled /\ U =>
          \A e \in OnRelay : q.from.through < at[e] /\ at[e] <= q.upper => e \in q.read \/ e \in Fresh
    <3>1. \A e \in OnRelay :
            pass.from.through < at[e] /\ at[e] <= pass.upper => ~Beneath(pass, e)
      BY <1>10 DEF Below, Beneath
    <3> QED BY <1>3, <2>1, <3>1 DEF InRange
  <2>6. \A e \in OnRelay : at[e] <= Windowed(q, checkpoint, link)[2].forgot => e \in L
    BY <1>9, <2>2
  <2>7. /\ Spares(r[2], Taken, L) /\ Resumes(r[1], r[2], U, Fresh)
        /\ checkpoint.forgot <= r[2].forgot
    BY <1>0, <1>6, <1>8, <2>1, <2>4, <2>5, <2>6, WindowedSpares
  <2> HIDE DEF r
  <2> QED BY <1>7, <2>2, <2>3, <2>7
<1>11. CASE /\ Below(pass) # {} /\ pass.pages > 0 /\ base' = Larger(base, ReachedBy(pass))
            /\ pass' = Windowed(CutOf(pass), checkpoint, link)[1]
            /\ checkpoint' = Windowed(CutOf(pass), checkpoint, link)[2]
  <2> DEFINE q == CutOf(pass)
             r == Windowed(q, checkpoint, link)
             t == ReachedBy(pass)
  <2>1. /\ t \in Int /\ t <= pass.upper /\ pass.from.through < t
        /\ \A e \in pass.read : t <= at[e]
        /\ \E e \in pass.read : t = at[e]
    BY <1>0, <1>2, <1>11, ReachedIs
  <2>2. base <= base' /\ t <= base' /\ base' \in Int
    BY <1>0, <1>11, <2>1, TimesAreNumbers
  <2>3. /\ Frame(q, base', s) /\ q.at = pass.at /\ q.from.through = t /\ q.from.after = NoPost
        /\ q.upper = pass.upper /\ q.given = {}
        /\ q.read = WholeOf(pass) /\ q.left = PendingOf(pass, WholeOf(pass))
    BY <1>0, <1>2, <1>11, <2>2, CutFrame
  <2>4. \A e \in pass.read : e \in WholeOf(pass) \/ at[e] <= t
    BY <1>2, <1>4, <2>1 DEF WholeOf, Frame
  <2>5. pass' = r[1] /\ checkpoint' = r[2]
    BY <1>11
  <2> HIDE DEF q, t
  <2>6. q.left = {} \/ q.read # {}
    BY <2>3 DEF Frame
  <2>7. s <= r[2].shrunk
    BY <1>0, <2>2, <2>3, <2>6, WindowedOK
  <2>8. NotBeyond(q, checkpoint, U, L)
    <3> SUFFICES ASSUME NEW e \in OnRelay, ~Past(pass.from, e)
                 PROVE  ~Past(q.from, e)
      BY <1>2, <1>8 DEF NotBeyond
    <3>1. \/ at[e] <= pass.from.through
          \/ at[e] = at[pass.from.after] /\ pass.from.after # NoPost
      BY <1>0, <1>2, BegunPast
    <3>2. pass.from.after # NoPost => at[pass.from.after] = pass.from.through + 1
      BY <1>2 DEF Frame
    <3>3. at[e] <= t
      BY <1>4, <2>1, <3>1, <3>2
    <3> QED BY <1>4, <2>1, <2>3, <3>3 DEF Past
  <2>9. ~polled /\ U =>
          \A e \in OnRelay : q.from.through < at[e] /\ at[e] <= q.upper => e \in q.read \/ e \in Fresh
    <3> SUFFICES ASSUME ~polled, U, NEW e \in OnRelay, t < at[e], at[e] <= pass.upper
                 PROVE  e \in q.read \/ e \in Fresh
      BY <2>3
    <3>1. ~Beneath(pass, e)
      BY <1>4, <2>1 DEF Beneath, Newer
    <3>2. pass.from.through < at[e]
      BY <1>4, <2>1
    <3>3. e \in pass.read => e \in q.read
      BY <1>4, <2>1, <2>3, <2>4
    <3> QED BY <1>3, <3>1, <3>2, <3>3 DEF InRange
  <2>10. \A e \in OnRelay : at[e] <= Windowed(q, checkpoint, link)[2].forgot => e \in L
    BY <1>9, <2>5
  <2>11. /\ Spares(r[2], Taken, L) /\ Resumes(r[1], r[2], U, Fresh)
         /\ checkpoint.forgot <= r[2].forgot
    BY <1>0, <1>6, <1>8, <2>2, <2>3, <2>8, <2>9, <2>10, WindowedSpares
  <2> HIDE DEF r
  <2> QED BY <1>7, <2>5, <2>7, <2>11
<1>12. CASE /\ Below(pass) # {} /\ pass.pages < MaxPages
            /\ pass' = [pass EXCEPT !.read = @ \cup PageOf(pass), !.pages = @ + 1]
            /\ checkpoint' = checkpoint /\ base' = base
  <2>1. s <= checkpoint'.shrunk /\ checkpoint.forgot <= checkpoint'.forgot
    BY <1>0, <1>12, CheckpointFields, TimesAreNumbers
  <2>2. /\ pass'.stage = "reading" /\ pass'.from = pass.from /\ pass'.upper = pass.upper
        /\ pass'.read = pass.read \cup PageOf(pass) /\ pass'.given = pass.given
    BY <1>0, <1>1, <1>12 DEF Passes
  <2>3. \A e \in Below(pass) \ PageOf(pass), d \in PageOf(pass) : Newer(d, e)
    <3> DEFINE S == Below(pass)
    <3>1. S \in SUBSET Posts
      BY <1>0 DEF Below
    <3>2. PageOf(pass) = {e \in S : Cardinality({d \in S : Newer(d, e)}) < PageSize}
      BY DEF PageOf
    <3> HIDE DEF S
    <3>3. \A e \in S \ PageOf(pass), d \in PageOf(pass) : Newer(d, e)
      BY <1>0, <3>1, <3>2, PageFirst
    <3> QED BY <3>3 DEF S
  <2>4. ASSUME InRange(pass, Fresh) PROVE InRange(pass', Fresh)
    <3> SUFFICES ASSUME NEW e \in OnRelay, pass.from.through < at[e], at[e] <= pass.upper
                 PROVE  \/ e \in pass'.read \/ Beneath(pass', e) \/ e \in Fresh
                        \/ polled /\ at[e] > pass.upper - Overlap
      BY <2>2 DEF InRange
    <3>1. Beneath(pass, e) => e \in pass'.read \/ Beneath(pass', e)
      <4>1. Beneath(pass, e) => e \in Below(pass)
        BY DEF Beneath, Below
      <4> QED BY <2>2, <2>3, <4>1 DEF Beneath
    <3> QED BY <2>2, <2>4, <3>1 DEF InRange
  <2>5. Resumes(pass', checkpoint', U, Fresh)
    BY <1>3, <1>12, <2>2, <2>4 DEF Resumes, Trails
  <2> QED BY <1>7, <1>8, <1>12, <2>1, <2>5
<1> QED BY <1>10, <1>11, <1>12, PageCases

\* Nothing was given to begin with.
LEMMA OnceBegins == CatchUpInit => OnceInv
<1> SUFFICES ASSUME CatchUpInit PROVE OnceInv
  OBVIOUS
<1>1. /\ OnRelay = {} /\ Taken = {} /\ runner.backlog = {} /\ fly = {} /\ ~Window(pass)
  BY PassFields DEF CatchUpInit, OnRelay, Taken
<1>2. Spares(checkpoint, Taken, Lost(checkpoint)) /\ Remembered
  BY <1>1 DEF Spares, Remembered
<1>3. Resumes(pass, checkpoint, Uncovered(link), Fresh)
  BY <1>1 DEF Resumes
<1> QED BY <1>1, <1>2, <1>3 DEF OnceInv

\* Every step keeps it, if routes stay live.
LEMMA OnceSteps ==
  ASSUME Shape, OnceInv, [CatchUpNext]_catchUp, [StaysLive]_catchUp
  PROVE  OnceInv'
<1>1. Shape'
  BY ShapeNext
<1>2. CASE UNCHANGED catchUp
  BY <1>2 DEF catchUp, OnceInv, Spares, Lost, Remembered, Resumes, Trails, Uncovered, Fresh, Taken,
             InRange, Beneath, Newer, Window, Undelivered, Before, OnRelay
<1>3. SUFFICES ASSUME CatchUpNext, StaysLive PROVE OnceInv'
  BY <1>2
<1>4. CASE TimePasses \/ PageFails
  BY <1>1, <1>4, OnceTime
<1>5. CASE \/ LinkMade \/ LinkDrops \/ RouteLive \/ RouteDrops
           \/ Edits \/ \E due \in BOOLEAN : Ticks(due)
  BY <1>1, <1>3, <1>5, OnceLink
<1>6. CASE \E e \in Posts, t \in 0..MaxClock : Stores(e, t)
  BY <1>1, <1>6, OnceStores DEF Times
<1>7. CASE PageArrives
  BY <1>1, <1>7, OncePage
<1>8. CASE \E n \in 1..BatchSize : Gives(n)
  BY <1>1, <1>8, OnceGives
<1>9. CASE \E e \in Posts : Hears(e) \/ Replays(e) \/ Admits(e)
  BY <1>1, <1>9, OnceHears
<1>10. CASE ProgramEnds \/ ProgramStarts
  BY <1>1, <1>10, OnceEnds
<1> QED BY <1>3, <1>4, <1>5, <1>6, <1>7, <1>8, <1>9, <1>10 DEF CatchUpNext

\* No event wakes the agent twice (GivenOnce), as long as a covered stream's route does not
\* drop alone while a window is read or given: whatever is heard live, replayed and read in
\* whatever order, however the connection drops and the program ends. Such a drop makes
\* the window finish for another overlap than it was given for, and the run given_twice
\* shows an event given twice after one.
THEOREM EventsAreGivenOnce == CatchUpSpec /\ [][StaysLive]_catchUp => []GivenOnce
<1>1. CatchUpInit => Shape /\ OnceInv
  BY ShapeInit, OnceBegins
<1>2. (Shape /\ OnceInv) /\ [CatchUpNext]_catchUp /\ [StaysLive]_catchUp => (Shape /\ OnceInv)'
  BY ShapeNext, OnceSteps
<1>3. Shape /\ OnceInv => GivenOnce
  <2> SUFFICES ASSUME Shape, OnceInv, NEW e \in OnRelay,
                      at[e] > Larger(checkpoint.shrunk, checkpoint.forgot)
               PROVE  taken[e] <= 1
    BY DEF GivenOnce
  <2>1. /\ at[e] \in Int /\ checkpoint.forgot \in Int /\ checkpoint.shrunk \in Int
        /\ checkpoint.forgot <= Larger(checkpoint.shrunk, checkpoint.forgot)
        /\ checkpoint.shrunk <= Larger(checkpoint.shrunk, checkpoint.forgot)
        /\ Larger(checkpoint.shrunk, checkpoint.forgot) \in Int
    BY ShapeParts, PostsOrdered, CheckpointFields, TimesAreNumbers
  <2>2. e \notin Lost(checkpoint)
    BY <2>1 DEF Lost
  <2> QED BY <2>2 DEF OnceInv
<1> QED BY <1>1, <1>2, <1>3, PTL DEF CatchUpSpec
=============================================================================
