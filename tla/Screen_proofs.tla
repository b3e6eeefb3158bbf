----------------------------- MODULE Screen_proofs -----------------------------
(***************************************************************************)
(* Proofs about Screen and the operators of TileStream: for screens of any *)
(* sizes, any pixels, any set of viewers and any capacities of the cache,  *)
(* the frames channel and the queue of requests, however an update is cut  *)
(* into regions, whichever updates are lost and in whatever order a page   *)
(* decodes its tiles.                                                       *)
(*                                                                         *)
(* What a fold computes is shown by induction on the part of the sequence  *)
(* that is folded. Induction is had from the least element of a set of     *)
(* naturals, and a fold is related to its run: the function h with the     *)
(* base at 0 and, at n, the step applied to h[n-1] and the n-th element.   *)
(***************************************************************************)
EXTENDS Screen, WellFoundedInduction, FiniteSetTheorems, TLAPS

(* The region i is the last of the first n that has row r; none of them has. *)
LastAt(regions, n, r, i) ==
  i \in 1..n /\ r \in DOMAIN regions[i] /\ \A j \in i+1..n : r \notin DOMAIN regions[j]
NoneAt(regions, n, r) == \A i \in 1..n : r \notin DOMAIN regions[i]

(* What regions show of a row, drawn in order, is what the picture has.      *)
Depicts(regions, picture) ==
  \A r \in DOMAIN picture :
    \/ NoneAt(regions, Len(regions), r)
    \/ \E i \in 1..Len(regions) : LastAt(regions, Len(regions), r, i) /\ regions[i][r] = picture[r]

CacheInv ==
  /\ DOMAIN told = 1..cache.height
  /\ cache.regions # <<>> => cache.height \in Heights
  /\ Depicts(cache.regions, told)

(* Once the updates p are drawn on the canvas c, it shows the picture, save  *)
(* what of the rows lost no update of p has brought again.                   *)
Brings(p, r) == \E i \in 1..Len(p) : r \in RowsOf(p[i])
Follows(c, p, picture, lost) ==
  \A r \in DOMAIN ShownAll(c, p) :
    \/ r \in lost /\ ~ Brings(p, r)
    \/ ShownAll(c, p)[r] = Blank
    \/ r \in DOMAIN picture /\ ShownAll(c, p)[r] = picture[r]

(* Updates that lead to the picture: one of another size than the one before *)
(* it is whole, the last has the size of the picture, and none of them draws *)
(* what another has replaced.                                                *)
Whole(u) == 1..u.height \subseteq RowsOf(u)
SameSize(a, b) == a.height = b.height \/ Whole(b)
LeadTo(p, picture) ==
  /\ \A i \in 2..Len(p) : SameSize(p[i-1], p[i])
  /\ p # <<>> => DOMAIN picture = 1..p[Len(p)].height
  /\ Follows(NoFrame, p, picture, {})

PendingInv == LeadTo(ingest, told) /\ \A v \in Viewer : LeadTo(Pending(v), told)

(* Who is not served holds nothing, or nothing the relay answers for.        *)
Outside ==
  \A v \in Viewer :
    /\ stage[v] = "off" => inbox[v] = <<>>
    /\ stage[v] # "on" => (canvas[v] = NoFrame /\ decoding[v] = <<>>) \/ missed[v] = Rows

FollowsInv ==
  \A v \in Viewer :
    stage[v] = "on" => Follows(Arrived(v), Pending(v), told, missed[v] \cup overdrawn[v])

-----------------------------------------------------------------------------
(* Induction. The library's least-element theorem takes sets, so what is to  *)
(* be shown by induction is stated as a set of naturals.                     *)
LEMMA LeastElement ==
  ASSUME NEW T, T \subseteq Nat, T # {}
  PROVE  \E x \in T : \A y \in T : x <= y
<1>1. \E x \in T : \A y \in T : ~ (<<y, x>> \in OpToRel(<, Nat))
  BY NatLessThanWellFounded, WFMin
<1>2. PICK x \in T : \A y \in T : ~ (y < x)
  BY <1>1 DEF OpToRel
<1>3. \A y \in T : x <= y
  BY <1>2
<1>4. QED
  BY <1>3

(* A set of naturals that has 0, and each number whose predecessor it has.  *)
LEMMA UpTo ==
  ASSUME NEW m \in Nat, NEW S, 0 \in S, \A n \in 1..m : n - 1 \in S => n \in S
  PROVE  0..m \subseteq S
<1> DEFINE T == {n \in 0..m : n \notin S}
<1>1. SUFFICES ASSUME T # {} PROVE FALSE
  OBVIOUS
<1>2. T \subseteq Nat
  OBVIOUS
<1>3. PICK x \in T : \A y \in T : x <= y
  BY <1>1, <1>2, LeastElement
<1>4. x \in 1..m /\ x - 1 \in 0..m
  BY <1>3
<1>5. x - 1 \in S
  BY <1>3, <1>4
<1>6. QED
  BY <1>3, <1>4, <1>5

(* A set of positions has a greatest member, the one Max finds.             *)
LEMMA Greatest ==
  ASSUME NEW m \in Nat, NEW S \in SUBSET (1..m), S # {}
  PROVE  /\ Max(S) \in S
         /\ \A x \in S : x <= Max(S)
<1> DEFINE T == {m - x : x \in S}
<1>0. \A x \in S : x \in Nat /\ m - x \in Nat
  OBVIOUS
<1>1. T \subseteq Nat /\ T # {}
  BY <1>0
<1>2. PICK d \in T : \A y \in T : d <= y
  BY <1>1, LeastElement
<1>3. PICK x \in S : d = m - x
  BY <1>2
<1>4. \A y \in S : m - x <= m - y
  BY <1>2, <1>3
<1>5. \A y \in S : x >= y
  BY <1>4
<1>6. \E z \in S : \A y \in S : z >= y
  BY <1>5
<1>7. Max(S) \in S /\ \A y \in S : Max(S) >= y
  BY <1>6 DEF Max
<1>8. QED
  BY <1>7

(* A set of naturals has a least member, the one Min finds.                 *)
LEMMA Smallest ==
  ASSUME NEW S \in SUBSET Nat, S # {}
  PROVE  /\ Min(S) \in S
         /\ \A x \in S : Min(S) <= x
<1>1. \E z \in S : \A y \in S : z =< y
  BY LeastElement
<1>2. QED
  BY <1>1 DEF Min

(* The greatest of 1..m is m, and 1..m-1 is left without it.                *)
LEMMA GreatestOfInterval ==
  ASSUME NEW m \in Nat \ {0}
  PROVE  Max(1..m) = m /\ (1..m) \ {m} = 1..m-1
<1>1. m \in 1..m /\ 1..m \in SUBSET (1..m) /\ m \in Nat
  OBVIOUS
<1>2. Max(1..m) \in 1..m /\ m <= Max(1..m)
  BY <1>1, Greatest
<1>3. QED
  BY <1>2

(* The same for the positions up to some n of m.                            *)
LEMMA Within ==
  ASSUME NEW m \in Nat, NEW n \in 1..m
  PROVE  /\ 1..n \in SUBSET (1..m) /\ 1..n # {}
         /\ n - 1 \in 0..m /\ n \in 0..m
         /\ Max(1..n) = n /\ (1..n) \ {n} = 1..n-1
<1>1. n \in Nat \ {0}
  OBVIOUS
<1>2. QED
  BY <1>1, GreatestOfInterval

(* A fold is defined: the recursion that FoldLeft stands for has a solution. *)
Folds(g, base, m, step) ==
  \A S \in SUBSET (1..m) :
    g[S] = IF S = {} THEN base ELSE step[<<Max(S), g[S \ {Max(S)}]>>]

(* It has: adding one position at a time.                                   *)
LEMMA FoldIsDefined ==
  ASSUME NEW V, NEW base \in V, NEW m \in Nat, NEW step \in [(1..m) \X V -> V]
  PROVE  \E g \in [SUBSET (1..m) -> V] : Folds(g, base, m, step)
<1> DEFINE Solves(g, n) == Folds(g, base, n, step)
           Solved == {n \in 0..m : \E g \in [SUBSET (1..n) -> V] : Solves(g, n)}
<1>1. 0 \in Solved
  <2>1. 1..0 = {} /\ SUBSET {} = {{}}
    OBVIOUS
  <2> DEFINE g == [S \in SUBSET (1..0) |-> base]
  <2>2. g \in [SUBSET (1..0) -> V] /\ Solves(g, 0)
    BY <2>1 DEF Folds
  <2>3. 0 \in 0..m
    OBVIOUS
  <2> HIDE DEF Solves, g
  <2>4. QED
    BY <2>2, <2>3
<1>2. ASSUME NEW n \in 1..m, n - 1 \in Solved
      PROVE  n \in Solved
  <2>1. PICK g \in [SUBSET (1..n-1) -> V] : Solves(g, n - 1)
    BY <1>2
  <2> DEFINE h == [S \in SUBSET (1..n) |->
                     IF n \in S THEN step[<<n, g[S \ {n}]>>] ELSE g[S]]
  <2>2. ASSUME NEW S \in SUBSET (1..n), n \in S
        PROVE  /\ S # {} /\ Max(S) = n /\ S \ {n} \in SUBSET (1..n-1)
               /\ h[S] \in V /\ h[S] = step[<<Max(S), h[S \ {Max(S)}]>>]
    <3>1. Max(S) = n
      <4>1. n \in Nat
        OBVIOUS
      <4>2. Max(S) \in S /\ n <= Max(S)
        BY <2>2, <4>1, Greatest
      <4>3. Max(S) \in 1..n
        BY <4>2
      <4>4. QED
        BY <4>2, <4>3
    <3>2. S \ {n} \in SUBSET (1..n-1)
      OBVIOUS
    <3>3. h[S \ {n}] = g[S \ {n}] /\ g[S \ {n}] \in V
      BY <3>2
    <3>4. <<n, g[S \ {n}]>> \in (1..m) \X V
      BY <3>3
    <3>5. h[S] = step[<<n, g[S \ {n}]>>]
      BY <2>2
    <3>6. QED
      BY <2>2, <3>1, <3>2, <3>3, <3>4, <3>5
  <2>3. ASSUME NEW S \in SUBSET (1..n), n \notin S
        PROVE  /\ h[S] \in V
               /\ S # {} => h[S] = step[<<Max(S), h[S \ {Max(S)}]>>]
               /\ S = {} => h[S] = base
    <3>0. \A x \in S : x \in 1..n /\ x # n
      BY <2>3
    <3>1. S \in SUBSET (1..n-1) /\ h[S] = g[S]
      BY <2>3, <3>0
    <3>2. S \ {Max(S)} \in SUBSET (1..n-1) /\ S \ {Max(S)} \in SUBSET (1..n) /\ n \notin S \ {Max(S)}
      BY <2>3, <3>1
    <3>3. h[S \ {Max(S)}] = g[S \ {Max(S)}]
      BY <3>2
    <3>4. g[S] = IF S = {} THEN base ELSE step[<<Max(S), g[S \ {Max(S)}]>>]
      BY <2>1, <3>1 DEF Folds
    <3>5. QED
      BY <3>1, <3>3, <3>4
  <2>4. h \in [SUBSET (1..n) -> V]
    BY <2>2, <2>3
  <2>5. \A S \in SUBSET (1..n) : h[S] = IF S = {} THEN base ELSE step[<<Max(S), h[S \ {Max(S)}]>>]
    <3>1. SUFFICES ASSUME NEW S \in SUBSET (1..n)
                   PROVE  h[S] = IF S = {} THEN base ELSE step[<<Max(S), h[S \ {Max(S)}]>>]
      OBVIOUS
    <3>2. CASE n \in S
      BY <2>2, <3>2
    <3>3. CASE n \notin S
      BY <2>3, <3>3
    <3>4. QED
      BY <3>2, <3>3
  <2>6. Solves(h, n)
    BY <2>4, <2>5 DEF Folds
  <2> HIDE DEF Solves, h
  <2>7. n \in 0..m /\ \E f \in [SUBSET (1..n) -> V] : Solves(f, n)
    BY <2>4, <2>6
  <2>8. QED
    BY <2>7
<1> HIDE DEF Solves, Solved
<1>3. 0..m \subseteq Solved
  BY <1>1, <1>2, UpTo
<1>4. m \in Solved
  BY <1>3
<1>5. \E g \in [SUBSET (1..m) -> V] : Solves(g, m)
  BY <1>4 DEF Solved
<1>6. QED
  BY <1>5 DEF Solves

(* A region carries pixels, never a blank.                                  *)
LEMMA RegionIsPart ==
  ASSUME NEW g \in Region
  PROVE  \A r \in DOMAIN g : g[r] \in Pixel
<1>1. PICK rows \in Runs : g \in [rows -> Pixel]
  BY DEF Region
<1>2. QED
  BY <1>1

(* An update draws on rows of some screen.                                  *)
LEMMA RowsAreRows ==
  ASSUME NEW u \in Update
  PROVE  RowsOf(u) \subseteq Rows
<1>1. SUFFICES ASSUME NEW i \in DOMAIN u.regions PROVE DOMAIN u.regions[i] \subseteq Rows
  BY DEF RowsOf, RowsIn
<1>2. u.regions \in Seq(Region)
  BY DEF Update
<1>3. u.regions[i] \in Region
  BY <1>2
<1>4. PICK rows \in Runs : u.regions[i] \in [rows -> Pixel]
  BY <1>3 DEF Region
<1>5. QED
  BY <1>4 DEF Runs

(* FoldLeft(Painted, ...) is a run: a picture, and the picture after each   *)
(* region.                                                                  *)
LEMMA PaintRun ==
  ASSUME NEW D, NEW p \in [D -> Pixel \cup {Blank}], NEW s \in Seq(Region)
  PROVE  \E h : /\ h[0] = p
                /\ \A n \in 1..Len(s) : h[n] = Painted(h[n-1], s[n])
                /\ FoldLeft(Painted, p, s) = h[Len(s)]
<1> DEFINE m == Len(s)
           V == [D -> Pixel \cup {Blank}]
           step == [z \in (1..m) \X V |-> Painted(z[2], s[z[1]])]
<1>1. m \in Nat /\ DOMAIN s = 1..m /\ p \in V
  OBVIOUS
<1>2. \A n \in 1..m : \A x \in V : Painted(x, s[n]) \in V
  BY RegionIsPart DEF Painted
<1>3. step \in [(1..m) \X V -> V]
  BY <1>2
<1>4. PICK g \in [SUBSET (1..m) -> V] : Folds(g, p, m, step)
  <2> HIDE DEF m, V, step
  <2> QED
    BY <1>1, <1>3, FoldIsDefined
<1>5. \A S \in SUBSET (1..m) :
        g[S] = IF S = {} THEN p ELSE Painted(g[S \ {Max(S)}], s[Max(S)])
  <2>1. SUFFICES ASSUME NEW S \in SUBSET (1..m), S # {}
                 PROVE  g[S] = Painted(g[S \ {Max(S)}], s[Max(S)])
    BY <1>4 DEF Folds
  <2>2. Max(S) \in 1..m /\ g[S \ {Max(S)}] \in V
    BY <1>1, <1>4, <2>1, Greatest
  <2>3. g[S] = step[<<Max(S), g[S \ {Max(S)}]>>]
    BY <1>4, <2>1 DEF Folds
  <2>4. QED
    BY <2>2, <2>3
<1> DEFINE Solves(f) == f = [S \in SUBSET DOMAIN s |->
                              IF S = {} THEN p ELSE Painted(f[S \ {Max(S)}], s[Max(S)])]
           iter == CHOOSE f : Solves(f)
<1>6. Solves(g)
  BY <1>1, <1>4, <1>5
<1>7. Solves(iter)
  <2> HIDE DEF Solves
  <2> QED
    BY <1>6
<1>8. FoldLeft(Painted, p, s) = iter[DOMAIN s]
  BY Zenon DEF FoldLeft, MapThenFoldSet
<1> HIDE DEF iter
<1> DEFINE h == [n \in 0..m |-> iter[1..n]]
<1>9. \A S \in SUBSET (1..m) :
        iter[S] = IF S = {} THEN p ELSE Painted(iter[S \ {Max(S)}], s[Max(S)])
  BY <1>1, <1>7
<1>10. h[0] = p
  <2>1. 1..0 = {}
    OBVIOUS
  <2>2. h[0] = iter[1..0]
    BY <1>1
  <2>3. QED
    BY <1>9, <2>1, <2>2
<1>11. ASSUME NEW n \in 1..m
       PROVE  h[n] = Painted(h[n-1], s[n])
  <2>1. /\ Max(1..n) = n /\ (1..n) \ {n} = 1..n-1
        /\ 1..n \in SUBSET (1..m) /\ 1..n # {} /\ n - 1 \in 0..m /\ n \in 0..m
    BY <1>1, Within
  <2>3. h[n] = iter[1..n] /\ h[n-1] = iter[1..n-1]
    BY <2>1
  <2>4. QED
    BY <1>9, <2>1, <2>3
<1>12. h[m] = iter[DOMAIN s]
  BY <1>1
<1> HIDE DEF h
<1>13. QED
  BY <1>8, <1>10, <1>11, <1>12

(* A screen has at least one row, and its rows are rows.                    *)
LEMMA Heighted ==
  ASSUME NEW n \in Heights
  PROVE  n \in Nat \ {0} /\ 1..n # {} /\ 1..n \subseteq Rows
BY SizeAssumption DEF Rows

(* Regions drawn in order: each row shows the last region that has it, or   *)
(* what was there.                                                          *)
LEMMA PaintedAll ==
  ASSUME NEW D, NEW p \in [D -> Pixel \cup {Blank}], NEW s \in Seq(Region)
  PROVE  /\ FoldLeft(Painted, p, s) \in [D -> Pixel \cup {Blank}]
         /\ \A r \in D :
              \/ NoneAt(s, Len(s), r) /\ FoldLeft(Painted, p, s)[r] = p[r]
              \/ \E i \in 1..Len(s) : LastAt(s, Len(s), r, i) /\ FoldLeft(Painted, p, s)[r] = s[i][r]
<1>1. PICK h : /\ h[0] = p
               /\ \A n \in 1..Len(s) : h[n] = Painted(h[n-1], s[n])
               /\ FoldLeft(Painted, p, s) = h[Len(s)]
  BY PaintRun
<1> DEFINE Right(n) ==
      /\ h[n] \in [D -> Pixel \cup {Blank}]
      /\ \A r \in D : \/ NoneAt(s, n, r) /\ h[n][r] = p[r]
                      \/ \E i \in 1..n : LastAt(s, n, r, i) /\ h[n][r] = s[i][r]
           Good == {n \in 0..Len(s) : Right(n)}
<1>2. Right(0)
  BY <1>1 DEF NoneAt
<1>3. ASSUME NEW n \in 1..Len(s), n - 1 \in Good
      PROVE  n \in Good
  <2>1. Right(n - 1) /\ s[n] \in Region /\ n \in Nat /\ n - 1 \in Nat /\ n \in 0..Len(s)
    BY <1>3
  <2>2. h[n] = Painted(h[n-1], s[n])
    BY <1>1
  <2>3. h[n] \in [D -> Pixel \cup {Blank}]
    BY <2>1, <2>2, RegionIsPart DEF Painted
  <2>4. ASSUME NEW r \in D
        PROVE  \/ NoneAt(s, n, r) /\ h[n][r] = p[r]
               \/ \E i \in 1..n : LastAt(s, n, r, i) /\ h[n][r] = s[i][r]
    <3>1. CASE r \in DOMAIN s[n]
      <4>1. h[n][r] = s[n][r]
        BY <2>1, <2>2, <3>1 DEF Painted
      <4>2. LastAt(s, n, r, n) /\ n \in 1..n
        BY <2>1, <3>1 DEF LastAt
      <4>3. QED
        BY <4>1, <4>2
    <3>2. CASE r \notin DOMAIN s[n]
      <4>1. h[n][r] = h[n-1][r]
        BY <2>1, <2>2, <3>2 DEF Painted
      <4>2. NoneAt(s, n - 1, r) => NoneAt(s, n, r)
        BY <2>1, <3>2 DEF NoneAt
      <4>3. \A i \in 1..n-1 : LastAt(s, n - 1, r, i) => LastAt(s, n, r, i) /\ i \in 1..n
        BY <2>1, <3>2 DEF LastAt
      <4>4. QED
        BY <2>1, <4>1, <4>2, <4>3
    <3>3. QED
      BY <3>1, <3>2
  <2>5. QED
    BY <2>1, <2>3, <2>4
<1> HIDE DEF Right
<1>4. Len(s) \in Nat /\ 0 \in Good
  BY <1>2
<1> HIDE DEF Good
<1>5. 0..Len(s) \subseteq Good
  BY <1>3, <1>4, UpTo
<1>6. Right(Len(s))
  BY <1>4, <1>5 DEF Good
<1>7. QED
  BY <1>1, <1>6 DEF Right

(* Resizing leaves a canvas of that size alone and blanks any other.        *)
LEMMA FittedType ==
  ASSUME NEW c \in Canvas, NEW n \in Heights
  PROVE  /\ Fitted(c, n) \in [1..n -> Pixel \cup {Blank}]
         /\ DOMAIN c = 1..n => Fitted(c, n) = c
         /\ DOMAIN c # 1..n => \A r \in 1..n : Fitted(c, n)[r] = Blank
<1>1. DOMAIN c = 1..n => c \in [1..n -> Pixel \cup {Blank}]
  <2>1. SUFFICES ASSUME DOMAIN c = 1..n PROVE c \in [1..n -> Pixel \cup {Blank}]
    OBVIOUS
  <2>2. c # NoFrame
    BY <2>1, Heighted DEF NoFrame
  <2>3. PICK k \in Heights : c \in [1..k -> Pixel \cup {Blank}]
    BY <2>2 DEF Canvas
  <2>4. QED
    BY <2>1, <2>3
<1>2. QED
  BY <1>1 DEF Fitted

(* An update drawn: each row it covers shows the last region that has it,   *)
(* and a row it does not cover shows what was there, unless the canvas was  *)
(* resized.                                                                 *)
LEMMA ShownRows ==
  ASSUME NEW c \in Canvas, NEW u \in Update
  PROVE  /\ Shown(c, u) \in [1..u.height -> Pixel \cup {Blank}]
         /\ \A r \in 1..u.height :
              \/ /\ NoneAt(u.regions, Len(u.regions), r) /\ r \notin RowsOf(u)
                 /\ Shown(c, u)[r] = Fitted(c, u.height)[r]
              \/ /\ r \in RowsOf(u)
                 /\ \E i \in 1..Len(u.regions) : /\ LastAt(u.regions, Len(u.regions), r, i)
                                                 /\ Shown(c, u)[r] = u.regions[i][r]
<1>1. u.height \in Heights /\ u.regions \in Seq(Region)
  BY DEF Update
<1>2. Fitted(c, u.height) \in [1..u.height -> Pixel \cup {Blank}]
  BY <1>1, FittedType
<1>3. \A r : r \in RowsOf(u) <=> \E i \in 1..Len(u.regions) : r \in DOMAIN u.regions[i]
  BY <1>1 DEF RowsOf, RowsIn
<1> DEFINE D == 1..u.height
           p == Fitted(c, u.height)
<1>4. Shown(c, u) = FoldLeft(Painted, p, u.regions)
  BY DEF Shown
<1>5. /\ Shown(c, u) \in [D -> Pixel \cup {Blank}]
      /\ \A r \in D :
           \/ NoneAt(u.regions, Len(u.regions), r) /\ Shown(c, u)[r] = p[r]
           \/ \E i \in 1..Len(u.regions) : /\ LastAt(u.regions, Len(u.regions), r, i)
                                          /\ Shown(c, u)[r] = u.regions[i][r]
  <2> HIDE DEF D, p
  <2>1. p \in [D -> Pixel \cup {Blank}]
    BY <1>2 DEF D, p
  <2> QED
    BY <1>1, <1>4, <2>1, PaintedAll
<1>6. \A r : NoneAt(u.regions, Len(u.regions), r) => r \notin RowsOf(u)
  BY <1>3 DEF NoneAt
<1>7. \A r, i : LastAt(u.regions, Len(u.regions), r, i) => r \in RowsOf(u)
  BY <1>3 DEF LastAt
<1>8. QED
  BY <1>5, <1>6, <1>7

(* An update leaves a canvas of its own size.                               *)
LEMMA ShownType ==
  \A c \in Canvas, u \in Update :
    /\ Shown(c, u) \in Canvas
    /\ DOMAIN Shown(c, u) = 1..u.height
<1>1. SUFFICES ASSUME NEW c \in Canvas, NEW u \in Update
               PROVE  Shown(c, u) \in Canvas /\ DOMAIN Shown(c, u) = 1..u.height
  OBVIOUS
<1>2. u.height \in Heights
  BY DEF Update
<1>3. Shown(c, u) \in [1..u.height -> Pixel \cup {Blank}]
  BY ShownRows
<1>4. QED
  BY <1>2, <1>3 DEF Canvas

(* Uncovered(s, region) is a run: what is kept of the first n regions.      *)
LEMMA UncoveredRun ==
  ASSUME NEW s \in Seq(Region), NEW region
  PROVE  \E h : /\ h[0] = <<>>
                /\ \A n \in 1..Len(s) : h[n] = Retained(region, h[n-1], s[n])
                /\ Uncovered(s, region) = h[Len(s)]
<1> DEFINE m == Len(s)
           V == Seq(Region)
           step == [z \in (1..m) \X V |-> Retained(region, z[2], s[z[1]])]
<1>1. m \in Nat /\ DOMAIN s = 1..m /\ <<>> \in V
  OBVIOUS
<1>2. \A n \in 1..m : \A x \in V : Retained(region, x, s[n]) \in V
  BY DEF Retained
<1>3. step \in [(1..m) \X V -> V]
  BY <1>2
<1>4. PICK g \in [SUBSET (1..m) -> V] : Folds(g, <<>>, m, step)
  <2> HIDE DEF m, V, step
  <2> QED
    BY <1>1, <1>3, FoldIsDefined
<1>5. \A S \in SUBSET (1..m) :
        g[S] = IF S = {} THEN <<>> ELSE Retained(region, g[S \ {Max(S)}], s[Max(S)])
  <2>1. SUFFICES ASSUME NEW S \in SUBSET (1..m), S # {}
                 PROVE  g[S] = Retained(region, g[S \ {Max(S)}], s[Max(S)])
    BY <1>4 DEF Folds
  <2>2. Max(S) \in 1..m /\ g[S \ {Max(S)}] \in V
    BY <1>1, <1>4, <2>1, Greatest
  <2>3. g[S] = step[<<Max(S), g[S \ {Max(S)}]>>]
    BY <1>4, <2>1 DEF Folds
  <2>4. QED
    BY <2>2, <2>3
<1> DEFINE Solves(f) == f = [S \in SUBSET DOMAIN s |->
                              IF S = {} THEN <<>> ELSE Retained(region, f[S \ {Max(S)}], s[Max(S)])]
           iter == CHOOSE f : Solves(f)
<1>6. Solves(g)
  BY <1>1, <1>4, <1>5
<1>7. Solves(iter)
  <2> HIDE DEF Solves
  <2> QED
    BY <1>6
<1>8. Uncovered(s, region) = iter[DOMAIN s]
  BY Zenon DEF Uncovered, FoldLeft, MapThenFoldSet
<1> HIDE DEF iter
<1> DEFINE h == [n \in 0..m |-> iter[1..n]]
<1>9. \A S \in SUBSET (1..m) :
        iter[S] = IF S = {} THEN <<>> ELSE Retained(region, iter[S \ {Max(S)}], s[Max(S)])
  BY <1>1, <1>7
<1>10. h[0] = <<>>
  <2>1. 1..0 = {}
    OBVIOUS
  <2>2. h[0] = iter[1..0]
    BY <1>1
  <2>3. QED
    BY <1>9, <2>1, <2>2
<1>11. ASSUME NEW n \in 1..m
       PROVE  h[n] = Retained(region, h[n-1], s[n])
  <2>1. /\ Max(1..n) = n /\ (1..n) \ {n} = 1..n-1
        /\ 1..n \in SUBSET (1..m) /\ 1..n # {} /\ n - 1 \in 0..m /\ n \in 0..m
    BY <1>1, Within
  <2>3. h[n] = iter[1..n] /\ h[n-1] = iter[1..n-1]
    BY <2>1
  <2>4. QED
    BY <1>9, <2>1, <2>3
<1>12. h[m] = iter[DOMAIN s]
  BY <1>1
<1> HIDE DEF h
<1>13. QED
  BY <1>8, <1>10, <1>11, <1>12

(* What retain leaves has, for a row the new region does not have, the same *)
(* last region as before.                                                   *)
LEMMA UncoveredKeeps ==
  ASSUME NEW s \in Seq(Region), NEW region
  PROVE  /\ Uncovered(s, region) \in Seq(Region)
         /\ \A r : r \notin DOMAIN region =>
              LET kept == Uncovered(s, region) IN
                \/ NoneAt(kept, Len(kept), r) /\ NoneAt(s, Len(s), r)
                \/ \E i \in 1..Len(kept), j \in 1..Len(s) :
                     LastAt(kept, Len(kept), r, i) /\ LastAt(s, Len(s), r, j) /\ kept[i] = s[j]
<1>1. PICK h : /\ h[0] = <<>>
               /\ \A n \in 1..Len(s) :
                    h[n] = Retained(region, h[n-1], s[n])
               /\ Uncovered(s, region) = h[Len(s)]
  BY UncoveredRun
<1> DEFINE Alike(n, r) ==
             \/ NoneAt(h[n], Len(h[n]), r) /\ NoneAt(s, n, r)
             \/ \E i \in 1..Len(h[n]), j \in 1..n :
                  LastAt(h[n], Len(h[n]), r, i) /\ LastAt(s, n, r, j) /\ h[n][i] = s[j]
           Right(n) == h[n] \in Seq(Region) /\ \A r : r \notin DOMAIN region => Alike(n, r)
           Good == {n \in 0..Len(s) : Right(n)}
<1>2. Right(0)
  BY <1>1 DEF NoneAt
<1>3. ASSUME NEW n \in 1..Len(s), n - 1 \in Good
      PROVE  n \in Good
  <2>1. Right(n - 1) /\ s[n] \in Region /\ n \in Nat /\ n - 1 \in Nat /\ n \in 0..Len(s)
    BY <1>3
  <2>2. CASE Covers(region, s[n])
    <3>1. h[n] = h[n-1]
      BY <1>1, <2>2 DEF Retained
    <3>2. ASSUME NEW r, r \notin DOMAIN region
          PROVE  Alike(n, r)
      <4>1. r \notin DOMAIN s[n]
        BY <2>2, <3>2 DEF Covers
      <4>2. NoneAt(s, n - 1, r) => NoneAt(s, n, r)
        BY <2>1, <4>1 DEF NoneAt
      <4>3. \A j \in 1..n-1 : LastAt(s, n - 1, r, j) => LastAt(s, n, r, j) /\ j \in 1..n
        BY <2>1, <4>1 DEF LastAt
      <4>4. Alike(n - 1, r)
        BY <2>1, <3>2
      <4>5. QED
        BY <3>1, <4>2, <4>3, <4>4
    <3>3. QED
      BY <2>1, <3>1, <3>2
  <2>3. CASE ~ Covers(region, s[n])
    <3>1. h[n] = Append(h[n-1], s[n])
      BY <1>1, <2>3 DEF Retained
    <3>2. /\ h[n] \in Seq(Region) /\ Len(h[n]) = Len(h[n-1]) + 1
          /\ h[n][Len(h[n])] = s[n] /\ Len(h[n-1]) \in Nat
          /\ \A i \in 1..Len(h[n-1]) : h[n][i] = h[n-1][i]
      BY <2>1, <3>1
    <3>3. ASSUME NEW r, r \notin DOMAIN region
          PROVE  Alike(n, r)
      <4>1. CASE r \in DOMAIN s[n]
        <5>1. LastAt(h[n], Len(h[n]), r, Len(h[n])) /\ LastAt(s, n, r, n)
          BY <2>1, <3>2, <4>1 DEF LastAt
        <5>2. QED
          BY <2>1, <3>2, <5>1
      <4>2. CASE r \notin DOMAIN s[n]
        <5>1. Alike(n - 1, r)
          BY <2>1, <3>3
        <5>2. NoneAt(s, n - 1, r) => NoneAt(s, n, r)
          BY <2>1, <4>2 DEF NoneAt
        <5>3. \A j \in 1..n-1 : LastAt(s, n - 1, r, j) => LastAt(s, n, r, j) /\ j \in 1..n
          BY <2>1, <4>2 DEF LastAt
        <5>4. NoneAt(h[n-1], Len(h[n-1]), r) => NoneAt(h[n], Len(h[n]), r)
          BY <3>2, <4>2 DEF NoneAt
        <5>5. ASSUME NEW i \in 1..Len(h[n-1]), LastAt(h[n-1], Len(h[n-1]), r, i)
              PROVE  LastAt(h[n], Len(h[n]), r, i) /\ i \in 1..Len(h[n])
          <6>1. i \in 1..Len(h[n]) /\ r \in DOMAIN h[n][i]
            BY <3>2, <5>5 DEF LastAt
          <6>2. \A j \in i+1..Len(h[n]) : j \in i+1..Len(h[n-1]) \/ j = Len(h[n])
            BY <3>2
          <6>3. \A j \in i+1..Len(h[n-1]) : j \in 1..Len(h[n-1]) /\ r \notin DOMAIN h[n-1][j]
            BY <3>2, <5>5 DEF LastAt
          <6>4. \A j \in i+1..Len(h[n]) : r \notin DOMAIN h[n][j]
            BY <3>2, <4>2, <6>2, <6>3
          <6>5. QED
            BY <6>1, <6>4 DEF LastAt
        <5>6. QED
          BY <3>2, <5>1, <5>2, <5>3, <5>4, <5>5
      <4>3. QED
        BY <4>1, <4>2
    <3>4. QED
      BY <2>1, <3>2, <3>3
  <2>4. QED
    BY <2>2, <2>3
<1> HIDE DEF Right
<1>4. Len(s) \in Nat /\ 0 \in Good
  BY <1>2
<1> HIDE DEF Good
<1>5. 0..Len(s) \subseteq Good
  BY <1>3, <1>4, UpTo
<1>6. Right(Len(s))
  BY <1>4, <1>5 DEF Good
<1>7. QED
  BY <1>1, <1>6 DEF Right

(* What is kept are regions.                                                *)
LEMMA KeptType ==
  ASSUME NEW s \in Seq(Region), NEW region \in Region
  PROVE  Kept(s, region) \in Seq(Region)
BY UncoveredKeeps DEF Kept

(* FoldLeft(Kept, ...) is a run: the regions kept after each new one.       *)
LEMMA KeepRun ==
  ASSUME NEW p \in Seq(Region), NEW s \in Seq(Region)
  PROVE  \E h : /\ h[0] = p
                /\ \A n \in 1..Len(s) : h[n] = Kept(h[n-1], s[n])
                /\ FoldLeft(Kept, p, s) = h[Len(s)]
<1> DEFINE m == Len(s)
           V == Seq(Region)
           step == [z \in (1..m) \X V |-> Kept(z[2], s[z[1]])]
<1>1. m \in Nat /\ DOMAIN s = 1..m /\ p \in V
  OBVIOUS
<1>2. \A n \in 1..m : \A x \in V : Kept(x, s[n]) \in V
  BY KeptType
<1>3. step \in [(1..m) \X V -> V]
  BY <1>2
<1>4. PICK g \in [SUBSET (1..m) -> V] : Folds(g, p, m, step)
  <2> HIDE DEF m, V, step
  <2> QED
    BY <1>1, <1>3, FoldIsDefined
<1>5. \A S \in SUBSET (1..m) :
        g[S] = IF S = {} THEN p ELSE Kept(g[S \ {Max(S)}], s[Max(S)])
  <2>1. SUFFICES ASSUME NEW S \in SUBSET (1..m), S # {}
                 PROVE  g[S] = Kept(g[S \ {Max(S)}], s[Max(S)])
    BY <1>4 DEF Folds
  <2>2. Max(S) \in 1..m /\ g[S \ {Max(S)}] \in V
    BY <1>1, <1>4, <2>1, Greatest
  <2>3. g[S] = step[<<Max(S), g[S \ {Max(S)}]>>]
    BY <1>4, <2>1 DEF Folds
  <2>4. QED
    BY <2>2, <2>3
<1> DEFINE Solves(f) == f = [S \in SUBSET DOMAIN s |->
                              IF S = {} THEN p ELSE Kept(f[S \ {Max(S)}], s[Max(S)])]
           iter == CHOOSE f : Solves(f)
<1>6. Solves(g)
  BY <1>1, <1>4, <1>5
<1>7. Solves(iter)
  <2> HIDE DEF Solves
  <2> QED
    BY <1>6
<1>8. FoldLeft(Kept, p, s) = iter[DOMAIN s]
  BY Zenon DEF FoldLeft, MapThenFoldSet
<1> HIDE DEF iter
<1> DEFINE h == [n \in 0..m |-> iter[1..n]]
<1>9. \A S \in SUBSET (1..m) :
        iter[S] = IF S = {} THEN p ELSE Kept(iter[S \ {Max(S)}], s[Max(S)])
  BY <1>1, <1>7
<1>10. h[0] = p
  <2>1. 1..0 = {}
    OBVIOUS
  <2>2. h[0] = iter[1..0]
    BY <1>1
  <2>3. QED
    BY <1>9, <2>1, <2>2
<1>11. ASSUME NEW n \in 1..m
       PROVE  h[n] = Kept(h[n-1], s[n])
  <2>1. /\ Max(1..n) = n /\ (1..n) \ {n} = 1..n-1
        /\ 1..n \in SUBSET (1..m) /\ 1..n # {} /\ n - 1 \in 0..m /\ n \in 0..m
    BY <1>1, Within
  <2>3. h[n] = iter[1..n] /\ h[n-1] = iter[1..n-1]
    BY <2>1
  <2>4. QED
    BY <1>9, <2>1, <2>3
<1>12. h[m] = iter[DOMAIN s]
  BY <1>1
<1> HIDE DEF h
<1>13. QED
  BY <1>8, <1>10, <1>11, <1>12

(* ShownAll is a run: the canvas after each update.                         *)
LEMMA ShowRun ==
  ASSUME NEW p \in Canvas, NEW s \in Seq(Update)
  PROVE  \E h : /\ h[0] = p
                /\ \A n \in 1..Len(s) : h[n] = Shown(h[n-1], s[n])
                /\ ShownAll(p, s) = h[Len(s)]
<1> DEFINE m == Len(s)
           V == Canvas
           step == [z \in (1..m) \X V |-> Shown(z[2], s[z[1]])]
<1>1. m \in Nat /\ DOMAIN s = 1..m /\ p \in V
  OBVIOUS
<1>2. \A n \in 1..m : \A x \in V : Shown(x, s[n]) \in V
  BY ShownType
<1>3. step \in [(1..m) \X V -> V]
  BY <1>2
<1>4. PICK g \in [SUBSET (1..m) -> V] : Folds(g, p, m, step)
  <2> HIDE DEF m, V, step
  <2> QED
    BY <1>1, <1>3, FoldIsDefined
<1>5. \A S \in SUBSET (1..m) :
        g[S] = IF S = {} THEN p ELSE Shown(g[S \ {Max(S)}], s[Max(S)])
  <2>1. SUFFICES ASSUME NEW S \in SUBSET (1..m), S # {}
                 PROVE  g[S] = Shown(g[S \ {Max(S)}], s[Max(S)])
    BY <1>4 DEF Folds
  <2>2. Max(S) \in 1..m /\ g[S \ {Max(S)}] \in V
    BY <1>1, <1>4, <2>1, Greatest
  <2>3. g[S] = step[<<Max(S), g[S \ {Max(S)}]>>]
    BY <1>4, <2>1 DEF Folds
  <2>4. QED
    BY <2>2, <2>3
<1> DEFINE Solves(f) == f = [S \in SUBSET DOMAIN s |->
                              IF S = {} THEN p ELSE Shown(f[S \ {Max(S)}], s[Max(S)])]
           iter == CHOOSE f : Solves(f)
<1>6. Solves(g)
  BY <1>1, <1>4, <1>5
<1>7. Solves(iter)
  <2> HIDE DEF Solves
  <2> QED
    BY <1>6
<1>8. ShownAll(p, s) = iter[DOMAIN s]
  BY Zenon DEF ShownAll, FoldLeft, MapThenFoldSet
<1> HIDE DEF iter
<1> DEFINE h == [n \in 0..m |-> iter[1..n]]
<1>9. \A S \in SUBSET (1..m) :
        iter[S] = IF S = {} THEN p ELSE Shown(iter[S \ {Max(S)}], s[Max(S)])
  BY <1>1, <1>7
<1>10. h[0] = p
  <2>1. 1..0 = {}
    OBVIOUS
  <2>2. h[0] = iter[1..0]
    BY <1>1
  <2>3. QED
    BY <1>9, <2>1, <2>2
<1>11. ASSUME NEW n \in 1..m
       PROVE  h[n] = Shown(h[n-1], s[n])
  <2>1. /\ Max(1..n) = n /\ (1..n) \ {n} = 1..n-1
        /\ 1..n \in SUBSET (1..m) /\ 1..n # {} /\ n - 1 \in 0..m /\ n \in 0..m
    BY <1>1, Within
  <2>3. h[n] = iter[1..n] /\ h[n-1] = iter[1..n-1]
    BY <2>1
  <2>4. QED
    BY <1>9, <2>1, <2>3
<1>12. h[m] = iter[DOMAIN s]
  BY <1>1
<1> HIDE DEF h
<1>13. QED
  BY <1>8, <1>10, <1>11, <1>12

-----------------------------------------------------------------------------
(* The encoder                                                              *)
(* A frame is a picture of one of the sizes there are.                      *)
LEMMA ScreenShape ==
  ASSUME NEW frame \in Screens
  PROVE  \E n \in Heights : /\ DOMAIN frame = 1..n /\ Height(frame) = n
                            /\ frame \in [1..n -> Pixel]
<1>1. PICK n \in Heights : frame \in [1..n -> Pixel]
  BY DEF Screens
<1>2. n \in Nat \ {0}
  BY <1>1, Heighted
<1>3. 1..n = DOMAIN frame /\ Cardinality(1..n) = n
  BY <1>1, <1>2, FS_Interval
<1>4. QED
  BY <1>1, <1>3 DEF Height

(* Whatever layout is chosen, its boxes are runs of rows of the frame and   *)
(* cover what is dirty.                                                     *)
LEMMA LayoutCovers ==
  ASSUME NEW n \in Nat, NEW frame, NEW dirty \in SUBSET (1..n), NEW rows \in Layouts(dirty, frame)
  PROVE  /\ Len(rows) \in Nat /\ DOMAIN rows = 1..Len(rows)
         /\ \A i \in 1..Len(rows) : \E lo \in 1..n, hi \in 1..n : rows[i] = lo..hi
         /\ \A r \in dirty : \E i \in 1..Len(rows) : r \in rows[i]
<1>1. CASE dirty = {}
  BY <1>1 DEF Layouts
<1>2. CASE dirty # {} /\ Coalesced(dirty, frame)
  <2> DEFINE lo == Min(dirty)
             hi == Max(dirty)
  <2>1. /\ lo \in 1..n /\ hi \in 1..n
        /\ \A r \in dirty : r \in Nat /\ lo <= r /\ r <= hi
    <3>1. dirty \in SUBSET Nat
      OBVIOUS
    <3>2. QED
      BY <1>2, <3>1, Greatest, Smallest
  <2> HIDE DEF lo, hi
  <2>2. Max(lo..hi) = hi /\ hi \in lo..hi
    <3>0. lo <= hi
      <4>1. PICK r \in dirty : TRUE
        BY <1>2
      <4>2. r \in Nat /\ lo <= r /\ r <= hi /\ lo \in Nat /\ hi \in Nat
        BY <2>1
      <4>3. QED
        BY <4>2
    <3>1. hi \in lo..hi /\ lo..hi \in SUBSET (1..n)
      BY <2>1, <3>0
    <3>2. Max(lo..hi) \in lo..hi /\ hi <= Max(lo..hi)
      BY <3>1, Greatest
    <3>3. QED
      BY <2>1, <3>1, <3>2
  <2>3. rows \in Banded(lo..hi)
    BY <1>2 DEF Layouts, lo, hi
  <2>4. CASE rows = <<lo..hi>>
    BY <2>1, <2>4
  <2>5. ASSUME NEW cut \in (lo..hi) \ {Max(lo..hi)},
               rows = <<{r \in lo..hi : r <= cut}, {r \in lo..hi : r > cut}>>
        PROVE  /\ Len(rows) \in Nat /\ DOMAIN rows = 1..Len(rows)
               /\ \A i \in 1..Len(rows) : \E a \in 1..n, b \in 1..n : rows[i] = a..b
               /\ \A r \in dirty : \E i \in 1..Len(rows) : r \in rows[i]
    <3>1. cut \in 1..n /\ lo <= cut /\ cut < hi /\ cut + 1 \in 1..n /\ cut \in Nat
      BY <2>1, <2>2, <2>5
    <3>2. rows[1] = lo..cut /\ rows[2] = cut+1..hi /\ Len(rows) = 2
      <4>1. rows[1] = {r \in lo..hi : r <= cut} /\ rows[2] = {r \in lo..hi : r > cut} /\ Len(rows) = 2
        BY <2>5
      <4>2. {r \in lo..hi : r <= cut} = lo..cut /\ {r \in lo..hi : r > cut} = cut+1..hi
        BY <2>1, <3>1
      <4>3. QED
        BY <4>1, <4>2
    <3>3. DOMAIN rows = 1..2 /\ 1..2 = {1, 2}
      BY <2>5
    <3>4. \A r \in dirty : r \in rows[1] \/ r \in rows[2]
      BY <2>1, <3>1, <3>2
    <3>5. QED
      BY <2>1, <3>1, <3>2, <3>3, <3>4
  <2>6. QED
    BY <2>3, <2>4, <2>5 DEF Banded, Cuts
<1>3. CASE dirty # {} /\ ~ Coalesced(dirty, frame)
  <2> DEFINE k == Cardinality(dirty)
  <2>1. rows \in Single(dirty)
    BY <1>3 DEF Layouts
  <2>2. PICK f \in [1..k -> dirty] :
          /\ dirty = {f[i] : i \in DOMAIN f}
          /\ rows = [i \in 1..k |-> {f[i]}]
    BY <2>1 DEF Single
  <2>3. k \in Nat
    <3>1. IsFiniteSet(1..n)
      BY FS_Interval
    <3>2. IsFiniteSet(dirty)
      BY <3>1, FS_Subset
    <3>3. QED
      BY <3>2, FS_CardinalityType
  <2> HIDE DEF k
  <2>4. DOMAIN rows = 1..k /\ Len(rows) = k
    BY <2>2, <2>3
  <2>5. \A i \in 1..k : f[i] \in 1..n /\ rows[i] = f[i]..f[i]
    BY <2>2
  <2>6. \A r \in dirty : \E i \in 1..k : r \in rows[i]
    BY <2>2
  <2>7. QED
    BY <2>3, <2>4, <2>5, <2>6
<1>4. QED
  BY <1>1, <1>2, <1>3

(* An update carries the frame's pixels, and the rows it leaves out had them*)
(* before, in a frame of that size.                                         *)
LEMMA UpdateCarries ==
  ASSUME NEW was \in Screens \cup {NoFrame}, NEW frame \in Screens, NEW u \in Updates(was, frame)
  PROVE  /\ u \in Update /\ DOMAIN frame = 1..u.height
         /\ \A i \in 1..Len(u.regions) : \A r \in DOMAIN u.regions[i] : u.regions[i][r] = frame[r]
         /\ \A r \in DOMAIN frame : r \notin RowsOf(u) => DOMAIN was = DOMAIN frame /\ was[r] = frame[r]
<1>1. PICK n \in Heights : DOMAIN frame = 1..n /\ Height(frame) = n /\ frame \in [1..n -> Pixel]
  BY ScreenShape
<1>2. PICK rows \in Layouts(Dirty(was, frame), frame) :
        u = [keyframe |-> Keyframe(was, frame), height |-> Height(frame),
             regions |-> [i \in DOMAIN rows |-> Part(frame, rows[i])]]
  BY DEF Updates
<1>3. Dirty(was, frame) \in SUBSET (1..n) /\ n \in Nat /\ 1..n \subseteq Rows
  BY <1>1, Heighted DEF Dirty
<1>4. /\ Len(rows) \in Nat /\ DOMAIN rows = 1..Len(rows)
      /\ \A i \in 1..Len(rows) : \E lo \in 1..n, hi \in 1..n : rows[i] = lo..hi
      /\ \A r \in Dirty(was, frame) : \E i \in 1..Len(rows) : r \in rows[i]
  <2> HIDE DEF Dirty
  <2> QED
    BY <1>3, LayoutCovers
<1> DEFINE regions == [i \in DOMAIN rows |-> Part(frame, rows[i])]
<1>5. \A i \in 1..Len(rows) : /\ regions[i] \in Region /\ DOMAIN regions[i] = rows[i]
                              /\ \A r \in DOMAIN regions[i] : regions[i][r] = frame[r]
  <2>1. SUFFICES ASSUME NEW i \in 1..Len(rows)
                 PROVE  /\ regions[i] \in Region /\ DOMAIN regions[i] = rows[i]
                        /\ \A r \in DOMAIN regions[i] : regions[i][r] = frame[r]
    OBVIOUS
  <2>2. PICK lo \in 1..n, hi \in 1..n : rows[i] = lo..hi
    BY <1>4
  <2>3. \A r \in lo..hi : r \in 1..n /\ frame[r] \in Pixel
    BY <1>1, <1>3
  <2>4. regions[i] = [r \in lo..hi |-> frame[r]]
    BY <1>4, <2>2 DEF Part
  <2>5. regions[i] \in [lo..hi -> Pixel]
    BY <2>3, <2>4
  <2>6. lo..hi \in Runs
    <3>1. lo \in Rows /\ hi \in Rows /\ lo..hi \in SUBSET Rows
      BY <1>3
    <3>2. QED
      BY <3>1 DEF Runs
  <2>7. regions[i] \in Region
    <3> HIDE DEF regions
    <3>1. QED
      BY <2>5, <2>6 DEF Region
  <2>8. DOMAIN regions[i] = lo..hi /\ \A r \in lo..hi : regions[i][r] = frame[r]
    BY <2>4
  <2>9. QED
    BY <2>2, <2>7, <2>8
<1>6. /\ u.regions = regions /\ u.height = n /\ u.keyframe \in BOOLEAN
      /\ u = [keyframe |-> u.keyframe, height |-> n, regions |-> regions]
  BY <1>1, <1>2 DEF Keyframe
<1>7. regions \in Seq(Region) /\ Len(regions) = Len(rows) /\ DOMAIN regions = 1..Len(rows)
  BY <1>4, <1>5
<1> HIDE DEF regions
<1>8. u \in Update
  BY <1>6, <1>7 DEF Update
<1>9. ASSUME NEW r \in DOMAIN frame, r \notin RowsOf(u)
      PROVE  DOMAIN was = DOMAIN frame /\ was[r] = frame[r]
  <2>1. r \notin Dirty(was, frame)
    BY <1>4, <1>5, <1>6, <1>7, <1>9 DEF RowsOf, RowsIn
  <2>2. QED
    BY <2>1 DEF Dirty, Keyframe, Differs
<1>10. QED
  BY <1>1, <1>5, <1>6, <1>7, <1>8, <1>9

(* An update made against what a canvas shows, or against nothing, makes it *)
(* show the frame.                                                          *)
THEOREM UpdateShowsFrame ==
  ASSUME NEW was \in Screens \cup {NoFrame}, NEW frame \in Screens, NEW u \in Updates(was, frame),
         NEW c \in Canvas, was # NoFrame => c = was
  PROVE  Shown(c, u) = frame
<1>1. /\ u \in Update /\ DOMAIN frame = 1..u.height
      /\ \A i \in 1..Len(u.regions) : \A r \in DOMAIN u.regions[i] : u.regions[i][r] = frame[r]
      /\ \A r \in DOMAIN frame : r \notin RowsOf(u) => DOMAIN was = DOMAIN frame /\ was[r] = frame[r]
  BY UpdateCarries
<1>2. Shown(c, u) \in [1..u.height -> Pixel \cup {Blank}]
  BY <1>1, ShownRows
<1>3. ASSUME NEW r \in 1..u.height
      PROVE  Shown(c, u)[r] = frame[r]
  <2>1. CASE r \in RowsOf(u)
    <3>1. PICK i \in 1..Len(u.regions) : /\ LastAt(u.regions, Len(u.regions), r, i)
                                         /\ Shown(c, u)[r] = u.regions[i][r]
      BY <1>1, <2>1, ShownRows
    <3>2. QED
      BY <1>1, <3>1 DEF LastAt
  <2>2. CASE r \notin RowsOf(u)
    <3>1. Shown(c, u)[r] = Fitted(c, u.height)[r]
      BY <1>1, <2>2, ShownRows
    <3>2. DOMAIN was = 1..u.height /\ was[r] = frame[r]
      BY <1>1, <2>2
    <3>3. was # NoFrame
      <4>1. DOMAIN NoFrame = {}
        BY DEF NoFrame
      <4>2. QED
        BY <3>2, <4>1
    <3>4. Fitted(c, u.height) = c /\ c = was
      BY <3>2, <3>3 DEF Fitted
    <3>5. QED
      BY <3>1, <3>2, <3>4
  <2>3. QED
    BY <2>1, <2>2
<1>4. PICK n \in Heights : frame \in [1..n -> Pixel]
  BY ScreenShape
<1>5. frame = [r \in 1..u.height |-> frame[r]]
  BY <1>1, <1>4
<1>6. Shown(c, u) = [r \in 1..u.height |-> Shown(c, u)[r]]
  BY <1>2
<1>7. QED
  BY <1>3, <1>5, <1>6

-----------------------------------------------------------------------------
(* The cache                                                                *)
(* Replacing what a region covers and putting it last keeps the picture.    *)
LEMMA KeptDepicts ==
  ASSUME NEW s \in Seq(Region), NEW picture, NEW g \in Region, Depicts(s, picture)
  PROVE  Depicts(Kept(s, g), Painted(picture, g))
<1> DEFINE kept == Uncovered(s, g)
           k == Len(kept)
           all == Kept(s, g)
<1>1. /\ kept \in Seq(Region) /\ k \in Nat
      /\ all \in Seq(Region) /\ Len(all) = k + 1 /\ all[k+1] = g
      /\ \A i \in 1..k : all[i] = kept[i]
  BY UncoveredKeeps DEF Kept
<1>2. DOMAIN Painted(picture, g) = DOMAIN picture
  BY DEF Painted
<1>3. ASSUME NEW r \in DOMAIN picture
      PROVE  \/ NoneAt(all, Len(all), r)
             \/ \E i \in 1..Len(all) : LastAt(all, Len(all), r, i) /\ all[i][r] = Painted(picture, g)[r]
  <2>1. CASE r \in DOMAIN g
    <3>1. Painted(picture, g)[r] = g[r]
      BY <2>1 DEF Painted
    <3>2. LastAt(all, Len(all), r, k + 1) /\ k + 1 \in 1..Len(all)
      BY <1>1, <2>1 DEF LastAt
    <3>3. QED
      BY <1>1, <3>1, <3>2
  <2>2. CASE r \notin DOMAIN g
    <3>1. Painted(picture, g)[r] = picture[r]
      BY <2>2 DEF Painted
    <3>2. CASE NoneAt(s, Len(s), r)
      <4>1. NoneAt(kept, k, r)
        BY <2>2, <3>2, UncoveredKeeps DEF LastAt, NoneAt
      <4>2. NoneAt(all, Len(all), r)
        BY <1>1, <2>2, <4>1 DEF NoneAt
      <4>3. QED
        BY <4>2
    <3>3. ASSUME NEW j \in 1..Len(s), LastAt(s, Len(s), r, j), s[j][r] = picture[r]
          PROVE  \E i \in 1..Len(all) : LastAt(all, Len(all), r, i) /\ all[i][r] = picture[r]
      <4>1. ~ NoneAt(s, Len(s), r)
        BY <3>3 DEF NoneAt, LastAt
      <4>2. PICK i \in 1..k, jj \in 1..Len(s) :
              LastAt(kept, k, r, i) /\ LastAt(s, Len(s), r, jj) /\ kept[i] = s[jj]
        BY <2>2, <4>1, UncoveredKeeps
      <4>3. jj = j
        <5>1. Len(s) \in Nat
          OBVIOUS
        <5>2. ~ (jj < j) /\ ~ (j < jj)
          BY <3>3, <4>2, <5>1 DEF LastAt
        <5>3. QED
          BY <5>2
      <4>4. LastAt(all, Len(all), r, i) /\ i \in 1..Len(all)
        <5>1. i \in 1..Len(all) /\ r \in DOMAIN all[i]
          BY <1>1, <4>2 DEF LastAt
        <5>2. \A x \in i+1..Len(all) : x \in i+1..k \/ x = k + 1
          BY <1>1
        <5>3. \A x \in i+1..k : x \in 1..k /\ r \notin DOMAIN kept[x]
          BY <1>1, <4>2 DEF LastAt
        <5>4. QED
          BY <1>1, <2>2, <5>1, <5>2, <5>3 DEF LastAt
      <4>5. QED
        BY <1>1, <3>3, <4>2, <4>3, <4>4
    <3>4. QED
      BY <3>1, <3>2, <3>3 DEF Depicts
  <2>3. QED
    BY <2>1, <2>2
<1> HIDE DEF all, k, kept
<1>4. QED
  BY <1>2, <1>3 DEF Depicts, all

CacheOK == cache \in [height : Nat, regions : Seq(Region)] /\ Len(cache.regions) <= MaxRegions

(* The cache after an update depicts the picture after that update, and     *)
(* holds at most MAX_REGIONS regions: a keyframe or another size empties it,*)
(* and so does a region too many.                                           *)
THEOREM AppliedDepicts ==
  ASSUME CacheOK, told \in Canvas, CacheInv, NEW u \in Update
  PROVE  LET after == Applied(cache, u) IN
           /\ after \in [height : Nat, regions : Seq(Region)]
           /\ Len(after.regions) <= MaxRegions
           /\ after.height = u.height
           /\ Depicts(after.regions, Shown(told, u))
<1>1. u.height \in Heights /\ u.regions \in Seq(Region) /\ u.height \in Nat \ {0} /\ MaxRegions \in Nat
  BY Heighted, SizeAssumption DEF Update
<1> DEFINE n == u.height
           s == u.regions
           p == Fitted(told, n)
           before == IF u.keyframe \/ cache.height # n THEN <<>> ELSE cache.regions
           after == FoldLeft(Kept, before, s)
<1>2. p \in [1..n -> Pixel \cup {Blank}] /\ (DOMAIN told = 1..n => p = told)
  BY <1>1, FittedType
<1>3. before \in Seq(Region) /\ Depicts(before, p)
  <2>1. <<>> \in Seq(Region) /\ Depicts(<<>>, p)
    BY DEF Depicts, NoneAt
  <2>2. cache.height = n => cache.regions \in Seq(Region) /\ Depicts(cache.regions, p)
    BY <1>2 DEF CacheInv, CacheOK
  <2>3. QED
    BY <2>1, <2>2
<1>4. Shown(told, u) = FoldLeft(Painted, p, s)
  BY DEF Shown
<1> HIDE DEF p, before
<1>5. PICK pic : /\ pic[0] = p
                 /\ \A i \in 1..Len(s) : pic[i] = Painted(pic[i-1], s[i])
                 /\ FoldLeft(Painted, p, s) = pic[Len(s)]
  BY <1>1, <1>2, PaintRun
<1>6. PICK kept : /\ kept[0] = before
                  /\ \A i \in 1..Len(s) : kept[i] = Kept(kept[i-1], s[i])
                  /\ after = kept[Len(s)]
  BY <1>1, <1>3, KeepRun
<1> DEFINE Good == {i \in 0..Len(s) : kept[i] \in Seq(Region) /\ Depicts(kept[i], pic[i])}
<1>7. 0 \in Good
  BY <1>1, <1>3, <1>5, <1>6
<1>8. ASSUME NEW i \in 1..Len(s), i - 1 \in Good
      PROVE  i \in Good
  <2>1. kept[i-1] \in Seq(Region) /\ Depicts(kept[i-1], pic[i-1])
    BY <1>8
  <2>2. s[i] \in Region /\ i \in 0..Len(s)
    BY <1>1
  <2>3. kept[i] = Kept(kept[i-1], s[i]) /\ pic[i] = Painted(pic[i-1], s[i])
    BY <1>5, <1>6
  <2>4. QED
    BY <2>1, <2>2, <2>3, KeptType, KeptDepicts
<1>9. Len(s) \in Nat
  BY <1>1
<1> HIDE DEF Good
<1>10. 0..Len(s) \subseteq Good
  BY <1>7, <1>8, <1>9, UpTo
<1>11. after \in Seq(Region) /\ Depicts(after, Shown(told, u))
  BY <1>4, <1>5, <1>6, <1>9, <1>10 DEF Good
<1>12. Applied(cache, u) = [height |-> n, regions |-> IF Len(after) > MaxRegions THEN <<>> ELSE after]
  BY DEF Applied, before
<1>13. Depicts(<<>>, Shown(told, u))
  BY DEF Depicts, NoneAt
<1> HIDE DEF after
<1>14. QED
  BY <1>1, <1>11, <1>12, <1>13

(* A bootstrap from a cache that depicts the picture shows nothing else.    *)
LEMMA BootstrapShows ==
  ASSUME CacheOK, told \in Canvas, CacheInv, cache.regions # <<>>
  PROVE  /\ Bootstrap(cache) \in Update
         /\ Agrees(Shown(NoFrame, Bootstrap(cache)), told)
         /\ DOMAIN Shown(NoFrame, Bootstrap(cache)) = DOMAIN told
<1>1. /\ Bootstrap(cache) \in Update /\ Bootstrap(cache).height = cache.height
      /\ Bootstrap(cache).regions = cache.regions /\ DOMAIN told = 1..cache.height
  BY DEF Bootstrap, CacheOK, CacheInv, Update
<1> DEFINE b == Bootstrap(cache)
<1>2. NoFrame \in Canvas
  BY DEF Canvas
<1>3. Shown(NoFrame, b) \in [1..b.height -> Pixel \cup {Blank}]
  BY <1>1, <1>2, ShownRows
<1>4. ASSUME NEW r \in 1..b.height
      PROVE  Shown(NoFrame, b)[r] = Blank \/ Shown(NoFrame, b)[r] = told[r]
  <2>1. CASE r \notin RowsOf(b)
    <3>1. Shown(NoFrame, b)[r] = Fitted(NoFrame, b.height)[r]
      BY <1>1, <1>2, <2>1, ShownRows
    <3>2. DOMAIN NoFrame = {}
      BY DEF NoFrame
    <3>3. b.height \in Heights /\ DOMAIN NoFrame # 1..b.height
      BY <1>1, <3>2, Heighted DEF Update
    <3>4. QED
      BY <1>2, <3>1, <3>3, FittedType
  <2>2. CASE r \in RowsOf(b)
    <3>1. PICK i \in 1..Len(b.regions) : /\ LastAt(b.regions, Len(b.regions), r, i)
                                         /\ Shown(NoFrame, b)[r] = b.regions[i][r]
      BY <1>1, <1>2, <2>2, ShownRows
    <3>2. Len(cache.regions) \in Nat
      BY DEF CacheOK
    <3>3. ~ NoneAt(cache.regions, Len(cache.regions), r)
      BY <1>1, <3>1 DEF NoneAt, LastAt
    <3>4. PICK j \in 1..Len(cache.regions) : /\ LastAt(cache.regions, Len(cache.regions), r, j)
                                             /\ cache.regions[j][r] = told[r]
      BY <1>1, <3>3 DEF CacheInv, Depicts
    <3>5. ~ (i < j) /\ ~ (j < i)
      BY <1>1, <3>1, <3>2, <3>4 DEF LastAt
    <3>6. i = j
      BY <1>1, <3>2, <3>5
    <3>7. QED
      BY <1>1, <3>1, <3>4, <3>6
  <2>3. QED
    BY <2>1, <2>2
<1>5. QED
  BY <1>1, <1>3, <1>4 DEF Agrees

(* The regions of one update may be drawn in any order, as the page does    *)
(* when it decodes them all at once (viewer.html:206): they are of one      *)
(* frame. Of two updates, or of a bootstrap, this is not true.              *)
THEOREM AnyOrderWithinUpdate ==
  ASSUME NEW was \in Screens \cup {NoFrame}, NEW frame \in Screens, NEW u \in Updates(was, frame),
         NEW c \in Canvas, NEW order \in [1..Len(u.regions) -> 1..Len(u.regions)],
         \A i \in 1..Len(u.regions) : \E j \in 1..Len(u.regions) : order[j] = i
  PROVE  Shown(c, [u EXCEPT !.regions = [i \in 1..Len(u.regions) |-> u.regions[order[i]]]])
           = Shown(c, u)
<1> DEFINE m == Len(u.regions)
           s == [i \in 1..m |-> u.regions[order[i]]]
           w == [u EXCEPT !.regions = s]
<1>1. /\ u \in Update /\ DOMAIN frame = 1..u.height
      /\ \A i \in 1..m : \A r \in DOMAIN u.regions[i] : u.regions[i][r] = frame[r]
  BY UpdateCarries
<1>2. u.regions \in Seq(Region) /\ m \in Nat /\ DOMAIN u.regions = 1..m
  BY <1>1 DEF Update
<1>3. /\ s \in Seq(Region) /\ Len(s) = m /\ DOMAIN s = 1..m
      /\ \A i \in 1..m : s[i] = u.regions[order[i]] /\ order[i] \in 1..m
  <2>1. \A i \in 1..m : order[i] \in 1..m
    OBVIOUS
  <2>2. \A i \in 1..m : u.regions[i] \in Region
    BY <1>2
  <2>3. \A i \in 1..m : u.regions[order[i]] \in Region
    BY <2>1, <2>2
  <2>4. s \in [1..m -> Region]
    BY <2>3
  <2>5. s \in Seq(Region) /\ Len(s) = m
    <3> HIDE DEF m, s
    <3>1. QED
      BY <1>2, <2>4
  <2>6. QED
    BY <2>1, <2>4, <2>5
<1>4. w \in Update /\ w.height = u.height /\ w.regions = s
  BY <1>1, <1>3 DEF Update
<1>5. \A r : r \in RowsOf(w) <=> r \in RowsOf(u)
  <2>1. \A r : r \in RowsOf(w) <=> \E i \in 1..m : r \in DOMAIN s[i]
    BY <1>3, <1>4 DEF RowsOf, RowsIn
  <2>2. \A r : r \in RowsOf(u) <=> \E i \in 1..m : r \in DOMAIN u.regions[i]
    BY <1>2 DEF RowsOf, RowsIn
  <2>3. \A i \in 1..m : \E j \in 1..m : order[j] = i
    OBVIOUS
  <2> HIDE DEF m, s, w
  <2>4. ASSUME NEW r, NEW i \in 1..m, r \in DOMAIN s[i]
        PROVE  r \in RowsOf(u)
    BY <1>3, <2>2, <2>4
  <2>5. ASSUME NEW r, NEW i \in 1..m, r \in DOMAIN u.regions[i]
        PROVE  r \in RowsOf(w)
    <3>1. PICK j \in 1..m : order[j] = i
      BY <2>3
    <3>2. s[j] = u.regions[i]
      BY <1>3, <3>1
    <3>3. QED
      BY <2>1, <2>5, <3>2
  <2>6. QED
    BY <2>1, <2>2, <2>4, <2>5
<1>6. \A i \in 1..m : \A r \in DOMAIN s[i] : s[i][r] = frame[r]
  BY <1>1, <1>3
<1> HIDE DEF m, s, w
<1>7. /\ Shown(c, w) \in [1..u.height -> Pixel \cup {Blank}]
      /\ Shown(c, u) \in [1..u.height -> Pixel \cup {Blank}]
  BY <1>1, <1>4, ShownRows
<1>8. ASSUME NEW r \in 1..u.height
      PROVE  Shown(c, w)[r] = Shown(c, u)[r]
  <2>1. CASE r \in RowsOf(u)
    <3>1. PICK i \in 1..m : LastAt(u.regions, m, r, i) /\ Shown(c, u)[r] = u.regions[i][r]
      BY <1>1, <2>1, ShownRows DEF m
    <3>2. PICK j \in 1..m : LastAt(s, m, r, j) /\ Shown(c, w)[r] = s[j][r]
      <4>1. \E j \in 1..Len(w.regions) : /\ LastAt(w.regions, Len(w.regions), r, j)
                                         /\ Shown(c, w)[r] = w.regions[j][r]
        BY <1>4, <1>5, <2>1, ShownRows
      <4>2. QED
        BY <1>3, <1>4, <4>1
    <3>3. QED
      BY <1>1, <1>6, <3>1, <3>2 DEF LastAt
  <2>2. CASE r \notin RowsOf(u)
    <3>1. Shown(c, u)[r] = Fitted(c, u.height)[r]
      BY <1>1, <2>2, ShownRows
    <3>2. Shown(c, w)[r] = Fitted(c, u.height)[r]
      BY <1>4, <1>5, <2>2, ShownRows
    <3>3. QED
      BY <3>1, <3>2
  <2>3. QED
    BY <2>1, <2>2
<1>9. Shown(c, w) = Shown(c, u)
  <2>1. Shown(c, w) = [r \in 1..u.height |-> Shown(c, w)[r]]
    BY <1>7
  <2>2. Shown(c, u) = [r \in 1..u.height |-> Shown(c, u)[r]]
    BY <1>7
  <2>3. QED
    BY <1>8, <2>1, <2>2
<1>10. QED
  BY <1>9 DEF w, s, m

-----------------------------------------------------------------------------
(* Several updates                                                          *)
(* No update changes nothing.                                               *)
LEMMA ShownAllEmpty ==
  ASSUME NEW c \in Canvas
  PROVE  ShownAll(c, <<>>) = c
<1>1. <<>> \in Seq(Update) /\ Len(<<>>) = 0
  OBVIOUS
<1>2. QED
  BY <1>1, ShowRun

(* The last update is drawn last.                                           *)
LEMMA ShownAllAppend ==
  ASSUME NEW c \in Canvas, NEW p \in Seq(Update), NEW u \in Update
  PROVE  ShownAll(c, Append(p, u)) = Shown(ShownAll(c, p), u)
<1> DEFINE q == Append(p, u)
           m == Len(p)
<1>1. /\ q \in Seq(Update) /\ Len(q) = m + 1 /\ m \in Nat /\ q[m+1] = u
      /\ \A n \in 1..m : q[n] = p[n]
  OBVIOUS
<1> HIDE DEF q, m
<1>2. PICK h : /\ h[0] = c
               /\ \A n \in 1..m+1 : h[n] = Shown(h[n-1], q[n])
               /\ ShownAll(c, q) = h[m+1]
  <2>1. \E h : /\ h[0] = c
               /\ \A n \in 1..Len(q) : h[n] = Shown(h[n-1], q[n])
               /\ ShownAll(c, q) = h[Len(q)]
    BY <1>1, ShowRun
  <2>2. QED
    BY <1>1, <2>1
<1>3. PICK k : /\ k[0] = c
               /\ \A n \in 1..m : k[n] = Shown(k[n-1], p[n])
               /\ ShownAll(c, p) = k[m]
  BY ShowRun DEF m
<1> DEFINE Good == {n \in 0..m : h[n] = k[n]}
<1>4. 0 \in Good
  BY <1>1, <1>2, <1>3
<1>5. \A n \in 1..m : n - 1 \in Good => n \in Good
  BY <1>1, <1>2, <1>3
<1> HIDE DEF Good
<1>6. m \in Good
  <2>1. 0..m \subseteq Good
    BY <1>1, <1>4, <1>5, UpTo
  <2>2. QED
    BY <1>1, <2>1
<1>7. h[m] = k[m]
  BY <1>6 DEF Good
<1>8. m + 1 \in 1..m+1 /\ (m + 1) - 1 = m
  BY <1>1
<1>9. h[m+1] = Shown(h[m], u)
  BY <1>1, <1>2, <1>8
<1>10. QED
  BY <1>2, <1>3, <1>7, <1>9 DEF q

(* The first update is drawn first.                                         *)
LEMMA ShownAllHead ==
  ASSUME NEW c \in Canvas, NEW p \in Seq(Update), p # <<>>
  PROVE  ShownAll(c, p) = ShownAll(Shown(c, p[1]), Tail(p))
<1> DEFINE q == Tail(p)
           m == Len(q)
<1>1. /\ q \in Seq(Update) /\ Len(p) = m + 1 /\ m \in Nat /\ p[1] \in Update
      /\ \A n \in 1..m : q[n] = p[n+1]
  OBVIOUS
<1> HIDE DEF q, m
<1>2. PICK h : /\ h[0] = c
               /\ \A n \in 1..m+1 : h[n] = Shown(h[n-1], p[n])
               /\ ShownAll(c, p) = h[m+1]
  <2>1. \E h : /\ h[0] = c
               /\ \A n \in 1..Len(p) : h[n] = Shown(h[n-1], p[n])
               /\ ShownAll(c, p) = h[Len(p)]
    BY ShowRun
  <2>2. QED
    BY <1>1, <2>1
<1>3. PICK k : /\ k[0] = Shown(c, p[1])
               /\ \A n \in 1..m : k[n] = Shown(k[n-1], q[n])
               /\ ShownAll(Shown(c, p[1]), q) = k[m]
  BY <1>1, ShowRun, ShownType DEF m
<1> DEFINE Good == {n \in 0..m : h[n+1] = k[n]}
<1>4. 0 \in Good
  BY <1>1, <1>2, <1>3
<1>5. ASSUME NEW n \in 1..m, n - 1 \in Good PROVE n \in Good
  <2>1. n \in 0..m /\ n + 1 \in 1..m+1 /\ (n + 1) - 1 = n /\ (n - 1) + 1 = n
    BY <1>1
  <2>2. h[n] = k[n-1]
    BY <1>5, <2>1
  <2>3. h[n+1] = Shown(h[n], p[n+1])
    BY <1>2, <2>1
  <2>4. QED
    BY <1>1, <1>3, <2>1, <2>2, <2>3
<1> HIDE DEF Good
<1>6. m \in Good
  <2>1. 0..m \subseteq Good
    BY <1>1, <1>4, <1>5, UpTo
  <2>2. QED
    BY <1>1, <2>1
<1>7. QED
  BY <1>2, <1>3, <1>6 DEF Good, q

(* The canvas after each update of a run.                                   *)
LEMMA RunType ==
  ASSUME NEW c \in Canvas, NEW p \in Seq(Update), NEW h, h[0] = c,
         \A n \in 1..Len(p) : h[n] = Shown(h[n-1], p[n])
  PROVE  \A n \in 0..Len(p) : h[n] \in Canvas /\ (n # 0 => DOMAIN h[n] = 1..p[n].height)
<1> DEFINE Good == {n \in 0..Len(p) : h[n] \in Canvas /\ (n # 0 => DOMAIN h[n] = 1..p[n].height)}
<1>1. Len(p) \in Nat /\ 0 \in Good
  OBVIOUS
<1>2. ASSUME NEW n \in 1..Len(p), n - 1 \in Good PROVE n \in Good
  <2>1. h[n-1] \in Canvas /\ p[n] \in Update /\ n \in 0..Len(p)
    BY <1>2
  <2>2. h[n] = Shown(h[n-1], p[n])
    OBVIOUS
  <2>3. QED
    BY <2>1, <2>2, ShownType
<1> HIDE DEF Good
<1>3. 0..Len(p) \subseteq Good
  BY <1>1, <1>2, UpTo
<1>4. QED
  BY <1>3 DEF Good

(* Updates leave a canvas of the size of the last.                          *)
LEMMA ShownAllType ==
  ASSUME NEW c \in Canvas, NEW p \in Seq(Update)
  PROVE  /\ ShownAll(c, p) \in Canvas
         /\ p # <<>> => DOMAIN ShownAll(c, p) = 1..p[Len(p)].height
<1>1. PICK h : /\ h[0] = c
               /\ \A n \in 1..Len(p) : h[n] = Shown(h[n-1], p[n])
               /\ ShownAll(c, p) = h[Len(p)]
  BY ShowRun
<1>2. \A n \in 0..Len(p) : h[n] \in Canvas /\ (n # 0 => DOMAIN h[n] = 1..p[n].height)
  BY <1>1, RunType
<1>3. Len(p) \in 0..Len(p) /\ (p # <<>> => Len(p) # 0)
  OBVIOUS
<1>4. QED
  BY <1>1, <1>2, <1>3

(* One update drawn on two canvases: the same where it draws, and elsewhere *)
(* what was there, or nothing if it has another size.                       *)
LEMMA ShownAlike ==
  ASSUME NEW u \in Update, NEW r \in 1..u.height
  PROVE  /\ \A c, d \in Canvas : r \in RowsOf(u) => Shown(c, u)[r] = Shown(d, u)[r]
         /\ \A c \in Canvas : r \notin RowsOf(u) =>
              \/ DOMAIN c # 1..u.height /\ Shown(c, u)[r] = Blank
              \/ DOMAIN c = 1..u.height /\ Shown(c, u)[r] = c[r]
<1>1. u.height \in Heights /\ Len(u.regions) \in Nat
  BY DEF Update
<1>2. ASSUME NEW c \in Canvas, NEW d \in Canvas, r \in RowsOf(u)
      PROVE  Shown(c, u)[r] = Shown(d, u)[r]
  <2>1. PICK i \in 1..Len(u.regions) : /\ LastAt(u.regions, Len(u.regions), r, i)
                                       /\ Shown(c, u)[r] = u.regions[i][r]
    BY <1>2, ShownRows
  <2>2. PICK j \in 1..Len(u.regions) : /\ LastAt(u.regions, Len(u.regions), r, j)
                                       /\ Shown(d, u)[r] = u.regions[j][r]
    BY <1>2, ShownRows
  <2>3. ~ (i < j) /\ ~ (j < i)
    BY <1>1, <2>1, <2>2 DEF LastAt
  <2>4. i = j
    BY <1>1, <2>3
  <2>5. QED
    BY <2>1, <2>2, <2>4
<1>3. ASSUME NEW c \in Canvas, r \notin RowsOf(u)
      PROVE  \/ DOMAIN c # 1..u.height /\ Shown(c, u)[r] = Blank
             \/ DOMAIN c = 1..u.height /\ Shown(c, u)[r] = c[r]
  <2>1. Shown(c, u)[r] = Fitted(c, u.height)[r]
    BY <1>3, ShownRows
  <2>2. QED
    BY <1>1, <2>1, FittedType
<1>4. QED
  BY <1>2, <1>3

(* The same updates drawn on a canvas and on none: they differ only where   *)
(* nothing was drawn since.                                                 *)
LEMMA Over ==
  ASSUME NEW c \in Canvas, NEW p \in Seq(Update), NEW r \in DOMAIN ShownAll(c, p)
  PROVE  \/ r \in DOMAIN ShownAll(NoFrame, p) /\ ShownAll(c, p)[r] = ShownAll(NoFrame, p)[r]
         \/ ShownAll(c, p)[r] = Blank
         \/ ~ Brings(p, r) /\ r \in DOMAIN c /\ ShownAll(c, p)[r] = c[r]
<1>0. NoFrame \in Canvas /\ DOMAIN NoFrame = {} /\ Len(p) \in Nat
  BY DEF Canvas, NoFrame
<1>1. PICK h : /\ h[0] = c
               /\ \A n \in 1..Len(p) : h[n] = Shown(h[n-1], p[n])
               /\ ShownAll(c, p) = h[Len(p)]
  BY ShowRun
<1>2. PICK k : /\ k[0] = NoFrame
               /\ \A n \in 1..Len(p) : k[n] = Shown(k[n-1], p[n])
               /\ ShownAll(NoFrame, p) = k[Len(p)]
  BY <1>0, ShowRun
<1>3. \A n \in 0..Len(p) : h[n] \in Canvas /\ (n # 0 => DOMAIN h[n] = 1..p[n].height)
  BY <1>1, RunType
<1>4. \A n \in 0..Len(p) : k[n] \in Canvas /\ (n # 0 => DOMAIN k[n] = 1..p[n].height)
  BY <1>0, <1>2, RunType
<1> DEFINE Right(n) == r \in DOMAIN h[n] =>
             \/ r \in DOMAIN k[n] /\ h[n][r] = k[n][r]
             \/ h[n][r] = Blank
             \/ r \in DOMAIN c /\ h[n][r] = c[r] /\ \A i \in 1..n : r \notin RowsOf(p[i])
           Good == {n \in 0..Len(p) : Right(n)}
<1>5. 0 \in Good
  BY <1>0, <1>1
<1>6. ASSUME NEW n \in 1..Len(p), n - 1 \in Good
      PROVE  n \in Good
  <2>1. Right(n - 1) /\ n \in 0..Len(p) /\ n - 1 \in 0..Len(p) /\ n # 0 /\ p[n] \in Update
    BY <1>6
  <2>2. SUFFICES ASSUME r \in DOMAIN h[n] PROVE Right(n)
    BY <2>1
  <2>3. DOMAIN h[n] = 1..p[n].height /\ DOMAIN k[n] = 1..p[n].height
    BY <1>3, <1>4, <2>1
  <2>4. h[n] = Shown(h[n-1], p[n]) /\ k[n] = Shown(k[n-1], p[n])
    BY <1>1, <1>2
  <2>5. h[n-1] \in Canvas /\ k[n-1] \in Canvas /\ r \in 1..p[n].height
    BY <1>3, <1>4, <2>1, <2>2, <2>3
  <2> HIDE DEF Good, Right
  <2>6. CASE r \in RowsOf(p[n])
    <3>1. h[n][r] = k[n][r]
      BY <2>1, <2>4, <2>5, <2>6, ShownAlike
    <3>2. QED
      BY <2>3, <2>5, <3>1 DEF Right
  <2>7. CASE r \notin RowsOf(p[n])
    <3>1. CASE h[n][r] = Blank
      BY <3>1 DEF Right
    <3>2. CASE DOMAIN h[n-1] = 1..p[n].height /\ h[n][r] = h[n-1][r]
      <4>1. CASE r \in DOMAIN k[n-1] /\ h[n-1][r] = k[n-1][r]
        <5>1. n - 1 # 0
          BY <1>0, <1>2, <4>1
        <5>2. DOMAIN k[n-1] = DOMAIN h[n-1]
          BY <1>3, <1>4, <2>1, <5>1
        <5>3. k[n][r] = k[n-1][r]
          BY <2>1, <2>4, <2>5, <2>7, <3>2, <5>2, ShownAlike
        <5>4. QED
          BY <2>3, <2>5, <3>2, <4>1, <5>3 DEF Right
      <4>2. CASE h[n-1][r] = Blank
        BY <3>2, <4>2 DEF Right
      <4>3. CASE r \in DOMAIN c /\ h[n-1][r] = c[r] /\ \A i \in 1..n-1 : r \notin RowsOf(p[i])
        <5>1. \A i \in 1..n : i \in 1..n-1 \/ i = n
          OBVIOUS
        <5>2. \A i \in 1..n : r \notin RowsOf(p[i])
          BY <2>7, <4>3, <5>1
        <5>3. QED
          BY <3>2, <4>3, <5>2 DEF Right
      <4>4. QED
        BY <2>1, <2>5, <3>2, <4>1, <4>2, <4>3 DEF Right
    <3>3. QED
      BY <2>1, <2>4, <2>5, <2>7, <3>1, <3>2, ShownAlike
  <2>8. Right(n)
    BY <2>6, <2>7
  <2>9. QED
    BY <2>1, <2>8 DEF Good
<1> HIDE DEF Good
<1>7. 0..Len(p) \subseteq Good
  BY <1>0, <1>5, <1>6, UpTo
<1>8. Right(Len(p))
  BY <1>0, <1>7 DEF Good
<1>9. QED
  BY <1>1, <1>2, <1>8 DEF Brings

(* The first of several updates left out: what differs in the end is what   *)
(* it drew and none of the others did.                                      *)
LEMMA LeftOut ==
  ASSUME NEW c \in Canvas, NEW a \in Update, NEW p \in Seq(Update), p # <<>>, SameSize(a, p[1]),
         NEW r \in DOMAIN ShownAll(c, p)
  PROVE  /\ DOMAIN ShownAll(c, p) = DOMAIN ShownAll(Shown(c, a), p)
         /\ \/ ShownAll(c, p)[r] = Blank
            \/ ShownAll(c, p)[r] = ShownAll(Shown(c, a), p)[r]
            \/ r \in RowsOf(a) /\ ~ Brings(p, r) /\ r \in DOMAIN c
<1>0. /\ Shown(c, a) \in Canvas /\ DOMAIN Shown(c, a) = 1..a.height
      /\ Len(p) \in Nat \ {0} /\ a.height \in Heights
  BY ShownType DEF Update
<1>1. PICK k : /\ k[0] = c
               /\ \A n \in 1..Len(p) : k[n] = Shown(k[n-1], p[n])
               /\ ShownAll(c, p) = k[Len(p)]
  BY ShowRun
<1>2. PICK h : /\ h[0] = Shown(c, a)
               /\ \A n \in 1..Len(p) : h[n] = Shown(h[n-1], p[n])
               /\ ShownAll(Shown(c, a), p) = h[Len(p)]
  BY <1>0, ShowRun
<1>3. \A n \in 0..Len(p) : h[n] \in Canvas /\ (n # 0 => DOMAIN h[n] = 1..p[n].height)
  BY <1>0, <1>2, RunType
<1>4. \A n \in 0..Len(p) : k[n] \in Canvas /\ (n # 0 => DOMAIN k[n] = 1..p[n].height)
  BY <1>1, RunType
<1> DEFINE Right(n) == r \in DOMAIN k[n] =>
             \/ k[n][r] = Blank
             \/ k[n][r] = h[n][r]
             \/ r \in RowsOf(a) /\ r \in DOMAIN c /\ \A i \in 1..n : r \notin RowsOf(p[i])
           Good == {n \in 0..Len(p) : n # 0 => Right(n)}
<1>5. 0 \in Good
  BY <1>0
<1>6. ASSUME NEW n \in 1..Len(p), n - 1 \in Good
      PROVE  n \in Good
  <2>1. n \in 0..Len(p) /\ n - 1 \in 0..Len(p) /\ n # 0 /\ p[n] \in Update /\ (n - 1 # 0 => Right(n - 1))
    BY <1>6
  <2>2. SUFFICES ASSUME r \in DOMAIN k[n] PROVE Right(n)
    BY <2>1
  <2>3. DOMAIN h[n] = 1..p[n].height /\ DOMAIN k[n] = 1..p[n].height
    BY <1>3, <1>4, <2>1
  <2>4. h[n] = Shown(h[n-1], p[n]) /\ k[n] = Shown(k[n-1], p[n])
    BY <1>1, <1>2
  <2>5. h[n-1] \in Canvas /\ k[n-1] \in Canvas /\ r \in 1..p[n].height
    BY <1>3, <1>4, <2>1, <2>2, <2>3
  <2> HIDE DEF Good, Right
  <2>6. CASE r \in RowsOf(p[n])
    <3>1. h[n][r] = k[n][r]
      BY <2>1, <2>4, <2>5, <2>6, ShownAlike
    <3>2. QED
      BY <3>1 DEF Right
  <2>7. CASE r \notin RowsOf(p[n])
    <3>1. CASE k[n][r] = Blank
      BY <3>1 DEF Right
    <3>2. CASE DOMAIN k[n-1] = 1..p[n].height /\ k[n][r] = k[n-1][r] /\ n - 1 = 0
      <4>1. n = 1 /\ k[n-1] = c /\ h[n-1] = Shown(c, a) /\ r \in DOMAIN c
        <5>1. n - 1 = 0 /\ n = 1
          BY <3>2
        <5>2. k[n-1] = c /\ h[n-1] = Shown(c, a)
          BY <1>1, <1>2, <5>1
        <5>3. QED
          BY <2>5, <3>2, <5>1, <5>2
      <4>2. a.height = p[1].height
        BY <2>5, <2>7, <4>1 DEF SameSize, Whole
      <4>3. h[n][r] = Shown(c, a)[r]
        <5>1. DOMAIN h[n-1] = 1..p[n].height /\ h[n] = Shown(h[n-1], p[n])
          BY <1>0, <2>4, <4>1, <4>2
        <5>2. h[n][r] = h[n-1][r]
          BY <2>1, <2>5, <2>7, <5>1, ShownAlike
        <5>3. QED
          BY <4>1, <5>2
      <4>4. CASE r \in RowsOf(a)
        <5>1. \A i \in 1..n : r \notin RowsOf(p[i])
          BY <2>7, <4>1
        <5>2. QED
          BY <4>1, <4>4, <5>1 DEF Right
      <4>5. CASE r \notin RowsOf(a)
        <5>1. Shown(c, a)[r] = c[r]
          <6>1. DOMAIN c = 1..a.height /\ r \in 1..a.height
            BY <2>5, <3>2, <4>1, <4>2
          <6>2. QED
            BY <4>5, <6>1, ShownAlike
        <5>2. QED
          BY <3>2, <4>1, <4>3, <5>1 DEF Right
      <4>6. QED
        BY <4>4, <4>5
    <3>3. CASE DOMAIN k[n-1] = 1..p[n].height /\ k[n][r] = k[n-1][r] /\ n - 1 # 0
      <4>1. DOMAIN h[n-1] = 1..p[n].height
        BY <1>3, <1>4, <2>1, <3>3
      <4>2. h[n][r] = h[n-1][r]
        BY <2>1, <2>4, <2>5, <2>7, <4>1, ShownAlike
      <4>3. ASSUME \A i \in 1..n-1 : r \notin RowsOf(p[i])
            PROVE  \A i \in 1..n : r \notin RowsOf(p[i])
        <5>1. \A i \in 1..n : i \in 1..n-1 \/ i = n
          OBVIOUS
        <5>2. QED
          BY <2>7, <4>3, <5>1
      <4>4. QED
        BY <2>1, <2>5, <3>3, <4>2, <4>3 DEF Right
    <3>4. QED
      BY <2>1, <2>4, <2>5, <2>7, <3>1, <3>2, <3>3, ShownAlike
  <2>8. Right(n)
    BY <2>6, <2>7
  <2>9. QED
    BY <2>1, <2>8 DEF Good
<1> HIDE DEF Good
<1>7. 0..Len(p) \subseteq Good
  BY <1>0, <1>5, <1>6, UpTo
<1>8. Right(Len(p))
  BY <1>0, <1>7 DEF Good
<1>9. DOMAIN k[Len(p)] = DOMAIN h[Len(p)]
  BY <1>0, <1>3, <1>4
<1>10. QED
  BY <1>1, <1>2, <1>8, <1>9 DEF Brings

-----------------------------------------------------------------------------
(* What a canvas follows                                                    *)
(* No updates lead to any picture, from no canvas.                          *)
LEMMA EmptyFollows ==
  ASSUME NEW picture
  PROVE  LeadTo(<<>>, picture)
<1>1. NoFrame \in Canvas /\ DOMAIN NoFrame = {} /\ Len(<<>>) = 0
  BY DEF Canvas, NoFrame
<1>2. ShownAll(NoFrame, <<>>) = NoFrame
  BY <1>1, ShownAllEmpty
<1>3. QED
  BY <1>1, <1>2 DEF LeadTo, Follows

(* An update that is drawn on both ends keeps them alike.                   *)
LEMMA AppendFollows ==
  ASSUME NEW c \in Canvas, NEW p \in Seq(Update), NEW u \in Update, NEW picture \in Canvas, NEW lost,
         Whole(u) \/ DOMAIN picture = 1..u.height, Follows(c, p, picture, lost)
  PROVE  Follows(c, Append(p, u), Shown(picture, u), lost)
<1> DEFINE x == ShownAll(c, p)
           y == Shown(x, u)
           all == Append(p, u)
<1>1. x \in Canvas /\ ShownAll(c, all) = y
  BY ShownAllType, ShownAllAppend
<1>2. /\ DOMAIN y = 1..u.height /\ DOMAIN Shown(picture, u) = 1..u.height
      /\ Len(p) \in Nat /\ Len(all) = Len(p) + 1 /\ all[Len(p) + 1] = u
      /\ \A i \in 1..Len(p) : all[i] = p[i]
  BY <1>1, ShownType
<1>3. ASSUME NEW r \in 1..u.height
      PROVE  \/ r \in lost /\ ~ Brings(all, r)
             \/ y[r] = Blank
             \/ y[r] = Shown(picture, u)[r]
  <2>1. CASE r \in RowsOf(u)
    BY <1>1, <2>1, ShownAlike
  <2>2. CASE r \notin RowsOf(u) /\ DOMAIN x = 1..u.height
    <3>1. DOMAIN picture = 1..u.height
      BY <2>2 DEF Whole
    <3>2. y[r] = x[r] /\ Shown(picture, u)[r] = picture[r]
      BY <1>1, <2>2, <3>1, ShownAlike
    <3>3. CASE r \in lost /\ ~ Brings(p, r)
      <4>1. \A i \in 1..Len(all) : i \in 1..Len(p) \/ i = Len(p) + 1
        BY <1>2
      <4>2. ~ Brings(all, r)
        BY <1>2, <2>2, <3>3, <4>1 DEF Brings
      <4>3. QED
        BY <3>3, <4>2
    <3>4. x[r] = Blank \/ x[r] = picture[r] \/ (r \in lost /\ ~ Brings(p, r))
      BY <2>2 DEF Follows
    <3>5. QED
      BY <3>2, <3>3, <3>4
  <2>3. CASE r \notin RowsOf(u) /\ DOMAIN x # 1..u.height
    BY <1>1, <2>3, ShownAlike
  <2>4. QED
    BY <2>1, <2>2, <2>3
<1> HIDE DEF x, y, all
<1>4. Follows(c, all, Shown(picture, u), lost)
  BY <1>1, <1>2, <1>3 DEF Follows
<1>5. QED
  BY <1>4 DEF all

(* An update that is drawn on the picture too leads to the picture it makes.*)
LEMMA AppendLeads ==
  ASSUME NEW p \in Seq(Update), NEW u \in Update, NEW picture \in Canvas,
         Whole(u) \/ DOMAIN picture = 1..u.height, LeadTo(p, picture)
  PROVE  LeadTo(Append(p, u), Shown(picture, u))
<1> DEFINE all == Append(p, u)
<1>0. NoFrame \in Canvas
  BY DEF Canvas
<1>1. Follows(NoFrame, all, Shown(picture, u), {})
  BY <1>0, AppendFollows DEF LeadTo
<1>2. /\ Len(p) \in Nat /\ Len(all) = Len(p) + 1 /\ all[Len(p) + 1] = u /\ all # <<>>
      /\ \A i \in 1..Len(p) : all[i] = p[i]
      /\ DOMAIN Shown(picture, u) = 1..u.height /\ u.height \in Nat
  BY ShownType, Heighted DEF Update
<1>3. ASSUME NEW i \in 2..Len(all)
      PROVE  SameSize(all[i-1], all[i])
  <2>1. CASE i \in 2..Len(p)
    <3>1. i - 1 \in 1..Len(p) /\ i \in 1..Len(p)
      BY <1>2, <2>1
    <3>2. QED
      BY <1>2, <2>1, <3>1 DEF LeadTo
  <2>2. CASE i = Len(p) + 1
    <3>1. Len(p) \in 1..Len(p) /\ i - 1 = Len(p) /\ p # <<>>
      BY <1>2, <2>2
    <3>2. all[i-1] = p[Len(p)] /\ all[i] = u
      BY <1>2, <2>2, <3>1
    <3>3. DOMAIN picture = 1..p[Len(p)].height
      BY <3>1 DEF LeadTo
    <3>4. p[Len(p)].height \in Nat
      <4>1. p[Len(p)] \in Update
        BY <3>1
      <4>2. p[Len(p)].height \in Heights
        BY <4>1 DEF Update
      <4>3. QED
        BY <4>2, Heighted
    <3>5. ASSUME NEW m \in Nat, NEW n \in Nat, 1..m = 1..n
          PROVE  m = n
      <4>1. m <= n
        <5>1. m # 0 => m \in 1..n
          BY <3>5
        <5>2. QED
          BY <5>1
      <4>2. n <= m
        <5>1. n # 0 => n \in 1..m
          BY <3>5
        <5>2. QED
          BY <5>1
      <4>3. QED
        BY <4>1, <4>2
    <3>6. DOMAIN picture = 1..u.height => u.height = p[Len(p)].height
      BY <1>2, <3>3, <3>4, <3>5
    <3>7. QED
      BY <3>2, <3>6 DEF SameSize
  <2>3. QED
    BY <1>2, <2>1, <2>2
<1> HIDE DEF all
<1>4. LeadTo(all, Shown(picture, u))
  BY <1>1, <1>2, <1>3 DEF LeadTo
<1>5. QED
  BY <1>4 DEF all

(* Tail and Head, and what the first update brings.                         *)
LEMMA TailOf ==
  ASSUME NEW p \in Seq(Update), p # <<>>
  PROVE  /\ Tail(p) \in Seq(Update) /\ p[1] \in Update /\ Head(p) = p[1]
         /\ Len(p) \in Nat \ {0} /\ Len(Tail(p)) = Len(p) - 1
         /\ \A i \in 1..Len(Tail(p)) : Tail(p)[i] = p[i+1]
         /\ \A r : Brings(p, r) <=> r \in RowsOf(p[1]) \/ Brings(Tail(p), r)
<1> DEFINE q == Tail(p)
<1>1. /\ q \in Seq(Update) /\ p[1] \in Update /\ Head(p) = p[1]
      /\ Len(p) \in Nat \ {0} /\ Len(q) = Len(p) - 1
      /\ \A i \in 1..Len(q) : q[i] = p[i+1]
  OBVIOUS
<1> HIDE DEF q
<1>2. \A i \in 1..Len(p) : i = 1 \/ (i - 1 \in 1..Len(q) /\ (i - 1) + 1 = i)
  BY <1>1
<1>3. \A i \in 1..Len(p) : i = 1 \/ (i - 1 \in 1..Len(q) /\ p[i] = q[i-1])
  BY <1>1, <1>2
<1>4. 1 \in 1..Len(p) /\ \A i \in 1..Len(q) : i + 1 \in 1..Len(p) /\ q[i] = p[i+1]
  BY <1>1
<1>5. ASSUME NEW r
      PROVE  Brings(p, r) <=> r \in RowsOf(p[1]) \/ Brings(q, r)
  BY <1>3, <1>4 DEF Brings
<1>6. QED
  BY <1>1, <1>5 DEF q

(* The oldest update lost: its rows are what may lag behind.                *)
LEMMA DropFollows ==
  ASSUME NEW c \in Canvas, NEW p \in Seq(Update), p # <<>>, Tail(p) # <<>>, NEW picture \in Canvas,
         NEW lost, Follows(c, p, picture, lost), SameSize(p[1], Tail(p)[1])
  PROVE  /\ Follows(c, Tail(p), picture, lost \cup RowsOf(p[1]))
         /\ c = NoFrame => Follows(c, Tail(p), picture, lost)
<1> DEFINE q == Tail(p)
           x == ShownAll(c, p)
           y == ShownAll(c, q)
<1>1. q \in Seq(Update) /\ q # <<>> /\ p[1] \in Update /\ \A r : Brings(q, r) => Brings(p, r)
  BY TailOf
<1>2. x = ShownAll(Shown(c, p[1]), q)
  BY ShownAllHead
<1> HIDE DEF q, x, y
<1>3. ASSUME NEW r \in DOMAIN y
      PROVE  /\ DOMAIN y = DOMAIN x
             /\ \/ y[r] = Blank
                \/ y[r] = x[r]
                \/ r \in RowsOf(p[1]) /\ ~ Brings(q, r) /\ r \in DOMAIN c
  <2>1. SameSize(p[1], q[1])
    BY DEF q
  <2>2. QED
    BY <1>1, <1>2, <2>1, LeftOut DEF y
<1>4. ASSUME NEW r \in DOMAIN y
      PROVE  \/ r \in lost /\ ~ Brings(q, r)
             \/ r \in RowsOf(p[1]) /\ ~ Brings(q, r) /\ r \in DOMAIN c
             \/ y[r] = Blank
             \/ r \in DOMAIN picture /\ y[r] = picture[r]
  <2>1. \/ r \in lost /\ ~ Brings(p, r)
        \/ x[r] = Blank
        \/ r \in DOMAIN picture /\ x[r] = picture[r]
    BY <1>3 DEF Follows, x
  <2>2. QED
    BY <1>1, <1>3, <2>1
<1>5. Follows(c, q, picture, lost \cup RowsOf(p[1]))
  BY <1>4 DEF Follows, y
<1>6. c = NoFrame => Follows(c, q, picture, lost)
  BY <1>4 DEF Follows, y, NoFrame
<1>7. QED
  BY <1>5, <1>6 DEF q

(* Without the first the others still lead to the picture.                  *)
LEMMA TailLeads ==
  ASSUME NEW p \in Seq(Update), p # <<>>, NEW picture \in Canvas, LeadTo(p, picture)
  PROVE  /\ LeadTo(Tail(p), picture)
         /\ Tail(p) # <<>> => SameSize(p[1], Tail(p)[1])
<1>1. CASE Tail(p) = <<>>
  BY <1>1, EmptyFollows
<1>2. CASE Tail(p) # <<>>
  <2> DEFINE q == Tail(p)
  <2>1. /\ q \in Seq(Update) /\ Len(p) \in Nat /\ Len(q) = Len(p) - 1 /\ Len(q) \in Nat \ {0}
        /\ \A i \in 1..Len(q) : q[i] = p[i+1]
    BY <1>2, TailOf
  <2>2. NoFrame \in Canvas
    BY DEF Canvas
  <2> HIDE DEF q
  <2>3. SameSize(p[1], q[1])
    <3>1. 2 \in 2..Len(p) /\ 2 - 1 = 1 /\ q[1] = p[2]
      BY <2>1
    <3>2. QED
      BY <3>1 DEF LeadTo
  <2>4. Follows(NoFrame, q, picture, {})
    <3>1. Follows(NoFrame, p, picture, {})
      BY DEF LeadTo
    <3>2. QED
      BY <1>2, <2>2, <2>3, <3>1, DropFollows DEF q
  <2>5. DOMAIN picture = 1..q[Len(q)].height
    <3>1. q[Len(q)] = p[Len(p)]
      BY <2>1
    <3>2. QED
      BY <3>1 DEF LeadTo
  <2>6. ASSUME NEW i \in 2..Len(q)
        PROVE  SameSize(q[i-1], q[i])
    <3>1. i + 1 \in 2..Len(p) /\ (i + 1) - 1 = i /\ i \in 1..Len(q) /\ i - 1 \in 1..Len(q) /\ (i - 1) + 1 = i
      BY <2>1
    <3>2. SameSize(p[i], p[i+1])
      BY <3>1 DEF LeadTo
    <3>3. q[i-1] = p[i] /\ q[i] = p[i+1]
      BY <2>1, <3>1
    <3>4. QED
      BY <3>2, <3>3
  <2>7. LeadTo(q, picture)
    BY <2>4, <2>5, <2>6 DEF LeadTo
  <2>8. QED
    BY <2>3, <2>7 DEF q
<1>3. QED
  BY <1>1, <1>2

(* The oldest update relayed: it brings its rows, and the rest follows.     *)
LEMMA RelayFollows ==
  ASSUME NEW c \in Canvas, NEW p \in Seq(Update), p # <<>>, NEW picture, NEW lost,
         Follows(c, p, picture, lost)
  PROVE  Follows(Shown(c, p[1]), Tail(p), picture, lost \ RowsOf(p[1]))
<1>1. ShownAll(Shown(c, p[1]), Tail(p)) = ShownAll(c, p)
  BY ShownAllHead
<1>2. \A r : Brings(p, r) <=> r \in RowsOf(p[1]) \/ Brings(Tail(p), r)
  BY TailOf
<1>3. QED
  BY <1>1, <1>2 DEF Follows

(* A canvas that is right already, but for what is lost, stays so.          *)
LEMMA JoinFollows ==
  ASSUME NEW c \in Canvas, NEW p \in Seq(Update), NEW picture, NEW lost, LeadTo(p, picture),
         \A r \in DOMAIN c : r \in lost \/ c[r] = Blank \/ (r \in DOMAIN picture /\ c[r] = picture[r])
  PROVE  Follows(c, p, picture, lost)
<1>1. SUFFICES ASSUME NEW r \in DOMAIN ShownAll(c, p)
               PROVE  \/ r \in lost /\ ~ Brings(p, r)
                      \/ ShownAll(c, p)[r] = Blank
                      \/ r \in DOMAIN picture /\ ShownAll(c, p)[r] = picture[r]
  BY DEF Follows
<1>2. \/ r \in DOMAIN ShownAll(NoFrame, p) /\ ShownAll(c, p)[r] = ShownAll(NoFrame, p)[r]
      \/ ShownAll(c, p)[r] = Blank
      \/ ~ Brings(p, r) /\ r \in DOMAIN c /\ ShownAll(c, p)[r] = c[r]
  BY Over
<1>3. Follows(NoFrame, p, picture, {})
  BY DEF LeadTo
<1>4. QED
  BY <1>2, <1>3 DEF Follows

-----------------------------------------------------------------------------
(* A page that decodes: the canvas c once the tiles d are drawn in the order *)
(* they arrived.                                                            *)
Ends(c, d) == FoldLeft(Painted, c, d)

(* The empty canvas is the only one without rows.                           *)
LEMMA CanvasShape ==
  ASSUME NEW c \in Canvas
  PROVE  /\ c \in [DOMAIN c -> Pixel \cup {Blank}]
         /\ \A b \in [DOMAIN c -> Pixel \cup {Blank}] : b \in Canvas
         /\ DOMAIN c \subseteq Rows
<1>1. CASE c = NoFrame
  <2>1. DOMAIN c = {} /\ c \in [{} -> Pixel \cup {Blank}]
    BY <1>1 DEF NoFrame
  <2>2. \A b \in [{} -> Pixel \cup {Blank}] : b = <<>>
    OBVIOUS
  <2>3. QED
    BY <2>1, <2>2 DEF NoFrame, Canvas
<1>2. CASE c # NoFrame
  <2>1. PICK n \in Heights : c \in [1..n -> Pixel \cup {Blank}]
    BY <1>2 DEF Canvas
  <2>2. DOMAIN c = 1..n /\ 1..n \subseteq Rows
    BY <2>1, Heighted
  <2>3. QED
    BY <2>1, <2>2 DEF Canvas
<1>3. QED
  BY <1>1, <1>2

(* Each row ends with the last tile that has it, or with what it shows.     *)
LEMMA DecodedAll ==
  ASSUME NEW c \in Canvas, NEW d \in Seq(Region)
  PROVE  /\ Ends(c, d) \in Canvas /\ DOMAIN Ends(c, d) = DOMAIN c
         /\ \A r \in DOMAIN c :
              \/ NoneAt(d, Len(d), r) /\ Ends(c, d)[r] = c[r]
              \/ \E i \in 1..Len(d) : LastAt(d, Len(d), r, i) /\ Ends(c, d)[r] = d[i][r]
<1> DEFINE D == DOMAIN c
<1>1. c \in [D -> Pixel \cup {Blank}] /\ \A b \in [D -> Pixel \cup {Blank}] : b \in Canvas
  BY CanvasShape
<1> HIDE DEF D
<1>2. /\ Ends(c, d) \in [D -> Pixel \cup {Blank}]
      /\ \A r \in D :
           \/ NoneAt(d, Len(d), r) /\ Ends(c, d)[r] = c[r]
           \/ \E i \in 1..Len(d) : LastAt(d, Len(d), r, i) /\ Ends(c, d)[r] = d[i][r]
  BY <1>1, PaintedAll DEF Ends
<1>3. QED
  BY <1>1, <1>2 DEF D

(* Nothing to decode.                                                       *)
LEMMA DecodedNone ==
  ASSUME NEW c \in Canvas
  PROVE  Ends(c, <<>>) = c
<1>1. <<>> \in Seq(Region) /\ Len(<<>>) = 0
  OBVIOUS
<1>2. c \in [DOMAIN c -> Pixel \cup {Blank}]
  BY CanvasShape
<1>3. QED
  BY <1>1, <1>2, PaintRun DEF Ends

(* A row is in a sequence of regions if one of them has it.                 *)
LEMMA RowsInAre ==
  ASSUME NEW d \in Seq(Region)
  PROVE  /\ RowsIn(d) \subseteq Rows
         /\ \A r : r \in RowsIn(d) <=> \E i \in 1..Len(d) : r \in DOMAIN d[i]
<1>1. DOMAIN d = 1..Len(d)
  OBVIOUS
<1>2. ASSUME NEW i \in 1..Len(d) PROVE DOMAIN d[i] \subseteq Rows
  <2>1. d[i] \in Region
    OBVIOUS
  <2>2. PICK rows \in Runs : d[i] \in [rows -> Pixel]
    BY <2>1 DEF Region
  <2>3. QED
    BY <2>2 DEF Runs
<1>3. QED
  BY <1>1, <1>2 DEF RowsIn

(* An update that arrives comes to the same as if all were drawn before it, *)
(* but for the rows of tiles cut for a canvas of another size.              *)
LEMMA ReceivedAll ==
  ASSUME NEW c \in Canvas, NEW d \in Seq(Region), NEW u \in Update
  PROVE  /\ Fitted(c, u.height) \in Canvas /\ d \o u.regions \in Seq(Region)
         /\ Ends(Fitted(c, u.height), d \o u.regions) \in Canvas
         /\ DOMAIN Ends(Fitted(c, u.height), d \o u.regions) = 1..u.height
         /\ \A r \in 1..u.height :
              \/ r \notin RowsOf(u) /\ r \in RowsIn(d) /\ DOMAIN c # 1..u.height
              \/ Ends(Fitted(c, u.height), d \o u.regions)[r] = Shown(Ends(c, d), u)[r]
<1> DEFINE n == u.height
           f == Fitted(c, n)
           g == u.regions
           e == d \o g
           x == Ends(c, d)
<1>1. n \in Heights /\ g \in Seq(Region)
  BY DEF Update
<1>2. /\ e \in Seq(Region) /\ Len(e) = Len(d) + Len(g) /\ Len(d) \in Nat /\ Len(g) \in Nat
      /\ \A i \in 1..Len(d) : e[i] = d[i] /\ i \in 1..Len(e)
      /\ \A i \in 1..Len(g) : e[Len(d) + i] = g[i] /\ Len(d) + i \in 1..Len(e)
      /\ \A k \in 1..Len(e) : k > Len(d) => k - Len(d) \in 1..Len(g) /\ e[k] = g[k - Len(d)]
  BY <1>1
<1>3. f \in [1..n -> Pixel \cup {Blank}] /\ f \in Canvas /\ DOMAIN f = 1..n
  <2>1. f \in [1..n -> Pixel \cup {Blank}]
    BY <1>1, FittedType
  <2>2. QED
    BY <1>1, <2>1 DEF Canvas
<1>4. x \in Canvas /\ DOMAIN x = DOMAIN c
  BY DecodedAll
<1> HIDE DEF n, f, g, e, x
<1>5. /\ Ends(f, e) \in Canvas /\ DOMAIN Ends(f, e) = 1..n
      /\ \A r \in 1..n :
           \/ NoneAt(e, Len(e), r) /\ Ends(f, e)[r] = f[r]
           \/ \E i \in 1..Len(e) : LastAt(e, Len(e), r, i) /\ Ends(f, e)[r] = e[i][r]
  <2>1. e \in Seq(Region)
    BY <1>2
  <2>2. /\ Ends(f, e) \in Canvas /\ DOMAIN Ends(f, e) = DOMAIN f
        /\ \A r \in DOMAIN f :
             \/ NoneAt(e, Len(e), r) /\ Ends(f, e)[r] = f[r]
             \/ \E i \in 1..Len(e) : LastAt(e, Len(e), r, i) /\ Ends(f, e)[r] = e[i][r]
    BY <1>3, <2>1, DecodedAll
  <2>3. QED
    BY <1>3, <2>2
<1>6. \A r : r \in RowsOf(u) <=> \E i \in 1..Len(g) : r \in DOMAIN g[i]
  BY <1>1, RowsInAre DEF RowsOf, g
<1>7. ASSUME NEW r \in 1..n, r \in RowsOf(u)
      PROVE  Ends(f, e)[r] = Shown(x, u)[r]
  <2>1. PICK i \in 1..Len(g) : LastAt(g, Len(g), r, i) /\ Shown(x, u)[r] = g[i][r]
    BY <1>4, <1>7, ShownRows DEF n, g
  <2>2. r \in DOMAIN e[Len(d) + i] /\ Len(d) + i \in 1..Len(e)
    BY <1>2, <2>1 DEF LastAt
  <2>3. PICK k \in 1..Len(e) : LastAt(e, Len(e), r, k) /\ Ends(f, e)[r] = e[k][r]
    BY <1>5, <2>2 DEF NoneAt
  <2>4. k >= Len(d) + i
    BY <1>2, <2>2, <2>3 DEF LastAt
  <2>5. k - Len(d) \in 1..Len(g) /\ e[k] = g[k - Len(d)] /\ k - Len(d) >= i
    BY <1>2, <2>1, <2>4
  <2>6. ~ (k - Len(d) > i)
    <3>1. r \in DOMAIN g[k - Len(d)]
      BY <2>3, <2>5 DEF LastAt
    <3>2. \A j \in i+1..Len(g) : r \notin DOMAIN g[j]
      BY <2>1 DEF LastAt
    <3>3. QED
      BY <1>2, <2>5, <3>1, <3>2
  <2>7. k - Len(d) = i
    <3>1. k - Len(d) \in Nat /\ i \in Nat
      BY <1>2, <2>5
    <3>2. QED
      BY <2>5, <2>6, <3>1
  <2>8. QED
    BY <2>1, <2>3, <2>5, <2>7
<1>8. ASSUME NEW r \in 1..n, r \notin RowsOf(u)
      PROVE  Shown(x, u)[r] = Fitted(x, n)[r] /\ \A i \in 1..Len(g) : r \notin DOMAIN g[i]
  BY <1>4, <1>6, <1>8, ShownRows DEF n
<1>9. ASSUME NEW r \in 1..n, r \notin RowsOf(u), DOMAIN c = 1..n
      PROVE  Ends(f, e)[r] = Shown(x, u)[r]
  <2>1. f = c /\ Fitted(x, n) = x
    BY <1>1, <1>4, <1>9, FittedType DEF f
  <2>2. \/ NoneAt(d, Len(d), r) /\ x[r] = c[r]
        \/ \E i \in 1..Len(d) : LastAt(d, Len(d), r, i) /\ x[r] = d[i][r]
    BY <1>9, DecodedAll DEF x
  <2>3. CASE NoneAt(e, Len(e), r) /\ Ends(f, e)[r] = f[r]
    <3>1. NoneAt(d, Len(d), r)
      BY <1>2, <2>3 DEF NoneAt
    <3>2. x[r] = c[r]
      BY <2>2, <3>1 DEF NoneAt, LastAt
    <3>3. QED
      BY <1>8, <1>9, <2>1, <2>3, <3>2
  <2>4. ASSUME NEW k \in 1..Len(e), LastAt(e, Len(e), r, k), Ends(f, e)[r] = e[k][r]
        PROVE  Ends(f, e)[r] = x[r]
    <3>1. k \in 1..Len(d)
      BY <1>2, <1>8, <1>9, <2>4 DEF LastAt
    <3>2. LastAt(d, Len(d), r, k)
      BY <1>2, <2>4, <3>1 DEF LastAt
    <3>3. PICK i \in 1..Len(d) : LastAt(d, Len(d), r, i) /\ x[r] = d[i][r]
      BY <2>2, <3>2 DEF LastAt, NoneAt
    <3>4. i = k
      BY <1>2, <3>2, <3>3 DEF LastAt
    <3>5. QED
      BY <1>2, <2>4, <3>1, <3>3, <3>4
  <2>5. QED
    BY <1>5, <1>8, <1>9, <2>1, <2>3, <2>4
<1>10. ASSUME NEW r \in 1..n, r \notin RowsOf(u), r \notin RowsIn(d), DOMAIN c # 1..n
       PROVE  Ends(f, e)[r] = Shown(x, u)[r]
  <2>1. f[r] = Blank /\ Fitted(x, n)[r] = Blank
    BY <1>1, <1>4, <1>10, FittedType DEF f
  <2>2. \A i \in 1..Len(d) : r \notin DOMAIN d[i]
    BY <1>10, RowsInAre
  <2>3. ASSUME NEW k \in 1..Len(e) PROVE r \notin DOMAIN e[k]
    <3>1. CASE k \in 1..Len(d)
      BY <1>2, <2>2, <3>1
    <3>2. CASE k > Len(d)
      BY <1>2, <1>8, <1>10, <3>2
    <3>3. k \in 1..Len(d) \/ k > Len(d)
      BY <1>2
    <3>4. QED
      BY <3>1, <3>2, <3>3
  <2>4. Ends(f, e)[r] = f[r]
    BY <1>5, <2>3 DEF LastAt
  <2>5. QED
    BY <1>8, <1>10, <2>1, <2>4
<1>11. QED
  BY <1>2, <1>3, <1>5, <1>7, <1>9, <1>10 DEF n, f, g, e, x

(* A tile drawn out of turn changes what the page ends with only in the     *)
(* rows it is overtaken in.                                                 *)
LEMMA DrawnAll ==
  ASSUME NEW c \in Canvas, NEW d \in Seq(Region), NEW i \in 1..Len(d)
  PROVE  /\ Painted(c, d[i]) \in Canvas
         /\ RemoveAt(d, i) \in Seq(Region) /\ Len(RemoveAt(d, i)) = Len(d) - 1
         /\ DOMAIN Ends(Painted(c, d[i]), RemoveAt(d, i)) = DOMAIN c
         /\ \A r \in DOMAIN c :
              r \in Overtaken(d, i) \/ Ends(Painted(c, d[i]), RemoveAt(d, i))[r] = Ends(c, d)[r]
<1> DEFINE e == RemoveAt(d, i)
           b == Painted(c, d[i])
<1>1. /\ e \in Seq(Region) /\ Len(e) = Len(d) - 1 /\ Len(d) \in Nat /\ i \in Nat /\ d[i] \in Region
      /\ \A j \in 1..i-1 : e[j] = d[j] /\ j \in 1..Len(e) /\ j \in 1..Len(d)
      /\ \A j \in i+1..Len(d) : e[j-1] = d[j] /\ j - 1 \in i..Len(e) /\ j \in 1..Len(d)
      /\ \A j \in 1..Len(e) : j < i => e[j] = d[j] /\ j \in 1..i-1
      /\ \A j \in 1..Len(e) : j >= i => e[j] = d[j+1] /\ j + 1 \in i+1..Len(d)
  <2>1. /\ SubSeq(d, 1, i-1) \in Seq(Region) /\ SubSeq(d, i+1, Len(d)) \in Seq(Region)
        /\ Len(SubSeq(d, 1, i-1)) = i - 1 /\ Len(SubSeq(d, i+1, Len(d))) = Len(d) - i
        /\ \A j \in 1..i-1 : SubSeq(d, 1, i-1)[j] = d[j]
        /\ \A j \in 1..Len(d)-i : SubSeq(d, i+1, Len(d))[j] = d[i+j]
    OBVIOUS
  <2>2. e = SubSeq(d, 1, i-1) \o SubSeq(d, i+1, Len(d))
    BY DEF RemoveAt
  <2>3. /\ e \in Seq(Region) /\ Len(e) = Len(d) - 1
        /\ \A j \in 1..i-1 : e[j] = d[j]
        /\ \A j \in i..Len(d)-1 : e[j] = d[j+1]
    <3>1. ASSUME NEW s \in Seq(Region), NEW t \in Seq(Region), Len(s) = i - 1, Len(t) = Len(d) - i
          PROVE  /\ s \o t \in Seq(Region) /\ Len(s \o t) = Len(d) - 1
                 /\ \A j \in 1..i-1 : (s \o t)[j] = s[j]
                 /\ \A j \in i..Len(d)-1 : (s \o t)[j] = t[j+1-i] /\ j + 1 - i \in 1..Len(d)-i
      BY <3>1
    <3>2. \A j \in i..Len(d)-1 : i + (j + 1 - i) = j + 1
      OBVIOUS
    <3> DEFINE s == SubSeq(d, 1, i-1)
               t == SubSeq(d, i+1, Len(d))
    <3> HIDE DEF s, t, e
    <3>3. /\ s \in Seq(Region) /\ t \in Seq(Region) /\ Len(s) = i - 1 /\ Len(t) = Len(d) - i /\ e = s \o t
          /\ \A j \in 1..i-1 : s[j] = d[j]
          /\ \A j \in 1..Len(d)-i : t[j] = d[i+j]
      BY <2>1, <2>2 DEF s, t
    <3>4. /\ e \in Seq(Region) /\ Len(e) = Len(d) - 1
          /\ \A j \in 1..i-1 : e[j] = s[j]
          /\ \A j \in i..Len(d)-1 : e[j] = t[j+1-i] /\ j + 1 - i \in 1..Len(d)-i
      BY <3>1, <3>3
    <3>5. QED
      BY <3>2, <3>3, <3>4
  <2>4. QED
    BY <2>3
<1>2. /\ b \in Canvas /\ DOMAIN b = DOMAIN c
      /\ \A r \in DOMAIN c : b[r] = IF r \in DOMAIN d[i] THEN d[i][r] ELSE c[r]
  <2>1. b \in [DOMAIN c -> Pixel \cup {Blank}]
    BY <1>1, CanvasShape, RegionIsPart DEF Painted
  <2>2. b \in Canvas
    BY <2>1, CanvasShape
  <2>3. QED
    BY <2>1, <2>2 DEF Painted
<1> HIDE DEF e, b
<1>3. /\ DOMAIN Ends(b, e) = DOMAIN c
      /\ \A r \in DOMAIN c :
           \/ NoneAt(e, Len(e), r) /\ Ends(b, e)[r] = b[r]
           \/ \E j \in 1..Len(e) : LastAt(e, Len(e), r, j) /\ Ends(b, e)[r] = e[j][r]
  BY <1>1, <1>2, DecodedAll
<1>4. \A r \in DOMAIN c :
        \/ NoneAt(d, Len(d), r) /\ Ends(c, d)[r] = c[r]
        \/ \E j \in 1..Len(d) : LastAt(d, Len(d), r, j) /\ Ends(c, d)[r] = d[j][r]
  BY DecodedAll
<1>5. ASSUME NEW r \in DOMAIN c, NEW k \in i+1..Len(d), r \in DOMAIN d[k]
      PROVE  Ends(b, e)[r] = Ends(c, d)[r]
  <2>1. PICK j \in 1..Len(d) : LastAt(d, Len(d), r, j) /\ Ends(c, d)[r] = d[j][r]
    BY <1>1, <1>4, <1>5 DEF NoneAt
  <2>2. j >= k /\ j \in i+1..Len(d) /\ r \in DOMAIN d[j] /\ \A l \in j+1..Len(d) : r \notin DOMAIN d[l]
    BY <1>1, <1>5, <2>1 DEF LastAt
  <2>3. e[j-1] = d[j] /\ j - 1 \in 1..Len(e) /\ j \in Nat
    BY <1>1, <2>2
  <2>4. PICK m \in 1..Len(e) : LastAt(e, Len(e), r, m) /\ Ends(b, e)[r] = e[m][r]
    BY <1>3, <2>2, <2>3 DEF NoneAt
  <2>5. m >= j - 1
    BY <1>1, <2>2, <2>3, <2>4 DEF LastAt
  <2>6. e[m] = d[m+1] /\ m + 1 \in i+1..Len(d) /\ r \in DOMAIN d[m+1]
    BY <1>1, <2>2, <2>4, <2>5 DEF LastAt
  <2>7. m = j - 1
    BY <1>1, <2>2, <2>3, <2>5, <2>6
  <2>8. QED
    BY <2>1, <2>3, <2>4, <2>7
<1>6. ASSUME NEW r \in DOMAIN c, r \notin Overtaken(d, i), r \in DOMAIN d[i],
             \A k \in i+1..Len(d) : r \notin DOMAIN d[k]
      PROVE  Ends(b, e)[r] = Ends(c, d)[r]
  <2>1. \A j \in 1..i-1 : r \notin DOMAIN d[j]
    BY <1>6 DEF Overtaken
  <2>2. ASSUME NEW j \in 1..Len(e) PROVE r \notin DOMAIN e[j]
    <3>1. CASE j < i
      BY <1>1, <2>1, <3>1
    <3>2. CASE j >= i
      BY <1>1, <1>6, <3>2
    <3>3. QED
      BY <1>1, <3>1, <3>2
  <2>3. Ends(b, e)[r] = d[i][r]
    BY <1>2, <1>3, <1>6, <2>2 DEF LastAt
  <2>4. PICK j \in 1..Len(d) : LastAt(d, Len(d), r, j) /\ Ends(c, d)[r] = d[j][r]
    BY <1>4, <1>6 DEF NoneAt
  <2>5. ~ (j < i) /\ ~ (j > i)
    BY <1>1, <1>6, <2>4 DEF LastAt
  <2>6. j = i
    BY <1>1, <2>5
  <2>7. QED
    BY <2>3, <2>4, <2>6
<1>7. ASSUME NEW r \in DOMAIN c, r \notin DOMAIN d[i], \A k \in i+1..Len(d) : r \notin DOMAIN d[k]
      PROVE  Ends(b, e)[r] = Ends(c, d)[r]
  <2>1. ASSUME NEW j \in 1..Len(e), r \in DOMAIN e[j] PROVE j \in 1..i-1 /\ e[j] = d[j]
    BY <1>1, <1>7, <2>1
  <2>2. CASE NoneAt(d, Len(d), r) /\ Ends(c, d)[r] = c[r]
    <3>1. \A j \in 1..Len(e) : r \notin DOMAIN e[j]
      BY <1>1, <2>1, <2>2 DEF NoneAt
    <3>2. QED
      BY <1>2, <1>3, <1>7, <2>2, <3>1 DEF LastAt
  <2>3. ASSUME NEW j \in 1..Len(d), LastAt(d, Len(d), r, j), Ends(c, d)[r] = d[j][r]
        PROVE  Ends(b, e)[r] = Ends(c, d)[r]
    <3>1. j \in 1..i-1 /\ r \in DOMAIN d[j] /\ \A l \in j+1..Len(d) : r \notin DOMAIN d[l]
      BY <1>1, <1>7, <2>3 DEF LastAt
    <3>2. e[j] = d[j] /\ j \in 1..Len(e)
      BY <1>1, <3>1
    <3>3. PICK m \in 1..Len(e) : LastAt(e, Len(e), r, m) /\ Ends(b, e)[r] = e[m][r]
      BY <1>3, <3>1, <3>2 DEF NoneAt
    <3>4. m >= j /\ r \in DOMAIN e[m]
      BY <1>1, <3>1, <3>2, <3>3 DEF LastAt
    <3>5. m = j
      BY <1>1, <2>1, <3>1, <3>4
    <3>6. QED
      BY <2>3, <3>2, <3>3, <3>5
  <2>4. QED
    BY <1>4, <2>2, <2>3
<1>8. QED
  BY <1>1, <1>2, <1>3, <1>5, <1>6, <1>7 DEF e, b

(* Two canvases of one size that differ in the rows of more: so do they     *)
(* once updates are drawn on both, in rows that none of these brings.       *)
LEMMA AlikeFollows ==
  ASSUME NEW c \in Canvas, NEW d \in Canvas, DOMAIN d = DOMAIN c, NEW more,
         \A r \in DOMAIN c : r \in more \/ d[r] = c[r],
         NEW p \in Seq(Update), NEW picture, NEW lost, Follows(c, p, picture, lost)
  PROVE  Follows(d, p, picture, lost \cup more)
<1>0. Len(p) \in Nat
  OBVIOUS
<1>1. PICK h : /\ h[0] = c
               /\ \A n \in 1..Len(p) : h[n] = Shown(h[n-1], p[n])
               /\ ShownAll(c, p) = h[Len(p)]
  BY ShowRun
<1>2. PICK k : /\ k[0] = d
               /\ \A n \in 1..Len(p) : k[n] = Shown(k[n-1], p[n])
               /\ ShownAll(d, p) = k[Len(p)]
  BY ShowRun
<1>3. \A n \in 0..Len(p) : h[n] \in Canvas /\ (n # 0 => DOMAIN h[n] = 1..p[n].height)
  BY <1>1, RunType
<1>4. \A n \in 0..Len(p) : k[n] \in Canvas /\ (n # 0 => DOMAIN k[n] = 1..p[n].height)
  BY <1>2, RunType
<1>5. \A n \in 0..Len(p) : DOMAIN k[n] = DOMAIN h[n]
  BY <1>1, <1>2, <1>3, <1>4
<1> DEFINE Right(n) == \A r \in DOMAIN h[n] :
             k[n][r] = h[n][r] \/ (r \in more /\ \A i \in 1..n : r \notin RowsOf(p[i]))
           Good == {n \in 0..Len(p) : Right(n)}
<1>6. 0 \in Good
  BY <1>0, <1>1, <1>2
<1>7. ASSUME NEW n \in 1..Len(p), n - 1 \in Good
      PROVE  n \in Good
  <2>1. Right(n - 1) /\ n \in 0..Len(p) /\ n - 1 \in 0..Len(p) /\ n # 0 /\ p[n] \in Update
    BY <1>7
  <2>2. SUFFICES ASSUME NEW r \in DOMAIN h[n]
                 PROVE  k[n][r] = h[n][r] \/ (r \in more /\ \A i \in 1..n : r \notin RowsOf(p[i]))
    BY <2>1
  <2>3. /\ h[n] = Shown(h[n-1], p[n]) /\ k[n] = Shown(k[n-1], p[n])
        /\ h[n-1] \in Canvas /\ k[n-1] \in Canvas /\ r \in 1..p[n].height
        /\ DOMAIN k[n-1] = DOMAIN h[n-1]
    BY <1>1, <1>2, <1>3, <1>4, <1>5, <2>1, <2>2
  <2>4. CASE r \in RowsOf(p[n])
    BY <2>1, <2>3, <2>4, ShownAlike
  <2>5. CASE r \notin RowsOf(p[n]) /\ DOMAIN h[n-1] # 1..p[n].height
    BY <2>1, <2>3, <2>5, ShownAlike
  <2>6. CASE r \notin RowsOf(p[n]) /\ DOMAIN h[n-1] = 1..p[n].height
    <3>1. k[n][r] = k[n-1][r] /\ h[n][r] = h[n-1][r] /\ r \in DOMAIN h[n-1]
      BY <2>1, <2>3, <2>6, ShownAlike
    <3>2. \A i \in 1..n : i \in 1..n-1 \/ i = n
      OBVIOUS
    <3>3. QED
      BY <2>1, <2>6, <3>1, <3>2
  <2>7. QED
    BY <2>4, <2>5, <2>6
<1> HIDE DEF Right
<1> HIDE DEF Good
<1>8. 0..Len(p) \subseteq Good
  BY <1>0, <1>6, <1>7, UpTo
<1>9. Right(Len(p))
  BY <1>0, <1>8 DEF Good
<1>10. Len(p) \in 0..Len(p)
  BY <1>0
<1>11. /\ DOMAIN ShownAll(d, p) = DOMAIN ShownAll(c, p)
       /\ \A r \in DOMAIN ShownAll(c, p) :
            ShownAll(d, p)[r] = ShownAll(c, p)[r] \/ (r \in more /\ ~ Brings(p, r))
  BY <1>1, <1>2, <1>5, <1>9, <1>10 DEF Right, Brings
<1>12. QED
  BY <1>11 DEF Follows

-----------------------------------------------------------------------------
(* The inductive invariant                                                  *)
Invariant ==
  /\ TypeOK /\ ReferenceIsShared
  /\ CacheInv /\ PendingInv /\ Outside /\ FollowsInv

(* It holds before anything is connected.                                   *)
LEMMA InvariantInit == Init => Invariant
<1> SUFFICES ASSUME Init PROVE Invariant
  OBVIOUS
<1>1. MaxAsks \in Nat \ {0} /\ MaxDecoding \in Nat \ {0} /\ Backlog \in Nat \ {0} /\ MaxRegions \in Nat \ {0}
  BY ChannelAssumption, SizeAssumption
<1>2. <<>> \in Seq(Update) /\ <<>> \in Seq(Region) /\ Len(<<>>) = 0 /\ <<>> \o <<>> = <<>> /\ DOMAIN <<>> = {} /\ 1..0 = {}
  OBVIOUS
<1>3. TypeOK
  <2>1. NoFrame \in Canvas
    BY DEF Canvas
  <2>2. cache \in [height : Nat, regions : Seq(Region)] /\ Len(cache.regions) <= MaxRegions
    BY <1>1, <1>2 DEF Init, EmptyCache
  <2>3. ingest \in Seq(Update) /\ Len(ingest) <= 1
    BY <1>2 DEF Init
  <2>4. inbox \in [Viewer -> Seq(Update)] /\ \A v \in Viewer : Len(inbox[v]) <= Backlog
    BY <1>1, <1>2 DEF Init
  <2>5. /\ canvas \in [Viewer -> Canvas] /\ told \in Canvas
        /\ missed \in [Viewer -> SUBSET Rows] /\ overdrawn \in [Viewer -> SUBSET Rows]
    BY <2>1 DEF Init
  <2>9. decoding \in [Viewer -> Seq(Region)] /\ \A v \in Viewer : Len(decoding[v]) <= MaxDecoding
    BY <1>1, <1>2 DEF Init
  <2>6. /\ prev \in Screens \cup {NoFrame} /\ asks \in 0..MaxAsks
        /\ guest \in {"down", "up"} /\ socket \in {"none", "open", "broken"} /\ listening \in BOOLEAN
    <3>1. asks \in 0..MaxAsks
      BY <1>1 DEF Init
    <3>2. QED
      BY <3>1 DEF Init
  <2>7. /\ stage \in [Viewer -> {"off", "subscribed", "on"}]
        /\ lagged \in [Viewer -> BOOLEAN] /\ asking \in [Viewer -> BOOLEAN]
    BY DEF Init
  <2>8. QED
    BY <2>2, <2>3, <2>4, <2>5, <2>6, <2>7, <2>9 DEF TypeOK
<1>4. CacheInv
  BY <1>2 DEF Init, CacheInv, EmptyCache, NoFrame, Depicts
<1>5. PendingInv
  BY <1>2, EmptyFollows DEF Init, PendingInv, Pending
<1>6. QED
  BY <1>3, <1>4, <1>5 DEF Init, Invariant, ReferenceIsShared, Outside, FollowsInv, NoFrame

(* What waits for a viewer: its receiver's updates, then the ingested one.  *)
LEMMA PendingShape ==
  ASSUME TypeOK, NEW v \in Viewer
  PROVE  /\ Pending(v) \in Seq(Update) /\ inbox[v] \in Seq(Update) /\ ingest \in Seq(Update)
         /\ ingest = <<>> => Pending(v) = inbox[v]
         /\ inbox[v] = <<>> => Pending(v) = ingest
         /\ ingest # <<>> => /\ ingest[1] \in Update /\ ingest = <<ingest[1]>>
                             /\ Pending(v) = Append(inbox[v], ingest[1])
<1>1. inbox[v] \in Seq(Update) /\ ingest \in Seq(Update) /\ Len(ingest) <= 1
  BY DEF TypeOK
<1>2. ASSUME ingest # <<>>
      PROVE  ingest[1] \in Update /\ ingest = <<ingest[1]>>
  <2>1. ASSUME NEW s \in Seq(Update), s # <<>>, Len(s) <= 1
        PROVE  Len(s) = 1 /\ s[1] \in Update
    <3>1. Len(s) \in Nat \ {0}
      BY <2>1
    <3>2. Len(s) = 1
      <4>1. \A k \in Nat \ {0} : k <= 1 => k = 1
        OBVIOUS
      <4>2. QED
        BY <2>1, <3>1, <4>1
    <3>3. QED
      BY <2>1, <3>2, TailOf
  <2>2. \A s \in Seq(Update) : Len(s) = 1 => s = <<s[1]>>
    OBVIOUS
  <2>3. QED
    BY <1>1, <1>2, <2>1, <2>2
<1>3. \A s \in Seq(Update) : s \o <<>> = s /\ <<>> \o s = s
  OBVIOUS
<1>4. \A s \in Seq(Update), u \in Update : s \o <<u>> = Append(s, u)
  OBVIOUS
<1>5. QED
  BY <1>1, <1>2, <1>3, <1>4 DEF Pending

(* What a page shows in the end of what it has, it shows on a canvas of the *)
(* same size.                                                               *)
LEMMA ArrivedType ==
  ASSUME TypeOK, NEW v \in Viewer
  PROVE  /\ canvas[v] \in Canvas /\ decoding[v] \in Seq(Region) /\ Len(decoding[v]) <= MaxDecoding
         /\ missed[v] \in SUBSET Rows /\ overdrawn[v] \in SUBSET Rows
         /\ Arrived(v) = Ends(canvas[v], decoding[v])
         /\ Arrived(v) \in Canvas /\ DOMAIN Arrived(v) = DOMAIN canvas[v]
<1>1. /\ canvas[v] \in Canvas /\ decoding[v] \in Seq(Region) /\ Len(decoding[v]) <= MaxDecoding
      /\ missed[v] \in SUBSET Rows /\ overdrawn[v] \in SUBSET Rows
  BY DEF TypeOK
<1>2. Arrived(v) = Ends(canvas[v], decoding[v])
  BY DEF Arrived, Ends
<1>3. QED
  BY <1>1, <1>2, DecodedAll

(* A page that takes an update comes to what it would if it drew it at once *)
(* on all it had, but for the rows it counts as overdrawn.                  *)
LEMMA Reception ==
  ASSUME TypeOK, NEW v \in Viewer, NEW u \in Update, Receive(v, u)
  PROVE  /\ canvas' \in [Viewer -> Canvas] /\ decoding' \in [Viewer -> Seq(Region)]
         /\ \A w \in Viewer : Len(decoding'[w]) <= MaxDecoding
         /\ missed' \in [Viewer -> SUBSET Rows] /\ overdrawn' \in [Viewer -> SUBSET Rows]
         /\ \A w \in Viewer : w # v =>
              /\ canvas'[w] = canvas[w] /\ decoding'[w] = decoding[w] /\ Arrived(w)' = Arrived(w)
              /\ missed'[w] = missed[w] /\ overdrawn'[w] = overdrawn[w]
         /\ missed'[v] = missed[v] \ RowsOf(u)
         /\ overdrawn[v] \ RowsOf(u) \subseteq overdrawn'[v]
         /\ Arrived(v)' \in Canvas /\ DOMAIN Arrived(v)' = 1..u.height
         /\ \A r \in 1..u.height : r \in overdrawn'[v] \/ Arrived(v)'[r] = Shown(Arrived(v), u)[r]
<1> DEFINE c == canvas[v]
           d == decoding[v]
           blanked == IF Resizes(v, u) THEN RowsIn(d) ELSE {}
<1>1. /\ canvas \in [Viewer -> Canvas] /\ decoding \in [Viewer -> Seq(Region)]
      /\ \A w \in Viewer : Len(decoding[w]) <= MaxDecoding
      /\ missed \in [Viewer -> SUBSET Rows] /\ overdrawn \in [Viewer -> SUBSET Rows]
  BY DEF TypeOK
<1>2. /\ Len(d) + Len(u.regions) <= MaxDecoding
      /\ canvas' = [canvas EXCEPT ![v] = Fitted(c, u.height)]
      /\ decoding' = [decoding EXCEPT ![v] = d \o u.regions]
      /\ missed' = [missed EXCEPT ![v] = missed[v] \ RowsOf(u)]
      /\ overdrawn' = [overdrawn EXCEPT ![v] = (overdrawn[v] \cup blanked) \ RowsOf(u)]
  BY DEF Receive
<1>3. /\ c \in Canvas /\ d \in Seq(Region) /\ u.regions \in Seq(Region)
      /\ Arrived(v) = Ends(c, d) /\ blanked \subseteq Rows
  BY ArrivedType, RowsInAre DEF Update
<1>4. /\ Fitted(c, u.height) \in Canvas /\ d \o u.regions \in Seq(Region)
      /\ Ends(Fitted(c, u.height), d \o u.regions) \in Canvas
      /\ DOMAIN Ends(Fitted(c, u.height), d \o u.regions) = 1..u.height
      /\ \A r \in 1..u.height :
           \/ r \notin RowsOf(u) /\ r \in RowsIn(d) /\ DOMAIN c # 1..u.height
           \/ Ends(Fitted(c, u.height), d \o u.regions)[r] = Shown(Ends(c, d), u)[r]
  BY <1>3, ReceivedAll
<1>5. Len(d \o u.regions) <= MaxDecoding
  <2>1. \A s \in Seq(Region), t \in Seq(Region) : Len(s \o t) = Len(s) + Len(t)
    OBVIOUS
  <2>2. Len(d \o u.regions) = Len(d) + Len(u.regions)
    BY <1>3, <2>1
  <2>3. QED
    BY <1>2, <2>2
<1>6. \A r : r \notin RowsOf(u) /\ r \in RowsIn(d) /\ DOMAIN c # 1..u.height
              => r \in blanked \ RowsOf(u)
  BY DEF Resizes
<1> HIDE DEF c, d, blanked
<1>7. /\ canvas'[v] = Fitted(c, u.height) /\ decoding'[v] = d \o u.regions
      /\ missed'[v] = missed[v] \ RowsOf(u) /\ overdrawn'[v] = (overdrawn[v] \cup blanked) \ RowsOf(u)
      /\ \A w \in Viewer : w # v =>
           /\ canvas'[w] = canvas[w] /\ decoding'[w] = decoding[w]
           /\ missed'[w] = missed[w] /\ overdrawn'[w] = overdrawn[w]
  BY <1>1, <1>2
<1>8. canvas' \in [Viewer -> Canvas] /\ decoding' \in [Viewer -> Seq(Region)]
  BY <1>1, <1>2, <1>4
<1>9. \A w \in Viewer : Len(decoding'[w]) <= MaxDecoding
  BY <1>1, <1>5, <1>7
<1>10. missed' \in [Viewer -> SUBSET Rows] /\ overdrawn' \in [Viewer -> SUBSET Rows]
  BY <1>1, <1>2, <1>3
<1>11. Arrived(v)' = Ends(Fitted(c, u.height), d \o u.regions)
  BY <1>7 DEF Arrived, Ends
<1>12. \A w \in Viewer : w # v => Arrived(w)' = Arrived(w)
  BY <1>7 DEF Arrived
<1>13. \A r \in 1..u.height : r \in overdrawn'[v] \/ Arrived(v)'[r] = Shown(Arrived(v), u)[r]
  BY <1>3, <1>4, <1>6, <1>7, <1>11
<1>14. Arrived(v)' \in Canvas /\ DOMAIN Arrived(v)' = 1..u.height
  BY <1>4, <1>11
<1>15. QED
  BY <1>7, <1>8, <1>9, <1>10, <1>12, <1>13, <1>14

(* Steps that leave alone what the viewers have and are about to get.       *)
LEMMA Undisturbed ==
  ASSUME Invariant, UNCHANGED <<gatewayVars, inbox, canvas, decoding, overdrawn>>,
         \A v \in Viewer : /\ stage'[v] = "on" <=> stage[v] = "on"
                           /\ stage'[v] = "off" => stage[v] = "off"
                           /\ missed'[v] = missed[v]
  PROVE  CacheInv' /\ PendingInv' /\ Outside' /\ FollowsInv'
<1>1. /\ cache' = cache /\ told' = told /\ ingest' = ingest /\ inbox' = inbox
      /\ canvas' = canvas /\ decoding' = decoding /\ overdrawn' = overdrawn
  BY DEF gatewayVars
<1>2. \A v \in Viewer : Pending(v)' = Pending(v) /\ Arrived(v)' = Arrived(v)
  BY <1>1 DEF Pending, Arrived
<1>3. CacheInv'
  BY <1>1 DEF Invariant, CacheInv
<1>4. PendingInv'
  BY <1>1, <1>2 DEF Invariant, PendingInv
<1>5. Outside'
  BY <1>1 DEF Invariant, Outside
<1>6. FollowsInv'
  BY <1>1, <1>2 DEF Invariant, FollowsInv
<1>7. QED
  BY <1>3, <1>4, <1>5, <1>6

(* One turn of the guest's loop.                                            *)
LEMMA StreamKeeps == Invariant /\ Stream => Invariant'
<1> SUFFICES ASSUME Invariant, Stream PROVE Invariant'
  OBVIOUS
<1>1. TypeOK /\ ReferenceIsShared /\ CacheInv /\ PendingInv /\ Outside /\ FollowsInv
  BY DEF Invariant
<1> DEFINE was == IF asks > 0 THEN Invalidated ELSE prev
<1>a. PICK frame \in Screens :
        /\ prev' = frame
        /\ \E u \in Updates(was, frame) :
             IF u.regions = <<>> THEN UNCHANGED gatewayVars ELSE Ingest(u)
  BY DEF Stream
<1>b. PICK u \in Updates(was, frame) : IF u.regions = <<>> THEN UNCHANGED gatewayVars ELSE Ingest(u)
  BY <1>a
<1>2. /\ frame \in Screens /\ u \in Updates(was, frame) /\ prev' = frame
      /\ IF u.regions = <<>> THEN UNCHANGED gatewayVars ELSE Ingest(u)
  BY <1>a, <1>b
<1>3. /\ guest = "up" /\ ingest = <<>> /\ asks' = (IF asks > 0 THEN asks - 1 ELSE 0)
      /\ UNCHANGED <<guest, socket, listening, viewerVars>>
  BY DEF Stream
<1>4. was \in Screens \cup {NoFrame} /\ (was # NoFrame => told = was) /\ told \in Canvas
  <2>1. prev \in Screens \cup {NoFrame} /\ told \in Canvas
    BY <1>1 DEF TypeOK
  <2>2. QED
    BY <1>1, <2>1 DEF Invalidated, ReferenceIsShared
<1>5. /\ u \in Update /\ DOMAIN frame = 1..u.height
      /\ \A r \in DOMAIN frame : r \notin RowsOf(u) => DOMAIN was = DOMAIN frame /\ was[r] = frame[r]
  <2> HIDE DEF was
  <2> QED
    BY <1>2, <1>4, UpdateCarries
<1>6. Shown(told, u) = frame
  BY <1>2, <1>4, UpdateShowsFrame
<1>7. Whole(u) \/ DOMAIN told = 1..u.height
  <2>1. SUFFICES ASSUME NEW r \in 1..u.height, r \notin RowsOf(u)
                 PROVE  DOMAIN told = 1..u.height
    BY DEF Whole
  <2>2. DOMAIN was = 1..u.height
    BY <1>5, <2>1
  <2>3. was # NoFrame
    <3>1. DOMAIN NoFrame = {}
      BY DEF NoFrame
    <3>2. QED
      BY <2>1, <2>2, <3>1
  <2>4. QED
    BY <1>4, <2>2, <2>3
<1> HIDE DEF was
<1>8. asks' \in 0..MaxAsks /\ prev' \in Screens \cup {NoFrame}
  BY <1>1, <1>2, <1>3, ChannelAssumption DEF TypeOK
<1>9. CASE u.regions = <<>>
  <2>1. UNCHANGED gatewayVars /\ UNCHANGED viewerVars
    BY <1>2, <1>3, <1>9
  <2>2. told = frame
    <3>1. told = was /\ DOMAIN was = DOMAIN frame /\ \A r \in DOMAIN frame : was[r] = frame[r]
      <4>1. \A r : r \notin RowsOf(u)
        BY <1>9 DEF RowsOf, RowsIn
      <4>2. 1 \in 1..u.height
        BY <1>5, Heighted DEF Update
      <4>3. DOMAIN was = DOMAIN frame /\ 1 \in DOMAIN was
        BY <1>5, <4>1, <4>2
      <4>4. was # NoFrame
        BY <4>3 DEF NoFrame
      <4>5. QED
        BY <1>4, <1>5, <4>1, <4>3, <4>4
    <3>2. was \in Screens
      <4>1. 1 \in DOMAIN was
        BY <1>5, <3>1, Heighted DEF Update
      <4>2. QED
        BY <1>4, <4>1 DEF NoFrame
    <3>3. was = [r \in DOMAIN was |-> was[r]] /\ frame = [r \in DOMAIN frame |-> frame[r]]
      BY <3>2, ScreenShape
    <3>4. QED
      BY <3>1, <3>3
  <2>3. CacheInv' /\ PendingInv' /\ Outside' /\ FollowsInv'
    BY <2>1, Undisturbed DEF viewerVars, pageVars
  <2>4. TypeOK'
    BY <1>1, <1>3, <1>8, <2>1 DEF TypeOK, gatewayVars, viewerVars, pageVars
  <2>5. ReferenceIsShared'
    BY <1>2, <2>1, <2>2 DEF ReferenceIsShared, gatewayVars
  <2>6. QED
    BY <2>3, <2>4, <2>5 DEF Invariant
<1>10. CASE u.regions # <<>>
  <2>1. /\ cache' = Applied(cache, u) /\ told' = Shown(told, u) /\ ingest' = <<u>>
        /\ stage' = stage /\ inbox' = inbox /\ lagged' = lagged /\ asking' = asking
        /\ canvas' = canvas /\ decoding' = decoding /\ missed' = missed /\ overdrawn' = overdrawn
    BY <1>2, <1>3, <1>10 DEF Ingest, viewerVars, pageVars
  <2>2. CacheOK
    BY <1>1 DEF TypeOK, CacheOK
  <2>3. /\ cache' \in [height : Nat, regions : Seq(Region)]
        /\ Len(cache'.regions) <= MaxRegions
        /\ cache'.height = u.height
        /\ Depicts(cache'.regions, told')
    BY <1>1, <1>4, <1>5, <2>1, <2>2, AppliedDepicts
  <2>4. told' \in Canvas /\ DOMAIN told' = 1..u.height /\ u.height \in Heights
    BY <1>4, <1>5, <2>1, ShownType DEF Update
  <2>5. ingest' \in Seq(Update) /\ Len(ingest') <= 1 /\ ingest' = Append(<<>>, u) /\ <<>> \in Seq(Update)
    BY <1>5, <2>1
  <2>6. TypeOK'
    BY <1>1, <1>3, <1>8, <2>1, <2>3, <2>4, <2>5 DEF TypeOK
  <2>7. ReferenceIsShared'
    BY <1>2, <1>6, <2>1 DEF ReferenceIsShared
  <2>8. CacheInv'
    BY <2>3, <2>4 DEF CacheInv
  <2>9. ASSUME NEW v \in Viewer
        PROVE  /\ Pending(v) \in Seq(Update)
               /\ Pending(v)' = Append(Pending(v), u)
    <3>1. Pending(v) = inbox[v] /\ Pending(v) \in Seq(Update)
      BY <1>1, <1>3, PendingShape
    <3>2. \A s \in Seq(Update) : s \o <<u>> = Append(s, u)
      BY <1>5
    <3>3. Pending(v)' = inbox[v] \o <<u>>
      BY <2>1 DEF Pending
    <3>4. QED
      BY <3>1, <3>2, <3>3
  <2>10. LeadTo(ingest', told')
    BY <1>4, <1>5, <1>7, <2>1, <2>5, EmptyFollows, AppendLeads
  <2>11. ASSUME NEW v \in Viewer
         PROVE  LeadTo(Pending(v)', told')
    <3>1. LeadTo(Pending(v), told)
      BY <1>1 DEF PendingInv
    <3>2. QED
      BY <1>4, <1>5, <1>7, <2>1, <2>9, <3>1, AppendLeads
  <2>12. PendingInv'
    BY <2>10, <2>11 DEF PendingInv
  <2>13. Outside'
    BY <1>1, <2>1 DEF Outside
  <2>14. ASSUME NEW v \in Viewer, stage[v] = "on"
         PROVE  Follows(Arrived(v), Pending(v)', told', missed[v] \cup overdrawn[v])
    <3>1. Follows(Arrived(v), Pending(v), told, missed[v] \cup overdrawn[v]) /\ Arrived(v) \in Canvas
      BY <1>1, <2>14, ArrivedType DEF FollowsInv
    <3>2. QED
      BY <1>4, <1>5, <1>7, <2>1, <2>9, <3>1, AppendFollows
  <2>15. FollowsInv'
    <3>1. \A v \in Viewer : Arrived(v)' = Arrived(v)
      BY <2>1 DEF Arrived
    <3>2. QED
      BY <2>1, <2>14, <3>1 DEF FollowsInv
  <2>16. QED
    BY <2>6, <2>7, <2>8, <2>12, <2>13, <2>15 DEF Invariant
<1>11. QED
  BY <1>9, <1>10

(* What is ingested goes to who is subscribed, over the oldest of an overrun. *)
LEMMA PublishKeeps == Invariant /\ Publish => Invariant'
<1> SUFFICES ASSUME Invariant, Publish PROVE Invariant'
  OBVIOUS
<1>1. TypeOK /\ ReferenceIsShared /\ CacheInv /\ PendingInv /\ Outside /\ FollowsInv
  BY DEF Invariant
<1>2. /\ ingest # <<>> /\ ingest' = <<>>
      /\ inbox' = [v \in Viewer |->
           IF v \notin Subscribed THEN inbox[v]
           ELSE Append(IF Overrun(v) THEN Tail(inbox[v]) ELSE inbox[v], ingest[1])]
      /\ lagged' = [v \in Viewer |-> lagged[v] \/ (v \in Subscribed /\ Overrun(v))]
      /\ missed' = [v \in Viewer |->
           missed[v] \cup IF v \in Subscribed /\ Overrun(v) THEN RowsOf(inbox[v][1]) ELSE {}]
      /\ guest' = guest /\ prev' = prev /\ asks' = asks
      /\ socket' = socket /\ listening' = listening /\ cache' = cache /\ told' = told
      /\ stage' = stage /\ asking' = asking
      /\ canvas' = canvas /\ decoding' = decoding /\ overdrawn' = overdrawn
  BY DEF Publish, guestVars
<1> DEFINE u == ingest[1]
<1>3. u \in Update /\ \A v \in Viewer : Pending(v) = Append(inbox[v], u) /\ inbox[v] \in Seq(Update)
  <2>1. u \in Update
    <3>1. ingest \in Seq(Update)
      BY <1>1 DEF TypeOK
    <3>2. QED
      BY <1>2, <3>1, TailOf
  <2>2. QED
    BY <1>1, <1>2, <2>1, PendingShape
<1>4. Backlog \in Nat \ {0} /\ told \in Canvas /\ <<>> \in Seq(Update)
  BY <1>1, ChannelAssumption DEF TypeOK
<1> HIDE DEF u
<1>5. ASSUME NEW v \in Viewer
      PROVE  /\ inbox'[v] \in Seq(Update) /\ Len(inbox'[v]) <= Backlog
             /\ v \notin Subscribed => inbox'[v] = inbox[v] /\ missed'[v] = missed[v]
             /\ v \in Subscribed /\ ~ Overrun(v) => inbox'[v] = Pending(v) /\ missed'[v] = missed[v]
             /\ v \in Subscribed /\ Overrun(v) =>
                  /\ Tail(Pending(v)) # <<>> /\ inbox'[v] = Tail(Pending(v))
                  /\ missed'[v] = missed[v] \cup RowsOf(Pending(v)[1])
                  /\ RowsOf(Pending(v)[1]) \subseteq Rows
  <2>1. inbox[v] \in Seq(Update) /\ Len(inbox[v]) <= Backlog /\ Pending(v) = Append(inbox[v], u)
    BY <1>1, <1>3 DEF TypeOK
  <2>2. CASE v \notin Subscribed
    BY <1>2, <2>1, <2>2
  <2>3. CASE v \in Subscribed /\ ~ Overrun(v)
    <3>1. inbox'[v] = Append(inbox[v], u) /\ missed'[v] = missed[v]
      BY <1>2, <2>3 DEF u
    <3>2. Len(inbox[v]) # Backlog
      BY <2>3 DEF Overrun
    <3>3. Append(inbox[v], u) \in Seq(Update) /\ Len(Append(inbox[v], u)) <= Backlog
      BY <1>3, <1>4, <2>1, <3>2
    <3>4. QED
      BY <2>1, <2>3, <3>1, <3>3
  <2>4. CASE v \in Subscribed /\ Overrun(v)
    <3>1. /\ inbox'[v] = Append(Tail(inbox[v]), u)
          /\ missed'[v] = missed[v] \cup RowsOf(inbox[v][1])
      BY <1>2, <2>4 DEF u
    <3>2. Len(inbox[v]) = Backlog /\ inbox[v] # <<>>
      BY <1>4, <2>1, <2>4 DEF Overrun
    <3>3. ASSUME NEW s \in Seq(Update), s # <<>>
          PROVE  /\ Tail(Append(s, u)) = Append(Tail(s), u) /\ Append(s, u)[1] = s[1]
                 /\ Append(Tail(s), u) \in Seq(Update) /\ Append(Tail(s), u) # <<>>
                 /\ Len(Append(Tail(s), u)) = Len(s) /\ s[1] \in Update
      BY <1>3, <3>3
    <3>4. Pending(v)[1] = inbox[v][1] /\ Tail(Pending(v)) = inbox'[v] /\ inbox[v][1] \in Update
      BY <2>1, <3>1, <3>2, <3>3
    <3>5. inbox'[v] \in Seq(Update) /\ inbox'[v] # <<>> /\ Len(inbox'[v]) <= Backlog
      BY <2>1, <3>1, <3>2, <3>3
    <3>6. RowsOf(inbox[v][1]) \subseteq Rows
      BY <3>4, RowsAreRows
    <3>7. QED
      BY <2>4, <3>1, <3>4, <3>5, <3>6
  <2>5. QED
    BY <2>2, <2>3, <2>4
<1>6. ASSUME NEW v \in Viewer
      PROVE  /\ Pending(v)' = inbox'[v] /\ LeadTo(inbox'[v], told)
             /\ stage[v] = "on" => Follows(Arrived(v), inbox'[v], told, missed'[v] \cup overdrawn[v])
  <2>1. Pending(v)' = inbox'[v]
    <3>1. \A s \in Seq(Update) : s \o <<>> = s
      OBVIOUS
    <3>2. Pending(v)' = inbox'[v] \o <<>>
      BY <1>2 DEF Pending
    <3>3. QED
      BY <1>5, <3>1, <3>2
  <2>2. /\ LeadTo(Pending(v), told)
        /\ stage[v] = "on" => Follows(Arrived(v), Pending(v), told, missed[v] \cup overdrawn[v])
    BY <1>1 DEF PendingInv, FollowsInv
  <2>3. CASE v \notin Subscribed
    <3>1. stage[v] = "off" /\ inbox[v] = <<>>
      BY <1>1, <2>3 DEF Subscribed, Outside
    <3>2. QED
      BY <1>5, <2>1, <2>3, <3>1, EmptyFollows
  <2>4. CASE v \in Subscribed /\ ~ Overrun(v)
    BY <1>5, <2>1, <2>2, <2>4
  <2>5. CASE v \in Subscribed /\ Overrun(v)
    <3>1. Pending(v) \in Seq(Update) /\ Pending(v) # <<>>
      BY <1>1, <1>3, PendingShape
    <3>2. LeadTo(inbox'[v], told) /\ SameSize(Pending(v)[1], Tail(Pending(v))[1])
      BY <1>4, <1>5, <2>2, <2>5, <3>1, TailLeads
    <3>3. stage[v] = "on" => Follows(Arrived(v), inbox'[v], told, missed'[v] \cup overdrawn[v])
      <4> DEFINE lost == missed[v] \cup overdrawn[v]
      <4>1. Arrived(v) \in Canvas
        BY <1>1, ArrivedType
      <4>2. missed'[v] \cup overdrawn[v] = lost \cup RowsOf(Pending(v)[1])
        BY <1>5, <2>5
      <4> HIDE DEF lost
      <4>3. SUFFICES ASSUME stage[v] = "on"
                     PROVE  Follows(Arrived(v), Tail(Pending(v)), told, lost \cup RowsOf(Pending(v)[1]))
        BY <1>5, <2>5, <4>2
      <4>4. Follows(Arrived(v), Pending(v), told, lost)
        BY <2>2, <4>3 DEF lost
      <4>5. Tail(Pending(v)) # <<>>
        BY <1>5, <2>5
      <4>6. QED
        BY <1>4, <3>1, <3>2, <4>1, <4>4, <4>5, DropFollows
    <3>4. QED
      BY <2>1, <3>2, <3>3
  <2>6. QED
    BY <2>3, <2>4, <2>5
<1>7. TypeOK'
  <2>1. ingest' \in Seq(Update) /\ Len(ingest') <= 1
    BY <1>2
  <2>2. inbox' \in [Viewer -> Seq(Update)] /\ \A v \in Viewer : Len(inbox'[v]) <= Backlog
    <3>1. inbox' = [v \in Viewer |-> inbox'[v]]
      BY <1>2
    <3>2. QED
      BY <1>5, <3>1
  <2>3. lagged' \in [Viewer -> BOOLEAN]
    BY <1>1, <1>2 DEF TypeOK
  <2>4. missed' \in [Viewer -> SUBSET Rows]
    <3>1. missed' = [v \in Viewer |-> missed'[v]]
      BY <1>2
    <3>2. ASSUME NEW v \in Viewer PROVE missed'[v] \in SUBSET Rows
      <4>1. missed[v] \in SUBSET Rows
        BY <1>1 DEF TypeOK
      <4>2. QED
        BY <1>5, <4>1
    <3>3. QED
      BY <3>1, <3>2
  <2>5. QED
    BY <1>1, <1>2, <2>1, <2>2, <2>3, <2>4 DEF TypeOK
<1>8. ReferenceIsShared'
  BY <1>1, <1>2 DEF ReferenceIsShared
<1>9. CacheInv'
  BY <1>1, <1>2 DEF CacheInv
<1>10. PendingInv'
  BY <1>2, <1>6, EmptyFollows DEF PendingInv
<1>11. Outside'
  <2>1. ASSUME NEW v \in Viewer
        PROVE  /\ stage[v] = "off" => inbox'[v] = <<>>
               /\ stage[v] # "on" => (canvas[v] = NoFrame /\ decoding[v] = <<>>) \/ missed'[v] = Rows
    <3>1. stage[v] = "off" => v \notin Subscribed
      BY DEF Subscribed
    <3>2. missed[v] \in SUBSET Rows
      BY <1>1 DEF TypeOK
    <3>3. missed[v] = Rows => missed'[v] = Rows
      BY <1>5, <3>2
    <3>4. QED
      BY <1>1, <1>5, <3>1, <3>3 DEF Outside
  <2>2. QED
    BY <1>2, <2>1 DEF Outside
<1>12. FollowsInv'
  <2>1. \A v \in Viewer : Arrived(v)' = Arrived(v)
    BY <1>2 DEF Arrived
  <2>2. QED
    BY <1>2, <1>6, <2>1 DEF FollowsInv
<1>13. QED
  BY <1>7, <1>8, <1>9, <1>10, <1>11, <1>12 DEF Invariant

(* Requests for a keyframe keep to their bound.                             *)
LEMMA RequestType ==
  ASSUME asks \in 0..MaxAsks, RequestKeyframe
  PROVE  asks' \in 0..MaxAsks
BY ChannelAssumption DEF RequestKeyframe

(* The steps that touch neither the picture nor a viewer's share of it.     *)
LEMMA QuietKeeps ==
  ASSUME Invariant,
         \/ Dial \/ CaptureFails \/ LinkBreaks \/ PumpEnds \/ Detach
         \/ \E v \in Viewer : Subscribe(v) \/ Ask(v) \/ RelayLag(v)
  PROVE  Invariant'
<1>1. TypeOK /\ ReferenceIsShared
  BY DEF Invariant
<1>2. 0 \in 0..MaxAsks /\ asks \in 0..MaxAsks
  BY <1>1, ChannelAssumption DEF TypeOK
<1>3. CASE Dial \/ CaptureFails \/ LinkBreaks \/ PumpEnds \/ Detach
  <2>1. UNCHANGED gatewayVars /\ UNCHANGED viewerVars
    BY <1>3 DEF Dial, CaptureFails, LinkBreaks, PumpEnds, Detach
  <2>2. CacheInv' /\ PendingInv' /\ Outside' /\ FollowsInv'
    BY <2>1, Undisturbed DEF viewerVars, pageVars
  <2>3. \/ prev' = prev /\ asks' = asks
        \/ prev' = NoFrame /\ asks' = 0
    BY <1>3 DEF Dial, CaptureFails, LinkBreaks, PumpEnds, Detach, Return, guestVars
  <2>4. guest' \in {"down", "up"} /\ socket' \in {"none", "open", "broken"} /\ listening' \in BOOLEAN
    BY <1>1, <1>3 DEF TypeOK, Dial, CaptureFails, LinkBreaks, PumpEnds, Detach, Return, guestVars
  <2>5. TypeOK'
    BY <1>1, <1>2, <2>1, <2>3, <2>4 DEF TypeOK, gatewayVars, viewerVars, pageVars
  <2>6. ReferenceIsShared'
    BY <1>1, <2>1, <2>3 DEF ReferenceIsShared, gatewayVars
  <2>7. QED
    BY <2>2, <2>5, <2>6 DEF Invariant
<1>4. ASSUME NEW v \in Viewer, Subscribe(v) \/ Ask(v) \/ RelayLag(v)
      PROVE  Invariant'
  <2>1. /\ UNCHANGED gatewayVars /\ guest' = guest /\ prev' = prev
        /\ socket' = socket /\ listening' = listening
        /\ inbox' = inbox /\ UNCHANGED pageVars
        /\ canvas' = canvas /\ decoding' = decoding /\ missed' = missed /\ overdrawn' = overdrawn
    BY <1>4 DEF Subscribe, Ask, RelayLag, guestVars, pageVars
  <2>2. /\ stage' \in [Viewer -> {"off", "subscribed", "on"}]
        /\ \A w \in Viewer : /\ stage'[w] = "on" <=> stage[w] = "on"
                             /\ stage'[w] = "off" => stage[w] = "off"
    <3>1. stage \in [Viewer -> {"off", "subscribed", "on"}]
      BY <1>1 DEF TypeOK
    <3>2. \/ stage' = stage
          \/ stage[v] = "off" /\ stage' = [stage EXCEPT ![v] = "subscribed"]
      BY <1>4 DEF Subscribe, Ask, RelayLag
    <3>3. QED
      BY <3>1, <3>2
  <2>3. lagged' \in [Viewer -> BOOLEAN] /\ asking' \in [Viewer -> BOOLEAN]
    BY <1>1, <1>4 DEF TypeOK, Subscribe, Ask, RelayLag
  <2>4. asks' \in 0..MaxAsks
    BY <1>2, <1>4, RequestType DEF Subscribe, Ask, RelayLag, guestVars
  <2>5. CacheInv' /\ PendingInv' /\ Outside' /\ FollowsInv'
    BY <2>1, <2>2, Undisturbed
  <2>6. TypeOK'
    BY <1>1, <2>1, <2>2, <2>3, <2>4 DEF TypeOK, gatewayVars
  <2>7. ReferenceIsShared'
    BY <1>1, <2>1 DEF ReferenceIsShared, gatewayVars
  <2>8. QED
    BY <2>5, <2>6, <2>7 DEF Invariant
<1>5. QED
  BY <1>3, <1>4

(* A viewer joins: what its page then comes to show is told already, or     *)
(* waits, or is lost, or is a tile drawn too late.                          *)
LEMMA JoinKeeps ==
  ASSUME NEW v \in Viewer, Invariant, Join(v)
  PROVE  Invariant'
<1>1. TypeOK /\ ReferenceIsShared /\ CacheInv /\ PendingInv /\ Outside /\ FollowsInv
  BY DEF Invariant
<1> DEFINE boot == Bootstrap(cache)
           had == Arrived(v)
<1>2. /\ stage[v] = "subscribed" /\ stage' = [stage EXCEPT ![v] = "on"]
      /\ asking' = [asking EXCEPT ![v] = TRUE]
      /\ IF cache.regions = <<>>
         THEN /\ RequestKeyframe
              /\ canvas' = canvas /\ decoding' = decoding /\ missed' = missed /\ overdrawn' = overdrawn
         ELSE Receive(v, boot) /\ asks' = asks
      /\ guest' = guest /\ prev' = prev /\ socket' = socket /\ listening' = listening
      /\ cache' = cache /\ ingest' = ingest /\ told' = told /\ inbox' = inbox /\ lagged' = lagged
  BY DEF Join, gatewayVars, pageVars
<1>3. /\ told \in Canvas /\ CacheOK /\ had \in Canvas /\ missed[v] \in SUBSET Rows
      /\ stage \in [Viewer -> {"off", "subscribed", "on"}]
  BY <1>1, ArrivedType DEF TypeOK, CacheOK
<1>4. had = NoFrame \/ missed[v] = Rows
  <2>1. (canvas[v] = NoFrame /\ decoding[v] = <<>>) \/ missed[v] = Rows
    BY <1>1, <1>2 DEF Outside
  <2>2. had = Ends(canvas[v], decoding[v]) /\ NoFrame \in Canvas
    BY <1>1, ArrivedType DEF Canvas
  <2> HIDE DEF had
  <2>3. QED
    BY <2>1, <2>2, DecodedNone
<1>5. DOMAIN had \subseteq Rows
  BY <1>3, CanvasShape
<1> HIDE DEF had
<1>6. /\ /\ canvas' \in [Viewer -> Canvas] /\ decoding' \in [Viewer -> Seq(Region)]
         /\ \A w \in Viewer : Len(decoding'[w]) <= MaxDecoding
         /\ missed' \in [Viewer -> SUBSET Rows] /\ overdrawn' \in [Viewer -> SUBSET Rows]
         /\ Arrived(v)' \in Canvas
         /\ \A w \in Viewer : w # v =>
              /\ canvas'[w] = canvas[w] /\ decoding'[w] = decoding[w] /\ Arrived(w)' = Arrived(w)
              /\ missed'[w] = missed[w] /\ overdrawn'[w] = overdrawn[w]
      /\ \A r \in DOMAIN Arrived(v)' :
           \/ r \in missed'[v] \cup overdrawn'[v]
           \/ Arrived(v)'[r] = Blank
           \/ r \in DOMAIN told /\ Arrived(v)'[r] = told[r]
  <2>1. CASE cache.regions = <<>>
    <3>1. canvas' = canvas /\ decoding' = decoding /\ missed' = missed /\ overdrawn' = overdrawn
      BY <1>2, <2>1
    <3>2. \A w \in Viewer : Arrived(w)' = Arrived(w)
      BY <3>1 DEF Arrived
    <3>3. Arrived(v)' = had
      BY <3>2 DEF had
    <3>4. \A r \in DOMAIN had : r \in missed[v]
      <4>1. CASE had = NoFrame
        BY <4>1 DEF NoFrame
      <4>2. CASE missed[v] = Rows
        BY <1>5, <4>2
      <4>3. QED
        BY <1>4, <4>1, <4>2
    <3>5. /\ canvas \in [Viewer -> Canvas] /\ decoding \in [Viewer -> Seq(Region)]
          /\ \A w \in Viewer : Len(decoding[w]) <= MaxDecoding
          /\ missed \in [Viewer -> SUBSET Rows] /\ overdrawn \in [Viewer -> SUBSET Rows]
      BY <1>1 DEF TypeOK
    <3>6. QED
      BY <1>3, <3>1, <3>2, <3>3, <3>4, <3>5
  <2>2. CASE cache.regions # <<>>
    <3>1. /\ boot \in Update /\ Agrees(Shown(NoFrame, boot), told)
          /\ DOMAIN Shown(NoFrame, boot) = DOMAIN told
      BY <1>1, <1>3, <2>2, BootstrapShows
    <3>2. NoFrame \in Canvas
      BY DEF Canvas
    <3>3. Receive(v, boot)
      BY <1>2, <2>2
    <3> HIDE DEF boot
    <3>4. /\ canvas' \in [Viewer -> Canvas] /\ decoding' \in [Viewer -> Seq(Region)]
          /\ \A w \in Viewer : Len(decoding'[w]) <= MaxDecoding
          /\ missed' \in [Viewer -> SUBSET Rows] /\ overdrawn' \in [Viewer -> SUBSET Rows]
          /\ \A w \in Viewer : w # v =>
               /\ canvas'[w] = canvas[w] /\ decoding'[w] = decoding[w] /\ Arrived(w)' = Arrived(w)
               /\ missed'[w] = missed[w] /\ overdrawn'[w] = overdrawn[w]
          /\ missed'[v] = missed[v] \ RowsOf(boot)
          /\ Arrived(v)' \in Canvas /\ DOMAIN Arrived(v)' = 1..boot.height
          /\ \A r \in 1..boot.height : r \in overdrawn'[v] \/ Arrived(v)'[r] = Shown(had, boot)[r]
      BY <1>1, <3>1, <3>3, Reception DEF had
    <3>5. DOMAIN Shown(NoFrame, boot) = 1..boot.height /\ boot.height \in Heights
      BY <3>1, <3>2, ShownType DEF Update
    <3>6. ASSUME NEW r \in 1..boot.height
          PROVE  \/ r \in missed'[v]
                 \/ Shown(had, boot)[r] = Blank
                 \/ r \in DOMAIN told /\ Shown(had, boot)[r] = told[r]
      <4>1. Shown(NoFrame, boot)[r] = Blank \/ (r \in DOMAIN told /\ Shown(NoFrame, boot)[r] = told[r])
        BY <3>1, <3>5 DEF Agrees
      <4>2. CASE r \in RowsOf(boot) \/ had = NoFrame
        <5>1. Shown(had, boot)[r] = Shown(NoFrame, boot)[r]
          BY <1>3, <3>1, <3>2, <4>2, ShownAlike
        <5>2. QED
          BY <4>1, <5>1
      <4>3. CASE r \notin RowsOf(boot) /\ missed[v] = Rows
        <5>1. r \in Rows
          BY <3>5, Heighted
        <5>2. QED
          BY <3>4, <4>3, <5>1
      <4>4. QED
        BY <1>4, <4>2, <4>3
    <3>7. \A r \in DOMAIN Arrived(v)' :
            \/ r \in missed'[v] \cup overdrawn'[v]
            \/ Arrived(v)'[r] = Blank
            \/ r \in DOMAIN told /\ Arrived(v)'[r] = told[r]
      BY <3>4, <3>6
    <3>8. QED
      BY <3>4, <3>7
  <2>3. QED
    BY <2>1, <2>2
<1>7. /\ Pending(v) \in Seq(Update) /\ LeadTo(Pending(v), told)
      /\ \A w \in Viewer : Pending(w)' = Pending(w)
  BY <1>1, <1>2, PendingShape DEF PendingInv, Pending
<1>8. Follows(Arrived(v)', Pending(v), told, missed'[v] \cup overdrawn'[v])
  BY <1>6, <1>7, JoinFollows
<1>9. stage'[v] = "on" /\ \A w \in Viewer : w # v => stage'[w] = stage[w]
  BY <1>2, <1>3
<1>10. asks' \in 0..MaxAsks
  BY <1>1, <1>2, RequestType DEF TypeOK
<1>11. TypeOK'
  <2>1. /\ stage' \in [Viewer -> {"off", "subscribed", "on"}]
        /\ asking' \in [Viewer -> BOOLEAN]
    BY <1>1, <1>2 DEF TypeOK
  <2>2. QED
    BY <1>1, <1>2, <1>6, <1>10, <2>1 DEF TypeOK
<1>12. ReferenceIsShared' /\ CacheInv'
  BY <1>1, <1>2 DEF ReferenceIsShared, CacheInv
<1>13. PendingInv'
  BY <1>1, <1>2, <1>7 DEF PendingInv
<1>14. Outside'
  BY <1>1, <1>2, <1>6, <1>9 DEF Outside
<1>15. FollowsInv'
  BY <1>1, <1>2, <1>6, <1>7, <1>8, <1>9 DEF FollowsInv
<1>16. QED
  BY <1>11, <1>12, <1>13, <1>14, <1>15 DEF Invariant

(* The oldest update waiting reaches the page.                              *)
LEMMA RelayKeeps ==
  ASSUME NEW v \in Viewer, Invariant, Relay(v)
  PROVE  Invariant'
<1>1. TypeOK /\ ReferenceIsShared /\ CacheInv /\ PendingInv /\ Outside /\ FollowsInv
  BY DEF Invariant
<1> DEFINE u == inbox[v][1]
<1>2. /\ inbox[v] \in Seq(Update) /\ inbox \in [Viewer -> Seq(Update)] /\ Len(inbox[v]) <= Backlog
      /\ Arrived(v) \in Canvas /\ told \in Canvas
      /\ ingest \in Seq(Update) /\ Backlog \in Nat /\ \A w \in Viewer : Len(inbox[w]) <= Backlog
  BY <1>1, ArrivedType, ChannelAssumption DEF TypeOK
<1>3. /\ stage[v] = "on" /\ inbox[v] # <<>>
      /\ Receive(v, Head(inbox[v]))
      /\ inbox' = [inbox EXCEPT ![v] = Tail(inbox[v])]
      /\ guest' = guest /\ prev' = prev /\ asks' = asks /\ socket' = socket /\ listening' = listening
      /\ cache' = cache /\ ingest' = ingest /\ told' = told
      /\ stage' = stage /\ lagged' = lagged /\ asking' = asking
  BY DEF Relay, guestVars, gatewayVars
<1>4. /\ Head(inbox[v]) = u /\ u \in Update /\ Tail(inbox[v]) \in Seq(Update)
      /\ Len(Tail(inbox[v])) <= Backlog
  <2>1. /\ Head(inbox[v]) = u /\ u \in Update /\ Tail(inbox[v]) \in Seq(Update)
        /\ Len(Tail(inbox[v])) = Len(inbox[v]) - 1
    BY <1>2, <1>3, TailOf
  <2>2. QED
    BY <1>2, <2>1
<1>5. /\ Pending(v) \in Seq(Update) /\ Pending(v) # <<>> /\ Pending(v)[1] = u
      /\ Pending(v)' = Tail(Pending(v))
  <2>1. ASSUME NEW s \in Seq(Update), NEW t \in Seq(Update), s # <<>>
        PROVE  s \o t \in Seq(Update) /\ s \o t # <<>> /\ (s \o t)[1] = s[1] /\ Tail(s \o t) = Tail(s) \o t
    BY <2>1
  <2>2. Pending(v)' = Tail(inbox[v]) \o ingest
    BY <1>2, <1>3 DEF Pending
  <2>3. QED
    BY <1>2, <1>3, <2>1, <2>2 DEF Pending
<1> HIDE DEF u
<1>6. /\ canvas' \in [Viewer -> Canvas] /\ decoding' \in [Viewer -> Seq(Region)]
      /\ \A w \in Viewer : Len(decoding'[w]) <= MaxDecoding
      /\ missed' \in [Viewer -> SUBSET Rows] /\ overdrawn' \in [Viewer -> SUBSET Rows]
      /\ \A w \in Viewer : w # v =>
           /\ canvas'[w] = canvas[w] /\ decoding'[w] = decoding[w] /\ Arrived(w)' = Arrived(w)
           /\ missed'[w] = missed[w] /\ overdrawn'[w] = overdrawn[w]
      /\ missed'[v] = missed[v] \ RowsOf(u)
      /\ overdrawn[v] \ RowsOf(u) \subseteq overdrawn'[v]
      /\ Arrived(v)' \in Canvas /\ DOMAIN Arrived(v)' = 1..u.height
      /\ \A r \in 1..u.height : r \in overdrawn'[v] \/ Arrived(v)'[r] = Shown(Arrived(v), u)[r]
  <2>1. Receive(v, u)
    BY <1>3, <1>4
  <2>2. QED
    BY <1>1, <1>4, <2>1, Reception
<1>7. \A w \in Viewer : w # v => inbox'[w] = inbox[w] /\ Pending(w)' = Pending(w)
  BY <1>2, <1>3 DEF Pending
<1>8. TypeOK'
  <2>1. inbox' \in [Viewer -> Seq(Update)] /\ \A w \in Viewer : Len(inbox'[w]) <= Backlog
    BY <1>2, <1>3, <1>4
  <2>2. QED
    BY <1>1, <1>3, <1>6, <2>1 DEF TypeOK
<1>9. ReferenceIsShared' /\ CacheInv'
  BY <1>1, <1>3 DEF ReferenceIsShared, CacheInv
<1>10. LeadTo(Pending(v), told) /\ Follows(Arrived(v), Pending(v), told, missed[v] \cup overdrawn[v])
  BY <1>1, <1>3 DEF PendingInv, FollowsInv
<1>11. PendingInv'
  <2>1. LeadTo(Pending(v)', told)
    BY <1>2, <1>5, <1>10, TailLeads
  <2>2. QED
    BY <1>1, <1>3, <1>7, <2>1 DEF PendingInv
<1>12. FollowsInv'
  <2> DEFINE lost == missed[v] \cup overdrawn[v]
             at == Shown(Arrived(v), u)
  <2>1. missed'[v] \cup overdrawn'[v] = (lost \ RowsOf(u)) \cup overdrawn'[v]
    BY <1>6
  <2> HIDE DEF lost
  <2>2. Follows(at, Tail(Pending(v)), told, lost \ RowsOf(u))
    <3>1. Follows(Arrived(v), Pending(v), told, lost)
      BY <1>10 DEF lost
    <3>2. Follows(Shown(Arrived(v), Pending(v)[1]), Tail(Pending(v)), told, lost \ RowsOf(Pending(v)[1]))
      BY <1>2, <1>5, <3>1, RelayFollows
    <3>3. QED
      BY <1>5, <3>2
  <2>3. at \in Canvas /\ DOMAIN at = 1..u.height
    BY <1>2, <1>4, ShownType
  <2>4. Tail(Pending(v)) \in Seq(Update)
    BY <1>5, TailOf
  <2>5. \A r \in DOMAIN at : r \in overdrawn'[v] \/ Arrived(v)'[r] = at[r]
    BY <1>6, <2>3
  <2> HIDE DEF at
  <2>6. Follows(Arrived(v)', Tail(Pending(v)), told, (lost \ RowsOf(u)) \cup overdrawn'[v])
    BY <1>6, <2>2, <2>3, <2>4, <2>5, AlikeFollows
  <2>7. Follows(Arrived(v)', Pending(v)', told, missed'[v] \cup overdrawn'[v])
    BY <1>5, <2>1, <2>6
  <2>8. QED
    BY <1>1, <1>3, <1>6, <1>7, <2>7 DEF FollowsInv
<1>13. Outside'
  <2>1. \A w \in Viewer : stage'[w] = stage[w]
    BY <1>3
  <2>2. ASSUME NEW w \in Viewer, w # v
        PROVE  /\ stage'[w] = "off" => inbox'[w] = <<>>
               /\ stage'[w] # "on" => (canvas'[w] = NoFrame /\ decoding'[w] = <<>>) \/ missed'[w] = Rows
    BY <1>1, <1>6, <1>7, <2>1, <2>2 DEF Outside
  <2>3. stage'[v] = "on"
    BY <1>3
  <2>4. QED
    BY <2>2, <2>3 DEF Outside
<1>14. QED
  BY <1>8, <1>9, <1>11, <1>12, <1>13 DEF Invariant

(* A tile is drawn, whichever is decoded first.                             *)
LEMMA DrawKeeps ==
  ASSUME NEW v \in Viewer, Invariant, Draw(v)
  PROVE  Invariant'
<1>1. TypeOK /\ ReferenceIsShared /\ CacheInv /\ PendingInv /\ Outside /\ FollowsInv
  BY DEF Invariant
<1> DEFINE c == canvas[v]
           d == decoding[v]
<1>2. PICK i \in DOMAIN d :
        /\ canvas' = [canvas EXCEPT ![v] = Painted(c, d[i])]
        /\ decoding' = [decoding EXCEPT ![v] = RemoveAt(d, i)]
        /\ overdrawn' = [overdrawn EXCEPT ![v] = overdrawn[v] \cup Overtaken(d, i)]
  BY DEF Draw
<1>3. /\ guest' = guest /\ prev' = prev /\ asks' = asks /\ socket' = socket /\ listening' = listening
      /\ cache' = cache /\ ingest' = ingest /\ told' = told
      /\ stage' = stage /\ inbox' = inbox /\ lagged' = lagged /\ asking' = asking /\ missed' = missed
  BY DEF Draw, guestVars, gatewayVars
<1>4. /\ canvas \in [Viewer -> Canvas] /\ decoding \in [Viewer -> Seq(Region)]
      /\ overdrawn \in [Viewer -> SUBSET Rows] /\ \A w \in Viewer : Len(decoding[w]) <= MaxDecoding
  BY <1>1 DEF TypeOK
<1>5. /\ c \in Canvas /\ d \in Seq(Region) /\ Len(d) <= MaxDecoding /\ MaxDecoding \in Nat
      /\ Arrived(v) = Ends(c, d) /\ Arrived(v) \in Canvas /\ DOMAIN Arrived(v) = DOMAIN c
  BY <1>1, ArrivedType, ChannelAssumption
<1>6. i \in 1..Len(d) /\ Overtaken(d, i) \subseteq Rows
  <2>1. i \in 1..Len(d) /\ d[i] \in Region
    BY <1>5
  <2>2. DOMAIN d[i] \subseteq Rows
    BY <1>5, <2>1, RowsInAre
  <2>3. QED
    BY <2>1, <2>2 DEF Overtaken
<1> HIDE DEF c, d
<1>7. /\ Painted(c, d[i]) \in Canvas
      /\ RemoveAt(d, i) \in Seq(Region) /\ Len(RemoveAt(d, i)) = Len(d) - 1
      /\ DOMAIN Ends(Painted(c, d[i]), RemoveAt(d, i)) = DOMAIN c
      /\ \A r \in DOMAIN c :
           r \in Overtaken(d, i) \/ Ends(Painted(c, d[i]), RemoveAt(d, i))[r] = Ends(c, d)[r]
  BY <1>5, <1>6, DrawnAll
<1>8. Len(RemoveAt(d, i)) <= MaxDecoding
  BY <1>5, <1>7
<1>9. /\ canvas'[v] = Painted(c, d[i]) /\ decoding'[v] = RemoveAt(d, i)
      /\ overdrawn'[v] = overdrawn[v] \cup Overtaken(d, i)
      /\ \A w \in Viewer : w # v =>
           canvas'[w] = canvas[w] /\ decoding'[w] = decoding[w] /\ overdrawn'[w] = overdrawn[w]
  BY <1>2, <1>4
<1>10. TypeOK'
  <2>1. canvas' \in [Viewer -> Canvas] /\ decoding' \in [Viewer -> Seq(Region)]
    BY <1>2, <1>4, <1>7
  <2>2. overdrawn' \in [Viewer -> SUBSET Rows]
    BY <1>2, <1>4, <1>6
  <2>3. \A w \in Viewer : Len(decoding'[w]) <= MaxDecoding
    BY <1>4, <1>8, <1>9
  <2>4. QED
    BY <1>1, <1>3, <2>1, <2>2, <2>3 DEF TypeOK
<1>11. ReferenceIsShared' /\ CacheInv'
  BY <1>1, <1>3 DEF ReferenceIsShared, CacheInv
<1>12. \A w \in Viewer : Pending(w)' = Pending(w)
  BY <1>3 DEF Pending
<1>13. PendingInv'
  BY <1>1, <1>3, <1>12 DEF PendingInv
<1>14. Arrived(v)' = Ends(Painted(c, d[i]), RemoveAt(d, i))
  BY <1>9 DEF Arrived, Ends
<1>15. \A w \in Viewer : w # v => Arrived(w)' = Arrived(w)
  BY <1>9 DEF Arrived
<1>16. FollowsInv'
  <2>1. ASSUME stage[v] = "on"
        PROVE  Follows(Arrived(v)', Pending(v), told, missed[v] \cup overdrawn'[v])
    <3> DEFINE lost == missed[v] \cup overdrawn[v]
               more == Overtaken(d, i)
               b == Ends(Painted(c, d[i]), RemoveAt(d, i))
    <3>1. missed[v] \cup overdrawn'[v] = lost \cup more
      BY <1>9
    <3>2. b \in Canvas
      BY <1>7, DecodedAll
    <3>3. DOMAIN b = DOMAIN Arrived(v) /\ \A r \in DOMAIN Arrived(v) : r \in more \/ b[r] = Arrived(v)[r]
      BY <1>5, <1>7
    <3>4. Follows(Arrived(v), Pending(v), told, lost) /\ Pending(v) \in Seq(Update)
      BY <1>1, <2>1, PendingShape DEF FollowsInv
    <3> HIDE DEF lost, more, b
    <3>5. Follows(b, Pending(v), told, lost \cup more)
      BY <1>5, <3>2, <3>3, <3>4, AlikeFollows
    <3>6. QED
      BY <1>14, <3>1, <3>5 DEF b
  <2>2. QED
    BY <1>1, <1>3, <1>9, <1>12, <1>15, <2>1 DEF FollowsInv
<1>17. Outside'
  <2>1. ASSUME NEW w \in Viewer
        PROVE  /\ stage'[w] = "off" => inbox'[w] = <<>>
               /\ stage'[w] # "on" => (canvas'[w] = NoFrame /\ decoding'[w] = <<>>) \/ missed'[w] = Rows
    <3>1. CASE w # v
      BY <1>1, <1>3, <1>9, <3>1 DEF Outside
    <3>2. CASE w = v
      <4>1. d # <<>>
        BY <1>5, <1>6
      <4>2. QED
        BY <1>1, <1>3, <3>2, <4>1 DEF Outside, d
    <3>3. QED
      BY <3>1, <3>2
  <2>2. QED
    BY <2>1 DEF Outside
<1>18. QED
  BY <1>10, <1>11, <1>13, <1>16, <1>17 DEF Invariant

(* A viewer goes, with or without its canvas.                               *)
LEMMA GoingKeeps ==
  ASSUME NEW v \in Viewer, Invariant, Drop(v) \/ Leave(v)
  PROVE  Invariant'
<1>1. TypeOK /\ ReferenceIsShared /\ CacheInv /\ PendingInv /\ Outside /\ FollowsInv
  BY DEF Invariant
<1>2. /\ stage' = [stage EXCEPT ![v] = "off"] /\ inbox' = [inbox EXCEPT ![v] = <<>>]
      /\ lagged' = [lagged EXCEPT ![v] = FALSE] /\ asking' = [asking EXCEPT ![v] = FALSE]
      /\ guest' = guest /\ prev' = prev /\ asks' = asks /\ socket' = socket /\ listening' = listening
      /\ cache' = cache /\ ingest' = ingest /\ told' = told
      /\ \/ /\ missed' = [missed EXCEPT ![v] = Rows]
            /\ canvas' = canvas /\ decoding' = decoding /\ overdrawn' = overdrawn
         \/ /\ missed' = [missed EXCEPT ![v] = {}] /\ canvas' = [canvas EXCEPT ![v] = NoFrame]
            /\ decoding' = [decoding EXCEPT ![v] = <<>>] /\ overdrawn' = [overdrawn EXCEPT ![v] = {}]
  BY DEF Drop, Leave, guestVars, gatewayVars
<1>3. /\ stage \in [Viewer -> {"off", "subscribed", "on"}] /\ inbox \in [Viewer -> Seq(Update)]
      /\ canvas \in [Viewer -> Canvas] /\ decoding \in [Viewer -> Seq(Region)]
      /\ missed \in [Viewer -> SUBSET Rows] /\ overdrawn \in [Viewer -> SUBSET Rows]
      /\ ingest \in Seq(Update) /\ Backlog \in Nat /\ \A w \in Viewer : Len(inbox[w]) <= Backlog
      /\ MaxDecoding \in Nat /\ \A w \in Viewer : Len(decoding[w]) <= MaxDecoding
      /\ lagged \in [Viewer -> BOOLEAN] /\ asking \in [Viewer -> BOOLEAN]
  BY <1>1, ChannelAssumption DEF TypeOK
<1>4. /\ <<>> \in Seq(Update) /\ <<>> \in Seq(Region) /\ Len(<<>>) = 0 /\ NoFrame \in Canvas
      /\ \A s \in Seq(Update) : <<>> \o s = s
  BY DEF Canvas
<1>5. /\ stage'[v] = "off" /\ inbox'[v] = <<>> /\ Pending(v)' = ingest
      /\ (canvas'[v] = NoFrame /\ decoding'[v] = <<>>) \/ missed'[v] = Rows
      /\ \A w \in Viewer : w # v => /\ stage'[w] = stage[w] /\ inbox'[w] = inbox[w]
                                    /\ canvas'[w] = canvas[w] /\ decoding'[w] = decoding[w]
                                    /\ missed'[w] = missed[w] /\ overdrawn'[w] = overdrawn[w]
                                    /\ Pending(w)' = Pending(w) /\ Arrived(w)' = Arrived(w)
  BY <1>2, <1>3, <1>4 DEF Pending, Arrived
<1>6. TypeOK'
  <2>1. inbox' \in [Viewer -> Seq(Update)] /\ \A w \in Viewer : Len(inbox'[w]) <= Backlog
    BY <1>2, <1>3, <1>4
  <2>2. /\ canvas' \in [Viewer -> Canvas] /\ missed' \in [Viewer -> SUBSET Rows]
        /\ overdrawn' \in [Viewer -> SUBSET Rows]
    BY <1>2, <1>3, <1>4
  <2>3. decoding' \in [Viewer -> Seq(Region)] /\ \A w \in Viewer : Len(decoding'[w]) <= MaxDecoding
    <3>1. decoding' = decoding \/ decoding' = [decoding EXCEPT ![v] = <<>>]
      BY <1>2
    <3>2. \A w \in Viewer : decoding'[w] = decoding[w] \/ decoding'[w] = <<>>
      BY <1>3, <3>1
    <3>3. decoding' \in [Viewer -> Seq(Region)]
      BY <1>3, <1>4, <3>1
    <3>4. QED
      BY <1>3, <1>4, <3>2, <3>3
  <2>4. /\ stage' \in [Viewer -> {"off", "subscribed", "on"}]
        /\ lagged' \in [Viewer -> BOOLEAN] /\ asking' \in [Viewer -> BOOLEAN]
    BY <1>2, <1>3
  <2>5. QED
    BY <1>1, <1>2, <2>1, <2>2, <2>3, <2>4 DEF TypeOK
<1>7. ReferenceIsShared' /\ CacheInv'
  BY <1>1, <1>2 DEF ReferenceIsShared, CacheInv
<1>8. PendingInv'
  BY <1>1, <1>2, <1>5 DEF PendingInv
<1>9. Outside' /\ FollowsInv'
  BY <1>1, <1>2, <1>5 DEF Outside, FollowsInv
<1>10. QED
  BY <1>6, <1>7, <1>8, <1>9 DEF Invariant

(* Every step preserves it.                                                 *)
LEMMA InvariantStep == Invariant /\ [Next]_vars => Invariant'
<1> SUFFICES ASSUME Invariant, [Next]_vars PROVE Invariant'
  OBVIOUS
<1>1. CASE Stream
  BY <1>1, StreamKeeps
<1>2. CASE Publish
  BY <1>2, PublishKeeps
<1>3. CASE Dial \/ CaptureFails \/ LinkBreaks \/ PumpEnds \/ Detach
  BY <1>3, QuietKeeps
<1>4. ASSUME NEW v \in Viewer, Subscribe(v) \/ Ask(v) \/ RelayLag(v)
      PROVE  Invariant'
  BY <1>4, QuietKeeps
<1>5. ASSUME NEW v \in Viewer, Join(v) PROVE Invariant'
  BY <1>5, JoinKeeps
<1>6. ASSUME NEW v \in Viewer, Relay(v) PROVE Invariant'
  BY <1>6, RelayKeeps
<1>7. ASSUME NEW v \in Viewer, Drop(v) \/ Leave(v) PROVE Invariant'
  BY <1>7, GoingKeeps
<1>10. ASSUME NEW v \in Viewer, Draw(v) PROVE Invariant'
  BY <1>10, DrawKeeps
<1>8. CASE UNCHANGED vars
  <2>1. UNCHANGED <<gatewayVars, viewerVars, guestVars, socket, listening>>
    BY <1>8 DEF vars
  <2>2. CacheInv' /\ PendingInv' /\ Outside' /\ FollowsInv'
    BY <2>1, Undisturbed DEF viewerVars, pageVars
  <2>3. TypeOK' /\ ReferenceIsShared'
    BY <2>1 DEF Invariant, TypeOK, ReferenceIsShared, gatewayVars, viewerVars, pageVars, guestVars
  <2>4. QED
    BY <2>2, <2>3 DEF Invariant
<1>9. QED
  BY <1>1, <1>2, <1>3, <1>4, <1>5, <1>6, <1>7, <1>8, <1>10 DEF Next, Serve

(* And so it always holds.                                                  *)
THEOREM InvariantHolds == Spec => []Invariant
<1>1. QED
  BY InvariantInit, InvariantStep, PTL DEF Spec

-----------------------------------------------------------------------------
(* Every variable of the screen stream keeps to its type, the cache to      *)
(* MAX_REGIONS and a viewer's receiver to the channel's capacity: what the  *)
(* encoder sends, the cache keeps and the canvas shows are runs of rows of  *)
(* a screen that exists.                                                    *)
THEOREM TypeCorrect == Spec => []TypeOK
<1>1. Invariant => TypeOK
  BY DEF Invariant
<1>2. QED
  BY <1>1, InvariantHolds, PTL

(* The encoder never makes a diff against a frame the gateway does not      *)
(* have, whatever connections break and keyframes are asked for.            *)
THEOREM ReferenceIsSharedHolds == Spec => []ReferenceIsShared
<1>1. Invariant => ReferenceIsShared
  BY DEF Invariant
<1>2. QED
  BY <1>1, InvariantHolds, PTL

(* What a viewer is bootstrapped with is never a patch of the past, however *)
(* many updates the cache has absorbed since its keyframe.                  *)
THEOREM CacheIsCurrentHolds == Spec => []CacheIsCurrent
<1>1. Invariant => CacheIsCurrent
  BY BootstrapShows DEF Invariant, TypeOK, CacheOK, CacheIsCurrent
<1>2. QED
  BY <1>1, InvariantHolds, PTL

(* No page's picture, once what it is decoding and what waits for it are    *)
(* drawn, parts from what the guest has told, but for the rows a lag or a   *)
(* lost socket has cost it and those where it drew an older tile after a    *)
(* newer one.                                                               *)
THEOREM FollowsStreamHolds == Spec => []FollowsStream
<1>1. Invariant => FollowsStream
  <2>1. SUFFICES ASSUME Invariant, NEW v \in Viewer, stage[v] = "on"
                 PROVE  LET coming == ShownAll(Arrived(v), Pending(v))
                            lost   == (missed[v] \cup overdrawn[v])
                                        \ UNION {RowsOf(Pending(v)[i]) : i \in DOMAIN Pending(v)}
                        IN  \A r \in DOMAIN coming \ lost :
                              coming[r] = Blank \/ (r \in DOMAIN told /\ coming[r] = told[r])
    BY DEF FollowsStream
  <2>2. Follows(Arrived(v), Pending(v), told, missed[v] \cup overdrawn[v])
    BY <2>1 DEF Invariant, FollowsInv
  <2>3. Pending(v) \in Seq(Update)
    BY <2>1, PendingShape DEF Invariant
  <2>4. \A r : Brings(Pending(v), r) <=> r \in UNION {RowsOf(Pending(v)[i]) : i \in DOMAIN Pending(v)}
    BY <2>3 DEF Brings
  <2>5. QED
    BY <2>2, <2>4 DEF Follows
<1>2. QED
  BY <1>1, InvariantHolds, PTL
================================================================================
