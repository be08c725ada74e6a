------------------------------ MODULE HistoryProofs ------------------------------
(***************************************************************************)
(* Proofs about the call detail records, for any calls, uuids, requests in *)
(* flight and faults, any page size and either filter; and about the list  *)
(* of recordings, for any days and any number of changes.                  *)
(*                                                                         *)
(* Of the posts: no record is lost and none is stored twice. Of the walk   *)
(* of the records: a row only ever moves back in the order as others are   *)
(* inserted, so what has not been shown is still ahead (Ahead), and the    *)
(* count, made before the page was read, promises no more rows than there  *)
(* are. Of the walk of the recordings: what is still to be listed is in    *)
(* falling order and before all that was found, and holds every day that   *)
(* is to be found (Falling, Covered).                                      *)
(*                                                                         *)
(* Both lists are put in order by place: the element at place i is the one *)
(* that i - 1 others come before.                                          *)
(***************************************************************************)
EXTENDS History, TLAPS, FiniteSetTheorems, FunctionTheorems, SequenceTheorems

--------------------------------------------------------------------------------
(* The posts.                                                              *)

IngestInv == IngestTypes /\ NoneLost /\ StoredOnce

\* What a handler's reply does to the FreeSWITCH side: only 200, and only of
\* its own record, takes anything out of the spool.
LEMMA ReplyEffect ==
  ASSUME IngestTypes, NEW r \in requests, NEW code, Reply(r, code)
  PROVE  /\ r[1] \in Calls
         /\ requests' \subseteq Calls \X Slots
         /\ awaited' \in [Calls -> Slots \cup {0}]
         /\ spool' \subseteq Calls /\ ended' = ended
         /\ spool \ spool' \subseteq {r[1]}
         /\ code # 200 => spool' = spool
<1>1. r[1] \in Calls
  BY DEF IngestTypes
<1>2. CASE awaited[r[1]] = r[2]
  BY <1>1, <1>2 DEF IngestTypes, Reply
<1>3. CASE awaited[r[1]] # r[2]
  BY <1>1, <1>3 DEF IngestTypes, Reply
<1> QED
  BY <1>2, <1>3

\* The row is in the table after the INSERT, whether it wrote it or not, no
\* other row leaves it and no second row has its uuid.
LEMMA InsertEffect ==
  ASSUME IngestTypes, StoredOnce, NEW c \in Calls, cdr' = InsertCDR(c)[1]
  PROVE  /\ cdr \subseteq cdr' /\ cdr' \subseteq Calls
         /\ Stored(Uuid[c])'
         /\ StoredOnce'
<1>1. CASE Stored(Uuid[c])
  <2>1. cdr' = cdr
    BY <1>1 DEF InsertCDR
  <2> QED
    BY <1>1, <2>1 DEF IngestTypes, Stored, StoredOnce
<1>2. CASE ~Stored(Uuid[c])
  <2>1. cdr' = cdr \cup {c}
    BY <1>2 DEF InsertCDR
  <2> QED
    BY <1>2, <2>1 DEF IngestTypes, Stored, StoredOnce
<1> QED
  BY <1>1, <1>2

\* A step that neither empties the spool nor shrinks the table loses nothing.
LEMMA KeepsLosesNothing ==
  ASSUME NoneLost, cdr' = cdr, ended' \ spool' \subseteq ended \ spool
  PROVE  NoneLost'
BY DEF NoneLost, Stored

\* Every step of the posts and of the walk keeps the invariant.
LEMMA Inductive ==
  ASSUME IngestInv, [Next]_vars
  PROVE  IngestInv'
<1> USE CdrAssumption DEF IngestInv
<1>1. ASSUME NEW c \in Calls, EndCall(c) PROVE IngestInv'
  <2>1. IngestTypes' /\ StoredOnce'
    BY <1>1 DEF EndCall, IngestTypes, StoredOnce
  <2>2. NoneLost'
    BY <1>1, KeepsLosesNothing DEF EndCall
  <2> QED
    BY <2>1, <2>2
<1>2. ASSUME NEW c \in Calls, Post(c) PROVE IngestInv'
  <2>1. IngestTypes' /\ StoredOnce'
    BY <1>2 DEF Post, IngestTypes, StoredOnce
  <2>2. NoneLost'
    BY <1>2, KeepsLosesNothing DEF Post
  <2> QED
    BY <2>1, <2>2
<1>3. ASSUME NEW c \in Calls, GiveUp(c) PROVE IngestInv'
  <2>1. IngestTypes' /\ StoredOnce'
    BY <1>3 DEF GiveUp, Fault, IngestTypes, StoredOnce
  <2>2. NoneLost'
    BY <1>3, KeepsLosesNothing DEF GiveUp
  <2> QED
    BY <2>1, <2>2
<1>4. ASSUME NEW r \in requests, Malformed(r) PROVE IngestInv'
  <2>1. Reply(r, 400) /\ cdr' = cdr /\ faults' = faults
    BY <1>4 DEF Malformed
  <2>2. /\ requests' \subseteq Calls \X Slots /\ awaited' \in [Calls -> Slots \cup {0}]
        /\ ended' = ended /\ spool' = spool
    BY <2>1, 400 # 200, ReplyEffect
  <2>3. IngestTypes'
    BY <2>1, <2>2 DEF IngestTypes
  <2>4. NoneLost' /\ StoredOnce'
    BY <2>1, <2>2, KeepsLosesNothing DEF StoredOnce
  <2> QED
    BY <2>3, <2>4
<1>5. ASSUME NEW r \in requests, Insert(r) PROVE IngestInv'
  <2>1. PICK code : Reply(r, code)
    BY <1>5 DEF Insert
  <2>2. r[1] \in Calls /\ ended' = ended /\ spool \ spool' \subseteq {r[1]}
    BY <2>1, ReplyEffect
  <2>3. cdr \subseteq cdr' /\ cdr' \subseteq Calls /\ Stored(Uuid[r[1]])' /\ StoredOnce'
    BY <1>5, <2>2, InsertEffect DEF Insert
  <2>4. IngestTypes'
    BY <1>5, <2>1, <2>3, ReplyEffect DEF Insert, IngestTypes
  <2>5. ASSUME NEW c \in ended' \ spool' PROVE Stored(Uuid[c])'
    <3>1. CASE c = r[1]
      BY <3>1, <2>3
    <3>2. CASE c # r[1]
      BY <3>2, <2>2, <2>3, <2>5 DEF NoneLost, Stored
    <3> QED
      BY <3>1, <3>2
  <2> QED
    BY <2>3, <2>4, <2>5 DEF NoneLost, Stored
<1>6. ASSUME NEW r \in requests, InsertFails(r) PROVE IngestInv'
  <2>1. Reply(r, 500) /\ Fault /\ cdr' = cdr
    BY <1>6 DEF InsertFails
  <2>2. /\ requests' \subseteq Calls \X Slots /\ awaited' \in [Calls -> Slots \cup {0}]
        /\ ended' = ended /\ spool' = spool
    BY <2>1, 500 # 200, ReplyEffect
  <2>3. IngestTypes'
    BY <2>1, <2>2 DEF IngestTypes, Fault
  <2>4. NoneLost' /\ StoredOnce'
    BY <2>1, <2>2, KeepsLosesNothing DEF StoredOnce
  <2> QED
    BY <2>3, <2>4
<1>7. CASE Restart
  <2>1. IngestTypes' /\ StoredOnce'
    BY <1>7 DEF Restart, Fault, IngestTypes, StoredOnce
  <2>2. NoneLost'
    BY <1>7, KeepsLosesNothing DEF Restart
  <2> QED
    BY <2>1, <2>2
<1>8. CASE UNCHANGED ingest
  BY <1>8 DEF ingest, IngestTypes, NoneLost, StoredOnce, Stored
<1>9. ASSUME Open \/ CountRows \/ SelectPage \/ Continue \/ Close \/ QueryFails
      PROVE  UNCHANGED ingest
  BY <1>9 DEF Open, CountRows, SelectPage, Continue, Close, QueryFails
<1> QED
  BY <1>1, <1>2, <1>3, <1>4, <1>5, <1>6, <1>7, <1>8, <1>9 DEF Next, vars

--------------------------------------------------------------------------------
(* Order by place.                                                         *)

\* The elements of S that come before x in R, and how many these are.
Below(S, R, x) == {y \in S : <<y, x>> \in R}
Place(S, R, x) == Cardinality(Below(S, R, x))

Orders(R, S) ==
  /\ \A a \in S : <<a, a>> \notin R
  /\ \A a, b \in S : a # b => <<a, b>> \in R \/ <<b, a>> \in R
  /\ \A a, b, c \in S : <<a, b>> \in R /\ <<b, c>> \in R => <<a, c>> \in R

\* Each place is that of exactly one element, and places follow the order.
LEMMA Places ==
  ASSUME NEW S, IsFiniteSet(S), NEW R, Orders(R, S)
  PROVE  /\ Cardinality(S) \in Nat
         /\ \A c \in S : Place(S, R, c) \in Nat /\ Place(S, R, c) < Cardinality(S)
         /\ \A a, b \in S : <<a, b>> \in R => Place(S, R, a) < Place(S, R, b)
         /\ \A a, b \in S : Place(S, R, a) = Place(S, R, b) => a = b
         /\ \A i \in 1 .. Cardinality(S) : \E c \in S : Place(S, R, c) = i - 1
<1> DEFINE n == Cardinality(S)
           r == [c \in S |-> Place(S, R, c) + 1]
<1>1. /\ n \in Nat
      /\ \A c : /\ IsFiniteSet(Below(S, R, c)) /\ Below(S, R, c) \subseteq S
                /\ Place(S, R, c) \in Nat /\ Place(S, R, c) = Cardinality(Below(S, R, c))
  <2>1. ASSUME NEW c PROVE Below(S, R, c) \subseteq S /\ IsFiniteSet(Below(S, R, c))
    <3>1. Below(S, R, c) \in SUBSET S
      BY DEF Below
    <3>2. QED
      BY <3>1, FS_Subset
  <2>2. QED
    BY <2>1, FS_CardinalityType DEF Place
<1>2. ASSUME NEW c \in S PROVE Place(S, R, c) < n
  <2>1. c \notin Below(S, R, c)
    BY DEF Below, Orders
  <2>2. Below(S, R, c) \in SUBSET S /\ Below(S, R, c) # S
    BY <1>1, <2>1
  <2>3. Cardinality(Below(S, R, c)) <= n /\ Cardinality(Below(S, R, c)) # n
    BY <2>2, FS_Subset
  <2>4. QED
    BY <1>1, <2>3
<1>3. ASSUME NEW a \in S, NEW b \in S, <<a, b>> \in R PROVE Place(S, R, a) < Place(S, R, b)
  <2>1. Below(S, R, a) \in SUBSET Below(S, R, b)
    BY <1>3 DEF Below, Orders
  <2>2. a \in Below(S, R, b) /\ a \notin Below(S, R, a)
    BY <1>3 DEF Below, Orders
  <2>3. /\ Cardinality(Below(S, R, a)) <= Cardinality(Below(S, R, b))
        /\ Cardinality(Below(S, R, a)) # Cardinality(Below(S, R, b))
    BY <1>1, <2>1, <2>2, FS_Subset
  <2>4. QED
    BY <1>1, <2>3
<1>4. ASSUME NEW a \in S, NEW b \in S, Place(S, R, a) = Place(S, R, b) PROVE a = b
  <2>1. <<a, b>> \notin R /\ <<b, a>> \notin R
    BY <1>1, <1>3, <1>4
  <2>2. QED
    BY <2>1 DEF Orders
<1>5. r \in Injection(S, 1 .. n)
  <2>1. r \in [S -> 1 .. n]
    BY <1>1, <1>2
  <2>2. \A a, b \in S : r[a] = r[b] => a = b
    BY <1>1, <1>4
  <2> HIDE DEF r
  <2>3. QED
    BY <2>1, <2>2, Fun_IsInj
<1>6. IsFiniteSet(1 .. n) /\ Cardinality(1 .. n) = n
  <2>1. 1 \in Int /\ n \in Int /\ n \in Nat
    BY <1>1
  <2>2. IsFiniteSet(1 .. n) /\ Cardinality(1 .. n) = IF 1 > n THEN 0 ELSE n - 1 + 1
    BY <2>1, FS_Interval
  <2>3. QED
    BY <2>1, <2>2
<1>7. r \in Surjection(S, 1 .. n)
  BY <1>5, <1>6, FS_Injection
<1>8. \A i \in 1 .. n : \E c \in S : r[c] = i
  BY <1>7 DEF Surjection
<1>9. \A i \in 1 .. n : \E c \in S : Place(S, R, c) = i - 1
  <2> SUFFICES ASSUME NEW i \in 1 .. n PROVE \E c \in S : Place(S, R, c) = i - 1
    OBVIOUS
  <2>1. PICK c \in S : r[c] = i
    BY <1>8
  <2>2. Place(S, R, c) + 1 = i /\ Place(S, R, c) \in Nat
    BY <1>1, <2>1
  <2>3. QED
    BY <2>2
<1>10. QED
  BY <1>1, <1>2, <1>3, <1>4, <1>9

\* q is the list that has each element of S at its place.
InPlaces(q, S, R) ==
  /\ q = [i \in 1 .. Cardinality(S) |-> q[i]]
  /\ \A i \in 1 .. Cardinality(S) : q[i] \in S /\ Place(S, R, q[i]) = i - 1

LEMMA ByPlace ==
  ASSUME NEW S, IsFiniteSet(S), NEW R, Orders(R, S), NEW q, InPlaces(q, S, R)
  PROVE  /\ q \in Seq(S) /\ Len(q) = Cardinality(S)
         /\ \A c \in S : /\ Place(S, R, c) + 1 \in 1 .. Len(q)
                         /\ q[Place(S, R, c) + 1] = c
         /\ \A i, j \in 1 .. Len(q) : i < j => <<q[i], q[j]>> \in R
<1> DEFINE n == Cardinality(S)
<1>1. n \in Nat /\ \A c \in S : Place(S, R, c) \in Nat /\ Place(S, R, c) < n
  BY Places
<1>2. q \in [1 .. n -> S]
  BY DEF InPlaces
<1>3. q \in Seq(S) /\ Len(q) = n
  BY <1>1, <1>2
<1>4. ASSUME NEW c \in S
      PROVE  Place(S, R, c) + 1 \in 1 .. n /\ q[Place(S, R, c) + 1] = c
  <2>1. Place(S, R, c) + 1 \in 1 .. n
    BY <1>1
  <2>2. PICK i \in 1 .. n : i = Place(S, R, c) + 1
    BY <2>1
  <2>3. q[i] \in S /\ Place(S, R, q[i]) = Place(S, R, c)
    <3>1. q[i] \in S /\ Place(S, R, q[i]) = i - 1
      BY DEF InPlaces
    <3>2. i - 1 = Place(S, R, c)
      BY <1>1, <2>2
    <3>3. QED
      BY <3>1, <3>2
  <2>4. q[i] = c
    BY <2>3, Places
  <2>5. QED
    BY <2>1, <2>2, <2>4
<1>5. ASSUME NEW i \in 1 .. n, NEW j \in 1 .. n, i < j PROVE <<q[i], q[j]>> \in R
  <2>1. /\ q[i] \in S /\ Place(S, R, q[i]) = i - 1
        /\ q[j] \in S /\ Place(S, R, q[j]) = j - 1
    BY DEF InPlaces
  <2>2. q[i] # q[j]
    BY <1>5, <2>1
  <2>3. <<q[j], q[i]>> \notin R
    <3>1. <<q[j], q[i]>> \in R => Place(S, R, q[j]) < Place(S, R, q[i])
      BY <2>1, Places
    <3>2. QED
      BY <1>5, <2>1, <3>1
  <2>4. QED
    BY <2>1, <2>2, <2>3 DEF Orders
<1>6. QED
  BY <1>3, <1>4, <1>5

--------------------------------------------------------------------------------
(* ORDER BY.                                                               *)

\* How far down the list a row is.
Rank(c) == Cardinality(Preceding(c))

SqlOrder == {p \in Filtered \X Filtered : Before(p[1], p[2])}

LEMMA FilteredFinite ==
  ASSUME IsFiniteSet(cdr), cdr \subseteq Calls
  PROVE  /\ IsFiniteSet(Filtered) /\ Cardinality(Filtered) \in Nat /\ Filtered \subseteq Calls
         /\ \A c : IsFiniteSet(Preceding(c)) /\ Rank(c) \in Nat /\ Preceding(c) \subseteq Filtered
<1>1. Filtered \in SUBSET cdr /\ Filtered \subseteq Calls
  BY DEF Filtered
<1>2. IsFiniteSet(Filtered)
  BY <1>1, FS_Subset
<1>3. ASSUME NEW c PROVE IsFiniteSet(Preceding(c)) /\ Preceding(c) \subseteq Filtered
  <2>1. Preceding(c) \in SUBSET Filtered
    BY DEF Preceding
  <2>2. QED
    BY <1>2, <2>1, FS_Subset
<1>4. QED
  BY <1>1, <1>2, <1>3, FS_CardinalityType DEF Rank

\* start_epoch and id order the rows, and a row's rank is its place.
LEMMA SqlOrders ==
  ASSUME cdr \subseteq Calls
  PROVE  /\ Orders(SqlOrder, Filtered)
         /\ \A c \in Filtered : Rank(c) = Place(Filtered, SqlOrder, c)
<1>1. Filtered \subseteq Calls
  BY DEF Filtered
<1>2. /\ \A a \in Calls : ~Before(a, a)
      /\ \A a, b \in Calls : a # b => Before(a, b) \/ Before(b, a)
      /\ \A a, b, c \in Calls : Before(a, b) /\ Before(b, c) => Before(a, c)
  BY CdrAssumption DEF Before
<1>3. \A a, b \in Filtered : <<a, b>> \in SqlOrder <=> Before(a, b)
  BY DEF SqlOrder
<1>4. Orders(SqlOrder, Filtered)
  BY <1>1, <1>2, <1>3 DEF Orders
<1>5. ASSUME NEW c \in Filtered PROVE Preceding(c) = Below(Filtered, SqlOrder, c)
  BY <1>3 DEF Preceding, Below
<1>6. QED
  BY <1>4, <1>5 DEF Rank, Place

\* The list holds each row, at its place.
LEMMA OrderedByRank ==
  ASSUME IsFiniteSet(cdr), cdr \subseteq Calls
  PROVE  /\ Ordered \in Seq(Filtered) /\ Len(Ordered) = Cardinality(Filtered)
         /\ \A c \in Filtered : Rank(c) + 1 \in 1 .. Len(Ordered) /\ Ordered[Rank(c) + 1] = c
<1>1. /\ IsFiniteSet(Filtered) /\ Orders(SqlOrder, Filtered)
      /\ \A c \in Filtered : Rank(c) = Place(Filtered, SqlOrder, c)
  BY FilteredFinite, SqlOrders
<1>2. ASSUME NEW i \in 1 .. Cardinality(Filtered)
      PROVE  Ordered[i] \in Filtered /\ Rank(Ordered[i]) = i - 1
  <2>1. \E c \in Filtered : Rank(c) = i - 1
    BY <1>1, Places
  <2>2. Ordered[i] = CHOOSE c \in Filtered : Rank(c) = i - 1
    BY DEF Ordered, Rank
  <2>3. QED
    BY <2>1, <2>2
<1>3. Ordered = [i \in 1 .. Cardinality(Filtered) |-> Ordered[i]]
  BY DEF Ordered
<1>4. \A i \in 1 .. Cardinality(Filtered) :
        Ordered[i] \in Filtered /\ Place(Filtered, SqlOrder, Ordered[i]) = i - 1
  BY <1>1, <1>2
<1> DEFINE q == Ordered
<1> HIDE DEF q
<1>5. InPlaces(q, Filtered, SqlOrder)
  BY <1>3, <1>4 DEF q, InPlaces
<1>6. /\ q \in Seq(Filtered) /\ Len(q) = Cardinality(Filtered)
      /\ \A c \in Filtered : /\ Place(Filtered, SqlOrder, c) + 1 \in 1 .. Len(q)
                             /\ q[Place(Filtered, SqlOrder, c) + 1] = c
  BY <1>1, <1>5, ByPlace
<1>7. QED
  BY <1>1, <1>6 DEF q

\* LIMIT and OFFSET, of any list.
LEMMA PageOf ==
  ASSUME NEW S, NEW s \in Seq(S), NEW limit \in Nat, NEW k \in Nat,
         NEW p, p = Paged(s, limit, k)
  PROVE  /\ p \in Seq(S)
         /\ limit = 0 => p = s
         /\ limit > 0 =>
              /\ \A i \in 1 .. Len(p) : p[i] = s[k + i] /\ k + i \in 1 .. Len(s)
              /\ Len(p) <= limit
              /\ Len(p) = limit \/ k + Len(p) >= Len(s)
<1> DEFINE m == Min({k + limit, Len(s)})
<1>1. Len(s) \in Nat
  OBVIOUS
<1>2. m = IF k + limit <= Len(s) THEN k + limit ELSE Len(s)
  <2> DEFINE a == k + limit
             b == Len(s)
  <2>1. a \in Nat /\ b \in Nat
    BY <1>1
  <2> HIDE DEF a, b
  <2>2. \E x \in {a, b} : \A y \in {a, b} : x <= y
    BY <2>1
  <2>3. Min({a, b}) \in {a, b} /\ \A y \in {a, b} : Min({a, b}) <= y
    BY <2>2 DEF Min
  <2>4. Min({a, b}) = IF a <= b THEN a ELSE b
    BY <2>1, <2>3
  <2>5. QED
    BY <2>4 DEF a, b
<1>3. CASE limit = 0
  BY <1>3 DEF Paged
<1>4. CASE limit > 0
  <2>1. m \in Nat /\ m <= Len(s) /\ k + 1 \in Int /\ m \in Int
    BY <1>1, <1>2
  <2>2. p = SubSeq(s, k + 1, m)
    BY <1>4 DEF Paged
  <2> HIDE DEF m
  <2>3. \A i \in k + 1 .. m : s[i] \in S /\ i \in 1 .. Len(s)
    BY <2>1, <1>1, ElementOfSeq
  <2>4. /\ p \in Seq(S)
        /\ Len(p) = IF k + 1 <= m THEN m - (k + 1) + 1 ELSE 0
        /\ \A i \in 1 .. m - (k + 1) + 1 : p[i] = s[k + 1 + i - 1]
    BY <2>1, <2>2, <2>3, SubSeqProperties
  <2>5. \A i \in 1 .. Len(p) : p[i] = s[k + i] /\ k + i \in 1 .. Len(s)
    <3> SUFFICES ASSUME NEW i \in 1 .. Len(p)
                 PROVE  p[i] = s[k + i] /\ k + i \in 1 .. Len(s)
      OBVIOUS
    <3>1. i \in 1 .. m - (k + 1) + 1 /\ k + i \in k + 1 .. m /\ k + 1 + i - 1 = k + i
      BY <2>1, <2>4
    <3>2. QED
      BY <2>3, <2>4, <3>1
  <2>6. Len(p) <= limit /\ (Len(p) = limit \/ k + Len(p) >= Len(s))
    BY <1>1, <1>2, <1>4, <2>1, <2>4
  <2>7. QED
    BY <1>4, <2>4, <2>5, <2>6
<1>5. QED
  BY <1>3, <1>4


--------------------------------------------------------------------------------
(* The walk.                                                               *)

\* What the walk is still to show lies at or behind the place it has reached,
\* and a walk that ends or must end has shown everything.
Ahead ==
  /\ due \subseteq Filtered
  /\ pc \in {"count", "page"} => \A c \in due \ seen : Rank(c) >= offset
  /\ pc = "answered" => \A c \in due \ seen : Rank(c) >= offset + Len(page)
  /\ \/ pc = "done"
     \/ pc = "answered" /\ (page = <<>> \/ asked.limit = 0)
     => due \subseteq seen

Counted ==
  /\ pc = "page" => total <= Cardinality(Filtered)
  /\ PageReachesTotal

WalkInv ==
  /\ IsFiniteSet(cdr) /\ page \in Seq(Calls)
  /\ WalkTypes /\ Ahead /\ Counted

Inv == IngestInv /\ WalkInv

LEMMA NoWalkKeeps ==
  ASSUME NoWalk
  PROVE  page' \in Seq(Calls) /\ WalkTypes' /\ Ahead' /\ Counted'
<1>1. /\ pc' = "idle" /\ asked' = [limit |-> 0, where |-> Calls]
      /\ offset' = 0 /\ total' = 0 /\ page' = <<>> /\ due' = {} /\ seen' = {}
  BY DEF NoWalk
<1>2. WalkTypes'
  BY <1>1, CdrAssumption DEF WalkTypes
<1>3. Ahead' /\ Counted' /\ page' \in Seq(Calls)
  BY <1>1 DEF Ahead, Counted, PageReachesTotal
<1>4. QED
  BY <1>2, <1>3

\* A step of the posts leaves the walk alone and keeps the rows.
LEMMA TableGrows ==
  ASSUME IngestInv, [Next]_vars
  PROVE  /\ \/ cdr' = cdr
            \/ \E c : cdr' = cdr \cup {c}
         /\ \/ UNCHANGED walk
            \/ cdr' = cdr /\ (NoWalk \/ Open \/ CountRows \/ SelectPage \/ Continue)
<1>1. CASE \E c \in Calls : EndCall(c) \/ Post(c) \/ GiveUp(c)
  BY <1>1 DEF EndCall, Post, GiveUp
<1>2. CASE \E r \in requests : Malformed(r) \/ InsertFails(r)
  BY <1>2 DEF Malformed, InsertFails, Reply
<1>3. CASE \E r \in requests : Insert(r)
  BY <1>3 DEF Insert, Reply, InsertCDR
<1>4. CASE Restart
  BY <1>4 DEF Restart
<1>5. CASE Open \/ CountRows \/ SelectPage \/ Continue \/ Close \/ QueryFails
  BY <1>5 DEF Open, CountRows, SelectPage, Continue, Close, QueryFails, ingest
<1>6. CASE UNCHANGED vars
  BY <1>6 DEF vars, ingest
<1>7. QED
  BY <1>1, <1>2, <1>3, <1>4, <1>5, <1>6 DEF Next

\* A row is moved back by rows that are inserted before it, never forward.
LEMMA GrowthKeeps ==
  ASSUME WalkInv, cdr \subseteq Calls, cdr' \subseteq Calls,
         cdr' = cdr \/ \E c : cdr' = cdr \cup {c}, UNCHANGED walk
  PROVE  WalkInv'
<1>1. IsFiniteSet(cdr') /\ cdr \subseteq cdr' /\ IsFiniteSet(cdr)
  <2>1. IsFiniteSet(cdr)
    BY DEF WalkInv
  <2>2. \A c : IsFiniteSet(cdr \cup {c})
    BY <2>1, FS_AddElement
  <2>3. QED
    BY <2>1, <2>2
<1>2. /\ pc' = pc /\ asked' = asked /\ offset' = offset /\ total' = total /\ page' = page
      /\ due' = due /\ seen' = seen
  BY DEF walk
<1>3. Filtered \subseteq Filtered' /\ \A c : Preceding(c) \subseteq Preceding(c)'
  BY <1>1, <1>2 DEF Filtered, Preceding, Before
<1>4. /\ IsFiniteSet(Filtered') /\ Cardinality(Filtered') \in Nat
      /\ \A c : IsFiniteSet(Preceding(c)') /\ Cardinality(Preceding(c)') \in Nat
  <2>1. Filtered' \in SUBSET cdr'
    BY DEF Filtered
  <2>2. IsFiniteSet(Filtered')
    BY <1>1, <2>1, FS_Subset
  <2>3. ASSUME NEW c PROVE IsFiniteSet(Preceding(c)')
    <3>1. Preceding(c)' \in SUBSET Filtered'
      BY DEF Preceding
    <3>2. QED
      BY <2>2, <3>1, FS_Subset
  <2>4. QED
    BY <2>2, <2>3, FS_CardinalityType
<1>5. \A c : Rank(c) \in Nat /\ Rank(c)' \in Nat /\ Rank(c) <= Rank(c)'
  <2> TAKE c
  <2>1. Cardinality(Preceding(c)) <= Cardinality(Preceding(c)')
    BY <1>3, <1>4, FS_Subset
  <2>2. QED
    BY <1>1, <1>4, <2>1, FilteredFinite DEF Rank
<1>6. Cardinality(Filtered) \in Nat /\ Cardinality(Filtered) <= Cardinality(Filtered')
  <2>1. Cardinality(Filtered) <= Cardinality(Filtered')
    BY <1>3, <1>4, FS_Subset
  <2>2. QED
    BY <1>1, <2>1, FilteredFinite
<1>7. offset \in Nat /\ total \in Nat /\ Len(page) \in Nat
  BY DEF WalkInv, WalkTypes
<1>8. Ahead'
  <2>1. due' \subseteq Filtered'
    BY <1>2, <1>3 DEF WalkInv, Ahead
  <2>2. ASSUME NEW c \in due \ seen, pc \in {"count", "page"} PROVE Rank(c)' >= offset
    <3>1. Rank(c) >= offset
      BY <2>2 DEF WalkInv, Ahead
    <3>2. QED
      BY <1>5, <1>7, <3>1
  <2>3. ASSUME NEW c \in due \ seen, pc = "answered" PROVE Rank(c)' >= offset + Len(page)
    <3>1. Rank(c) >= offset + Len(page)
      BY <2>3 DEF WalkInv, Ahead
    <3>2. QED
      BY <1>5, <1>7, <3>1
  <2>4. QED
    BY <1>2, <2>1, <2>2, <2>3 DEF WalkInv, Ahead, Rank, Preceding
<1>9. Counted'
  <2>1. pc = "page" => total <= Cardinality(Filtered')
    BY <1>4, <1>6, <1>7 DEF WalkInv, Counted
  <2>2. PageReachesTotal'
    BY <1>2 DEF WalkInv, Counted, PageReachesTotal
  <2>3. QED
    BY <1>2, <2>1, <2>2 DEF Counted
<1>10. WalkTypes' /\ page' \in Seq(Calls)
  BY <1>2 DEF WalkInv, WalkTypes
<1>11. QED
  BY <1>1, <1>8, <1>9, <1>10 DEF WalkInv

LEMMA OpenKeeps ==
  ASSUME WalkInv, cdr \subseteq Calls, Open, cdr' = cdr
  PROVE  WalkInv'
<1>1. PICK n \in Limits, f \in {Calls, Answered} :
        asked' = [limit |-> Capped(n), where |-> f] /\ due' = cdr \cap f
  BY DEF Open
<1>2. pc' = "count" /\ offset' = 0 /\ total' = 0 /\ page' = <<>> /\ seen' = {}
  BY DEF Open
<1>3. asked'.limit \in 0 .. MaxLimit /\ asked'.where = f
  BY <1>1, CdrAssumption DEF Capped
<1>4. WalkTypes'
  BY <1>1, <1>2, <1>3 DEF WalkTypes
<1>5. IsFiniteSet(cdr') /\ Filtered' = due'
  BY <1>1, <1>3 DEF WalkInv, Filtered
<1>6. \A c : Rank(c)' \in Nat
  <2>1. \A c : IsFiniteSet(Preceding(c)')
    <3> TAKE c
    <3>1. IsFiniteSet(Filtered') /\ Preceding(c)' \in SUBSET Filtered'
      <4>1. Filtered' \in SUBSET cdr'
        BY DEF Filtered
      <4>2. QED
        BY <1>5, <4>1, FS_Subset DEF Preceding
    <3>2. QED
      BY <3>1, FS_Subset
  <2>2. QED
    BY <2>1, FS_CardinalityType DEF Rank
<1>7. Ahead'
  BY <1>2, <1>5, <1>6 DEF Ahead
<1>8. Counted' /\ page' \in Seq(Calls)
  BY <1>2 DEF Counted, PageReachesTotal
<1>9. QED
  BY <1>4, <1>5, <1>7, <1>8 DEF WalkInv

\* The page the walk is given holds every row it is still to show at the places
\* it covers.
LEMMA SelectKeeps ==
  ASSUME WalkInv, cdr \subseteq Calls, SelectPage, cdr' = cdr
  PROVE  WalkInv'
<1> DEFINE n == Cardinality(Filtered)
           k == offset
           limit == asked.limit
<1>1. /\ pc = "page" /\ pc' = "answered" /\ UNCHANGED <<asked, offset, total, due>>
      /\ page' = Paged(Ordered, limit, k)
      /\ seen' = seen \cup (due \cap ToSet(page'))
  BY DEF SelectPage
<1>2. /\ limit \in Nat /\ k \in Nat /\ total \in Nat /\ n \in Nat
      /\ total <= n /\ due \subseteq Filtered /\ Filtered \subseteq Calls
      /\ \A c : Rank(c) \in Nat
      /\ \A c \in due \ seen : Rank(c) >= k
      /\ limit \in 0 .. MaxLimit /\ seen \subseteq due
  BY <1>1, FilteredFinite DEF WalkInv, WalkTypes, Ahead, Counted
<1>3. /\ Ordered \in Seq(Filtered) /\ Len(Ordered) = n
      /\ \A c \in Filtered : Rank(c) + 1 \in 1 .. n /\ Ordered[Rank(c) + 1] = c
  BY OrderedByRank DEF WalkInv
<1>4. /\ page' \in Seq(Filtered)
      /\ limit = 0 => page' = Ordered
      /\ limit > 0 =>
           /\ \A i \in 1 .. Len(page') : page'[i] = Ordered[k + i] /\ k + i \in 1 .. n
           /\ Len(page') <= limit
           /\ Len(page') = limit \/ k + Len(page') >= n
  <2> DEFINE p == page'
             s == Ordered
             S == Filtered
  <2>1. /\ s \in Seq(S) /\ limit \in Nat /\ k \in Nat
        /\ p = Paged(s, limit, k) /\ Len(s) = n
    BY <1>1, <1>2, <1>3
  <2> HIDE DEF n, k, limit, p, s, S
  <2>2. /\ p \in Seq(S)
        /\ limit = 0 => p = s
        /\ limit > 0 =>
             /\ \A i \in 1 .. Len(p) : p[i] = s[k + i] /\ k + i \in 1 .. Len(s)
             /\ Len(p) <= limit
             /\ Len(p) = limit \/ k + Len(p) >= Len(s)
    BY <2>1, PageOf
  <2>3. QED
    BY <2>1, <2>2 DEF p, s, S
<1> HIDE DEF n, k, limit
<1>5. Len(page') \in Nat /\ page' \in Seq(Calls)
  <2>1. \A i \in 1 .. Len(page') : page'[i] \in Calls
    BY <1>2, <1>4, ElementOfSeq
  <2>2. QED
    BY <1>4, <2>1
<1>6. ASSUME NEW i \in 1 .. Len(page'), page'[i] \in due
      PROVE  page'[i] \in seen'
  BY <1>1, <1>4, <1>6 DEF ToSet
\* What it had not been shown before and is not on the page is behind the page.
<1>7. ASSUME NEW c \in due \ seen' PROVE limit > 0 /\ Rank(c) >= k + Len(page')
  <2>1. c \in Filtered /\ c \in due \ seen /\ Rank(c) \in Nat /\ Rank(c) >= k
    BY <1>1, <1>2, <1>7
  <2> DEFINE i == Rank(c) + 1
  <2>2. i \in 1 .. n /\ Ordered[i] = c
    BY <1>3, <2>1
  <2>3. \A j \in 1 .. Len(page') : page'[j] # c
    BY <1>6, <1>7
  <2>4. limit > 0
    <3>1. CASE limit = 0
      BY <1>3, <1>4, <2>2, <2>3, <3>1
    <3>2. QED
      BY <1>2, <3>1
  <2>5. ASSUME i - k \in 1 .. Len(page') PROVE FALSE
    <3> DEFINE j == i - k
    <3>1. j \in 1 .. Len(page') /\ k + j = i
      BY <1>2, <2>1, <2>5
    <3> HIDE DEF j
    <3>2. page'[j] = Ordered[k + j]
      BY <1>4, <2>4, <3>1
    <3>3. QED
      BY <2>2, <2>3, <3>1, <3>2
  <2>6. QED
    BY <1>2, <1>5, <2>1, <2>4, <2>5
<1>8. WalkTypes'
  BY <1>1, <1>2 DEF WalkInv, WalkTypes
<1>9. Filtered' = Filtered /\ \A c : Rank(c)' = Rank(c)
  BY <1>1 DEF Filtered, Rank, Preceding, Before
<1>10. page' = <<>> => due \subseteq seen'
  <2> SUFFICES ASSUME page' = <<>>, NEW c \in due \ seen' PROVE FALSE
    OBVIOUS
  <2>1. limit > 0 /\ Len(page') = 0 /\ k + Len(page') >= n /\ Rank(c) >= k
    BY <1>2, <1>4, <1>7
  <2>2. Rank(c) + 1 \in 1 .. n
    BY <1>2, <1>3
  <2>3. QED
    BY <1>2, <2>1, <2>2
<1>11. limit = 0 => due \subseteq seen'
  BY <1>7
<1>12. Ahead'
  BY <1>1, <1>2, <1>7, <1>9, <1>10, <1>11 DEF Ahead, k, limit
<1>13. Counted'
  <2>1. offset + Len(page') >= total \/ (limit > 0 /\ Len(page') = limit)
    BY <1>2, <1>3, <1>4, <1>5 DEF k
  <2>2. QED
    BY <1>1, <2>1 DEF Counted, PageReachesTotal, limit
<1>14. QED
  BY <1>5, <1>8, <1>12, <1>13 DEF WalkInv

LEMMA ContinueKeeps ==
  ASSUME WalkInv, cdr \subseteq Calls, Continue, cdr' = cdr
  PROVE  WalkInv'
<1>1. pc = "answered" /\ UNCHANGED <<asked, due, seen>>
  BY DEF Continue
<1>2. Filtered' = Filtered /\ (\A c : Rank(c)' = Rank(c)) /\ IsFiniteSet(cdr')
  BY <1>1 DEF Filtered, Rank, Preceding, Before, WalkInv
<1>3. CASE page = <<>> \/ asked.limit = 0
  <2>1. pc' = "done" /\ UNCHANGED <<offset, total, page>>
    BY <1>3 DEF Continue
  <2>2. Ahead' /\ Counted'
    BY <1>1, <1>2, <1>3, <2>1 DEF WalkInv, Ahead, Counted, PageReachesTotal
  <2>3. WalkTypes' /\ page' \in Seq(Calls)
    BY <1>1, <2>1 DEF WalkInv, WalkTypes
  <2>4. QED
    BY <1>2, <2>2, <2>3 DEF WalkInv
<1>4. CASE ~(page = <<>> \/ asked.limit = 0)
  <2>1. /\ pc' = "count" /\ offset' = offset + Len(page) /\ total' = 0 /\ page' = <<>>
    BY <1>4 DEF Continue
  <2>2. Len(page) \in Nat
    BY DEF WalkInv
  <2>3. Ahead' /\ Counted'
    BY <1>1, <1>2, <2>1 DEF WalkInv, Ahead, Counted, PageReachesTotal
  <2>4. WalkTypes' /\ page' \in Seq(Calls)
    BY <1>1, <2>1, <2>2 DEF WalkInv, WalkTypes
  <2>5. QED
    BY <1>2, <2>3, <2>4 DEF WalkInv
<1>5. QED
  BY <1>3, <1>4

LEMMA CountKeeps ==
  ASSUME WalkInv, cdr \subseteq Calls, CountRows, cdr' = cdr
  PROVE  WalkInv'
<1>1. /\ pc = "count" /\ pc' = "page" /\ total' = Cardinality(Filtered)
      /\ UNCHANGED <<asked, offset, page, due, seen>>
  BY DEF CountRows
<1>2. Filtered' = Filtered /\ (\A c : Rank(c)' = Rank(c)) /\ IsFiniteSet(cdr')
  BY <1>1 DEF Filtered, Rank, Preceding, Before, WalkInv
<1>3. Cardinality(Filtered) \in Nat
  BY FilteredFinite DEF WalkInv
<1>4. Ahead' /\ Counted'
  BY <1>1, <1>2, <1>3 DEF WalkInv, Ahead, Counted, PageReachesTotal
<1>5. WalkTypes' /\ page' \in Seq(Calls)
  BY <1>1, <1>3 DEF WalkInv, WalkTypes
<1>6. QED
  BY <1>2, <1>4, <1>5 DEF WalkInv

LEMMA InitInv == Init => Inv
<1> SUFFICES ASSUME Init PROVE Inv
  OBVIOUS
<1>1. IngestInv
  BY CdrAssumption DEF Init, IngestInv, IngestTypes, NoneLost, StoredOnce
<1>2. IsFiniteSet(cdr)
  BY FS_EmptySet DEF Init
<1>3. WalkTypes /\ Ahead /\ Counted /\ page \in Seq(Calls)
  BY CdrAssumption DEF Init, WalkTypes, Ahead, Counted, PageReachesTotal
<1>4. QED
  BY <1>1, <1>2, <1>3 DEF Inv, WalkInv

LEMMA NextInv == Inv /\ [Next]_vars => Inv'
<1> SUFFICES ASSUME Inv, [Next]_vars PROVE Inv'
  OBVIOUS
<1>1. IngestInv /\ WalkInv /\ IngestInv'
  BY Inductive DEF Inv
<1>2. cdr \subseteq Calls /\ cdr' \subseteq Calls
  BY <1>1 DEF IngestInv, IngestTypes
<1>3. CASE UNCHANGED walk
  BY <1>1, <1>2, <1>3, TableGrows, GrowthKeeps DEF Inv
<1>4. CASE cdr' = cdr /\ NoWalk
  BY <1>1, <1>4, NoWalkKeeps DEF Inv, WalkInv
<1>5. CASE cdr' = cdr /\ (Open \/ CountRows \/ SelectPage \/ Continue)
  BY <1>1, <1>2, <1>5, OpenKeeps, CountKeeps, SelectKeeps, ContinueKeeps DEF Inv
<1>6. QED
  BY <1>1, <1>3, <1>4, <1>5, TableGrows

\* The posts, the table and the walk keep their types.
THEOREM Typing == Spec => []TypeOK
<1>1. Inv => TypeOK
  BY DEF Inv, IngestInv, WalkInv, TypeOK
<1>2. QED
  BY <1>1, InitInv, NextInv, PTL DEF Spec

\* No record is lost: one that FreeSWITCH no longer keeps is in the table,
\* and the table holds one row per uuid (api/cdr.go:96-102, store/cdr.go:21).
THEOREM RecordsKept == Spec => [](NoneLost /\ StoredOnce)
<1>1. Inv => NoneLost /\ StoredOnce
  BY DEF Inv, IngestInv
<1>2. QED
  BY <1>1, InitInv, NextInv, PTL DEF Spec

\* A walk to the first empty page has shown every matching row that was there
\* when it began, whatever was inserted meanwhile, in whatever order
\* (store/cdr.go:43-47).
THEOREM WalkShowsAll == Spec => []WalkComplete
<1>1. Inv => WalkComplete
  BY DEF Inv, WalkInv, Ahead, WalkComplete
<1>2. QED
  BY <1>1, InitInv, NextInv, PTL DEF Spec

\* A page is full or reaches the total that was counted before it
\* (store/cdr.go:40-48).
THEOREM TotalReached == Spec => []PageReachesTotal
<1>1. Inv => PageReachesTotal
  BY DEF Inv, WalkInv, Counted
<1>2. QED
  BY <1>1, InitInv, NextInv, PTL DEF Spec

--------------------------------------------------------------------------------
(* The list of recordings.                                                 *)

\* Paths of the tree: years, months and days.
Paths == {p \in Seq(Nat) : Len(p) <= 3}

\* Day (or path) d lies under path p.
Holds(p, d) == \A k \in 1 .. Len(p) : d[k] = p[k]

\* All that lies under p is later than all that lies under q.
Later(p, q) ==
  \E k \in 1 .. 3 :
    /\ k <= Len(p) /\ k <= Len(q) /\ p[k] > q[k]
    /\ \A h \in 1 .. 3 : h < k => p[h] = q[h]

TreeTypes ==
  /\ tree \subseteq Days /\ todo \in Seq(Paths) /\ out \in Seq(Days)
  /\ range \in [from: Days, to: Days]
  /\ listing \in {"idle", "walking", "done", "failed"}
  /\ stable \subseteq tree
  /\ listing # "idle" => tree \subseteq ever
  /\ listing \in {"idle", "done"} => todo = <<>>
  /\ listing = "idle" => out = <<>>

\* What was found is in falling order, what is to be listed is too and is earlier.
Falling ==
  /\ \A i, j \in 1 .. Len(todo) : i < j => Later(todo[i], todo[j])
  /\ \A i, j \in 1 .. Len(out) : i < j => Later(out[i], out[j])
  /\ \A i \in 1 .. Len(out), j \in 1 .. Len(todo) : Later(out[i], todo[j])

\* Only days of the range are listed and found.
Wanted ==
  /\ \A i \in 1 .. Len(todo) : Len(todo[i]) = 3 => RC!InRange(todo[i])
  /\ \A i \in 1 .. Len(out) : RC!InRange(out[i]) /\ out[i] \in ever

\* A day that is to be found has been, or lies under what is to be listed.
Covered ==
  listing \in {"walking", "done"} =>
    \A d \in stable :
      RC!InRange(d) =>
        \/ \E i \in 1 .. Len(out) : out[i] = d
        \/ \E i \in 1 .. Len(todo) : Holds(todo[i], d)

TreeInv == TreeTypes /\ Falling /\ Wanted /\ Covered

LEMMA DayIsPath ==
  ASSUME NEW d \in Days
  PROVE  d \in Paths /\ d \in Seq(Nat) /\ Len(d) = 3 /\ \A k \in 1 .. 3 : d[k] \in Nat
<1>1. d \in Seq(Nat) /\ Len(d) = 3
  BY DaysAssumption
<1>2. \A k \in 1 .. 3 : d[k] \in Nat
  BY <1>1, ElementOfSeq
<1>3. d \in Paths
  <2>1. Len(d) <= 3
    BY <1>1
  <2>2. QED
    BY <1>1, <2>1, Zenon DEF Paths
<1>4. QED
  BY <1>1, <1>2, <1>3

LEMMA PathShape ==
  ASSUME NEW p \in Paths
  PROVE  p \in Seq(Nat) /\ Len(p) \in 0 .. 3
<1>1. p \in Seq(Nat) /\ Len(p) <= 3
  BY DEF Paths
<1>2. Len(p) \in Nat
  BY <1>1
<1>3. \A n \in Nat : n <= 3 => n \in 0 .. 3
  OBVIOUS
<1>4. QED
  BY <1>1, <1>2, <1>3

\* The first m names of a day.
LEMMA FirstNames ==
  ASSUME NEW d \in Days, NEW m \in 0 .. 3
  PROVE  /\ SubSeq(d, 1, m) \in Seq(Nat) /\ Len(SubSeq(d, 1, m)) = m
         /\ \A k \in 1 .. m : SubSeq(d, 1, m)[k] = d[k]
<1>1. \A k \in 1 .. m : d[k] \in Nat
  BY DayIsPath
<1>2. /\ SubSeq(d, 1, m) \in Seq(Nat)
      /\ Len(SubSeq(d, 1, m)) = IF 1 <= m THEN m - 1 + 1 ELSE 0
      /\ \A k \in 1 .. m - 1 + 1 : SubSeq(d, 1, m)[k] = d[1 + k - 1]
  BY <1>1, SubSeqProperties
<1>3. QED
  BY <1>2

LEMMA SamePath ==
  ASSUME NEW p \in Seq(Nat), NEW q \in Seq(Nat), Len(p) = Len(q),
         \A k \in 1 .. Len(p) : p[k] = q[k]
  PROVE  p = q
OBVIOUS

LEMMA UnderHolds ==
  ASSUME tree \subseteq Days, NEW path \in Paths
  PROVE  RC!Under(path) = {d \in tree : Holds(path, d)}
<1>1. path \in Seq(Nat) /\ Len(path) \in 0 .. 3
  <2>1. path \in Seq(Nat) /\ Len(path) <= 3
    BY DEF Paths
  <2>2. Len(path) \in Nat
    BY <2>1
  <2>3. \A n \in Nat : n <= 3 => n \in 0 .. 3
    OBVIOUS
  <2>4. QED
    BY <2>1, <2>2, <2>3
<1>2. ASSUME NEW d \in tree PROVE SubSeq(d, 1, Len(path)) = path <=> Holds(path, d)
  <2>1. /\ SubSeq(d, 1, Len(path)) \in Seq(Nat) /\ Len(SubSeq(d, 1, Len(path))) = Len(path)
        /\ \A k \in 1 .. Len(path) : SubSeq(d, 1, Len(path))[k] = d[k]
    BY <1>1, FirstNames
  <2> DEFINE p == SubSeq(d, 1, Len(path))
  <2> HIDE DEF p
  <2>2. p = path <=> \A k \in 1 .. Len(path) : p[k] = path[k]
    BY <1>1, <2>1, SamePath DEF p
  <2>3. QED
    BY <2>1, <2>2 DEF p, Holds
<1>3. QED
  BY <1>2 DEF RC!Under

\* A directory that is visited lies in the one listed, and is worth it.
LEMMA DirShape ==
  ASSUME tree \subseteq Days, NEW path \in Paths, Len(path) < 3
  PROVE  /\ IsFiniteSet(RC!Dirs(path))
         /\ \A e \in RC!Dirs(path) :
              /\ e \in Seq(Nat) /\ Len(e) = Len(path) + 1
              /\ Holds(path, e) /\ RC!Worth(e)
         /\ \A d \in tree : Holds(path, d) =>
              LET e == SubSeq(d, 1, Len(path) + 1)
              IN  /\ Len(e) = Len(path) + 1 /\ Holds(e, d)
                  /\ RC!Worth(e) => e \in RC!Dirs(path)
<1> DEFINE m == Len(path) + 1
           U == RC!Under(path)
           all == {SubSeq(f, 1, m) : f \in U}
           g == [f \in U |-> SubSeq(f, 1, m)]
<1>1. m \in 1 .. 3 /\ U = {d \in tree : Holds(path, d)} /\ Len(path) \in Nat
  BY UnderHolds DEF Paths
<1>2. IsFiniteSet(all)
  <2>1. U \in SUBSET Days
    BY <1>1
  <2>2. IsFiniteSet(U)
    BY <2>1, FS_Subset, DaysAssumption
  <2>3. g \in Surjection(U, all)
    <3>1. g \in [U -> all]
      OBVIOUS
    <3>2. \A t \in all : \E f \in U : g[f] = t
      OBVIOUS
    <3>3. QED
      BY <3>1, <3>2 DEF Surjection
  <2>4. QED
    BY <2>2, <2>3, FS_Surjection
<1>3. RC!Dirs(path) = {d \in all : RC!Worth(d)}
  BY DEF RC!Dirs
<1>4. ASSUME NEW d \in tree, Holds(path, d)
      PROVE  /\ SubSeq(d, 1, m) \in Seq(Nat) /\ Len(SubSeq(d, 1, m)) = m
             /\ \A k \in 1 .. m : SubSeq(d, 1, m)[k] = d[k]
  BY <1>1, FirstNames
<1>5. IsFiniteSet(RC!Dirs(path))
  <2>1. RC!Dirs(path) \in SUBSET all
    BY <1>3
  <2>2. QED
    BY <1>2, <2>1, FS_Subset
<1>6. ASSUME NEW e \in RC!Dirs(path)
      PROVE  e \in Seq(Nat) /\ Len(e) = m /\ Holds(path, e) /\ RC!Worth(e)
  <2>1. PICK f \in U : e = SubSeq(f, 1, m)
    BY <1>3
  <2>2. f \in tree /\ Holds(path, f)
    BY <1>1
  <2>3. e \in Seq(Nat) /\ Len(e) = m /\ \A k \in 1 .. m : e[k] = f[k]
    BY <1>4, <2>1, <2>2
  <2>4. Holds(path, e)
    BY <1>1, <2>2, <2>3 DEF Holds
  <2>5. QED
    BY <1>3, <2>3, <2>4
<1>7. ASSUME NEW d \in tree, Holds(path, d)
      PROVE  /\ Len(SubSeq(d, 1, m)) = m /\ Holds(SubSeq(d, 1, m), d)
             /\ RC!Worth(SubSeq(d, 1, m)) => SubSeq(d, 1, m) \in RC!Dirs(path)
  <2>1. d \in U
    BY <1>1, <1>7
  <2>2. SubSeq(d, 1, m) \in all
    BY <2>1
  <2>3. Holds(SubSeq(d, 1, m), d)
    BY <1>4, <1>7 DEF Holds
  <2>4. QED
    BY <1>3, <1>4, <1>7, <2>2, <2>3
<1>8. QED
  BY <1>5, <1>6, <1>7

LEMMA SameCardinality == ASSUME NEW S PROVE RC!Cardinality(S) = Cardinality(S)
BY DEF RC!Cardinality, Cardinality

\* Directories are visited by falling name, each once.
LEMMA DirsListed ==
  ASSUME tree \subseteq Days, NEW path \in Paths, Len(path) < 3,
         NEW q, q = RC!descendingDirs(path)
  PROVE  /\ q \in Seq(RC!Dirs(path))
         /\ \A e \in RC!Dirs(path) : \E i \in 1 .. Len(q) : q[i] = e
         /\ \A i, j \in 1 .. Len(q) :
              i < j => q[i][Len(path) + 1] > q[j][Len(path) + 1]
<1> DEFINE S == RC!Dirs(path)
           m == Len(path) + 1
           R == {p \in S \X S : p[1][m] > p[2][m]}
<1>1. /\ IsFiniteSet(S) /\ m \in 1 .. 3
      /\ \A e \in S : e \in Seq(Nat) /\ Len(e) = m /\ Holds(path, e) /\ e[m] \in Nat
  <2>1. IsFiniteSet(S) /\ \A e \in S : e \in Seq(Nat) /\ Len(e) = m /\ Holds(path, e)
    BY DirShape
  <2>2. m \in 1 .. 3
    BY DEF Paths
  <2>3. \A e \in S : e[m] \in Nat
    BY <2>1, <2>2, ElementOfSeq
  <2>4. QED
    BY <2>1, <2>2, <2>3
<1>2. \A a, b \in S : a[m] = b[m] => a = b
  <2> SUFFICES ASSUME NEW a \in S, NEW b \in S, a[m] = b[m] PROVE a = b
    OBVIOUS
  <2>1. \A k \in 1 .. m : a[k] = b[k]
    <3>1. \A k \in 1 .. Len(path) : a[k] = path[k] /\ b[k] = path[k]
      BY <1>1 DEF Holds
    <3>2. Len(path) \in Nat
      BY DEF Paths
    <3>3. \A k \in 1 .. m : k \in 1 .. Len(path) \/ k = m
      BY <3>2
    <3>4. QED
      BY <3>1, <3>3
  <2>2. QED
    BY <1>1, <2>1, SamePath
<1>3. \A a, b \in S : <<a, b>> \in R <=> a[m] > b[m]
  OBVIOUS
<1> HIDE DEF R
<1>4. Orders(R, S)
  <2>1. \A a \in S : a[m] \in Nat
    BY <1>1
  <2> HIDE DEF S, m
  <2>2. \A a \in S : <<a, a>> \notin R
    BY <1>3, <2>1
  <2>3. \A a, b \in S : a # b => <<a, b>> \in R \/ <<b, a>> \in R
    BY <1>2, <1>3, <2>1
  <2>4. \A a, b, c \in S : <<a, b>> \in R /\ <<b, c>> \in R => <<a, c>> \in R
    BY <1>3, <2>1
  <2>5. QED
    BY <2>2, <2>3, <2>4 DEF Orders
<1>5. \A c \in S : Place(S, R, c) = Cardinality(RC!Above(path, c))
  <2> SUFFICES ASSUME NEW c \in S PROVE Below(S, R, c) = RC!Above(path, c)
    BY DEF Place
  <2>1. RC!Above(path, c) = {e \in S : e[m] > c[m]}
    BY <1>1 DEF RC!Above
  <2>2. QED
    BY <1>3, <2>1 DEF Below
<1>6. q = [i \in 1 .. Cardinality(S) |->
             CHOOSE c \in S : Cardinality(RC!Above(path, c)) = i - 1]
  BY SameCardinality DEF RC!descendingDirs
<1>7. ASSUME NEW i \in 1 .. Cardinality(S)
      PROVE  q[i] \in S /\ Place(S, R, q[i]) = i - 1
  <2>1. \E c \in S : Cardinality(RC!Above(path, c)) = i - 1
    BY <1>1, <1>4, <1>5, Places
  <2>2. q[i] = CHOOSE c \in S : Cardinality(RC!Above(path, c)) = i - 1
    BY <1>6
  <2>3. QED
    BY <1>5, <2>1, <2>2
<1>8. q = [i \in 1 .. Cardinality(S) |-> q[i]]
  BY <1>6
<1> HIDE DEF S
<1>9. /\ q \in Seq(S) /\ Len(q) = Cardinality(S)
      /\ \A c \in S : Place(S, R, c) + 1 \in 1 .. Len(q) /\ q[Place(S, R, c) + 1] = c
      /\ \A i, j \in 1 .. Len(q) : i < j => <<q[i], q[j]>> \in R
  <2>1. IsFiniteSet(S) /\ InPlaces(q, S, R)
    BY <1>1, <1>7, <1>8 DEF InPlaces
  <2>2. QED
    BY <1>4, <2>1, ByPlace
<1>10. \A i, j \in 1 .. Len(q) : i < j => q[i][m] > q[j][m]
  BY <1>3, <1>9, ElementOfSeq
<1>11. QED
  BY <1>9, <1>10 DEF S
--------------------------------------------------------------------------------
(* Steps of the walk of the recordings.                                    *)

\* What is later or earlier than a path is later or earlier than all under it.
LEMMA LaterUnder ==
  ASSUME NEW p \in Seq(Nat), NEW e \in Seq(Nat), NEW r \in Seq(Nat),
         Holds(p, e), Len(p) <= Len(e)
  PROVE  /\ Later(p, r) => Later(e, r)
         /\ Later(r, p) => Later(r, e)
<1>0. Len(p) \in Nat /\ Len(e) \in Nat
  OBVIOUS
<1>1. ASSUME NEW k \in 1 .. 3, k <= Len(p)
      PROVE  k <= Len(e) /\ e[k] = p[k] /\ \A h \in 1 .. 3 : h < k => e[h] = p[h]
  <2>1. \A h \in 1 .. 3 : h <= k => h \in 1 .. Len(p)
    BY <1>0, <1>1
  <2>2. \A h \in 1 .. 3 : h <= k => e[h] = p[h]
    BY <2>1 DEF Holds
  <2>3. k <= Len(e)
    BY <1>0, <1>1
  <2>4. QED
    BY <2>2, <2>3
<1>2. ASSUME Later(p, r) PROVE Later(e, r)
  <2>1. PICK k \in 1 .. 3 :
          /\ k <= Len(p) /\ k <= Len(r) /\ p[k] > r[k]
          /\ \A h \in 1 .. 3 : h < k => p[h] = r[h]
    BY <1>2 DEF Later
  <2>2. QED
    BY <1>1, <2>1 DEF Later
<1>3. ASSUME Later(r, p) PROVE Later(r, e)
  <2>1. PICK k \in 1 .. 3 :
          /\ k <= Len(r) /\ k <= Len(p) /\ r[k] > p[k]
          /\ \A h \in 1 .. 3 : h < k => r[h] = p[h]
    BY <1>3 DEF Later
  <2>2. QED
    BY <1>1, <2>1 DEF Later
<1>4. QED
  BY <1>2, <1>3

\* Two directories of one listing, by their last names.
LEMMA LaterBeside ==
  ASSUME NEW p \in Paths, Len(p) < 3, NEW a \in Seq(Nat), NEW b \in Seq(Nat),
         Len(a) = Len(p) + 1, Len(b) = Len(p) + 1, Holds(p, a), Holds(p, b),
         a[Len(p) + 1] > b[Len(p) + 1]
  PROVE  Later(a, b)
<1>1. Len(p) \in Nat /\ Len(p) + 1 \in 1 .. 3
  <2>1. p \in Seq(Nat)
    BY PathShape
  <2>2. Len(p) \in Nat
    BY <2>1
  <2>3. QED
    BY <2>2
<1>2. \A h \in 1 .. 3 : h < Len(p) + 1 => a[h] = b[h]
  BY <1>1 DEF Holds
<1>3. QED
  BY <1>1, <1>2 DEF Later

\* A day of the range lies under a directory of every listing above it.
LEMMA WorthAbove ==
  ASSUME range \in [from: Days, to: Days], NEW d \in Days, RC!InRange(d),
         NEW e \in Seq(Nat), Len(e) \in 1 .. 3, Holds(e, d)
  PROVE  RC!Worth(e)
<1>1. /\ d \in Seq(Nat) /\ Len(d) = 3
      /\ d[1] \in Nat /\ range.from[1] \in Nat /\ range.to[1] \in Nat
  BY DayIsPath
<1>2. CASE Len(e) = 1
  <2>1. e[1] = d[1]
    BY <1>2 DEF Holds
  <2>2. range.from[1] <= d[1] /\ d[1] <= range.to[1]
    BY <1>1 DEF RC!InRange, RC!Earlier
  <2>3. QED
    BY <1>2, <2>1, <2>2 DEF RC!Worth
<1>3. CASE Len(e) = 2
  BY <1>3 DEF RC!Worth
<1>4. CASE Len(e) = 3
  <2>1. e = d
    BY <1>1, <1>4, SamePath DEF Holds
  <2>2. QED
    BY <1>4, <2>1 DEF RC!Worth
<1>5. QED
  BY <1>2, <1>3, <1>4

LEMMA IsPath ==
  ASSUME NEW p \in Seq(Nat), Len(p) <= 3
  PROVE  p \in Paths
BY Zenon DEF Paths

LEMMA SeqAmong ==
  ASSUME NEW S, NEW T, NEW s \in Seq(S), \A i \in 1 .. Len(s) : s[i] \in T
  PROVE  s \in Seq(T)
OBVIOUS

LEMMA HeadAndRest ==
  ASSUME NEW S, NEW s \in Seq(S), s # <<>>
  PROVE  /\ Head(s) = s[1] /\ Head(s) \in S /\ 1 \in 1 .. Len(s)
         /\ Tail(s) \in Seq(S) /\ Len(Tail(s)) = Len(s) - 1 /\ Len(s) \in Nat
         /\ \A i \in 1 .. Len(Tail(s)) : i + 1 \in 1 .. Len(s) /\ Tail(s)[i] = s[i + 1]
         /\ \A i \in 1 .. Len(s) :
              i = 1 \/ (i - 1 \in 1 .. Len(Tail(s)) /\ s[i] = Tail(s)[i - 1])
OBVIOUS

\* A day is listed: it is found if it is still there.
LEMMA ListDayKeeps ==
  ASSUME TreeInv, listing = "walking", todo # <<>>, Len(Head(todo)) = 3,
         todo' = Tail(todo),
         out' = IF Head(todo) \in tree THEN Append(out, Head(todo)) ELSE out,
         UNCHANGED <<tree, range, listing, stable, ever, changes>>
  PROVE  TreeInv'
<1> DEFINE path == Head(todo)
           rest == Tail(todo)
<1>1. /\ path = todo[1] /\ path \in Paths /\ 1 \in 1 .. Len(todo)
      /\ rest \in Seq(Paths) /\ Len(todo) \in Nat
      /\ \A i \in 1 .. Len(rest) : i + 1 \in 1 .. Len(todo) /\ rest[i] = todo[i + 1]
      /\ \A i \in 1 .. Len(todo) :
           i = 1 \/ (i - 1 \in 1 .. Len(rest) /\ todo[i] = rest[i - 1])
  BY HeadAndRest DEF TreeInv, TreeTypes
<1>2. Len(path) = 3 /\ todo' = rest
  OBVIOUS
<1>3. path \in tree => path \in Days /\ path \in ever
  BY DEF TreeInv, TreeTypes
<1>4. /\ out \in Seq(Days) /\ Len(out) \in Nat
      /\ path \notin tree => out' = out
      /\ path \in tree =>
           /\ out' \in Seq(Days) /\ Len(out') = Len(out) + 1 /\ out'[Len(out) + 1] = path
           /\ \A i \in 1 .. Len(out) : out'[i] = out[i]
  BY <1>3 DEF TreeInv, TreeTypes
<1> HIDE DEF path, rest
<1>5. \A i \in 1 .. Len(out') : \/ i \in 1 .. Len(out) /\ out'[i] = out[i]
                                \/ i = Len(out) + 1 /\ path \in tree /\ out'[i] = path
  BY <1>4
<1>6. TreeTypes'
  BY <1>1, <1>2, <1>4 DEF TreeInv, TreeTypes
<1>7. Falling'
  <2>1. \A i, j \in 1 .. Len(todo') : i < j => Later(todo'[i], todo'[j])
    BY <1>1, <1>2 DEF TreeInv, Falling
  <2>2. \A j \in 1 .. Len(todo') : Later(path, todo'[j])
    BY <1>1, <1>2 DEF TreeInv, Falling
  <2>3. \A i \in 1 .. Len(out) : Later(out[i], path)
    BY <1>1 DEF TreeInv, Falling
  <2>4. \A i \in 1 .. Len(out), j \in 1 .. Len(todo') : Later(out[i], todo'[j])
    BY <1>1, <1>2 DEF TreeInv, Falling
  <2>5. \A i, j \in 1 .. Len(out') : i < j => Later(out'[i], out'[j])
    BY <1>4, <1>5, <2>3 DEF TreeInv, Falling
  <2>6. \A i \in 1 .. Len(out'), j \in 1 .. Len(todo') : Later(out'[i], todo'[j])
    BY <1>5, <2>2, <2>4
  <2>7. QED
    BY <2>1, <2>5, <2>6 DEF Falling, Later
<1>8. Wanted'
  <2>1. \A d : RC!InRange(d)' <=> RC!InRange(d)
    BY DEF RC!InRange
  <2>2. \A i \in 1 .. Len(todo') : Len(todo'[i]) = 3 => RC!InRange(todo'[i])
    BY <1>1, <1>2 DEF TreeInv, Wanted
  <2>3. RC!InRange(path)
    BY <1>1, <1>2 DEF TreeInv, Wanted
  <2>4. \A i \in 1 .. Len(out') : RC!InRange(out'[i]) /\ out'[i] \in ever
    BY <1>3, <1>5, <2>3 DEF TreeInv, Wanted
  <2>5. QED
    BY <2>1, <2>2, <2>4 DEF Wanted
<1>9. Covered'
  <2> SUFFICES ASSUME NEW d \in stable, RC!InRange(d)
               PROVE  \/ \E i \in 1 .. Len(out') : out'[i] = d
                      \/ \E i \in 1 .. Len(todo') : Holds(todo'[i], d)
    BY DEF Covered, RC!InRange, Holds
  <2>1. d \in tree /\ d \in Days /\ d \in Seq(Nat) /\ Len(d) = 3
    BY DayIsPath DEF TreeInv, TreeTypes
  <2>2. CASE \E i \in 1 .. Len(out) : out[i] = d
    BY <1>4, <2>2
  <2>3. CASE \E i \in 1 .. Len(todo) : Holds(todo[i], d)
    <3>1. PICK i \in 1 .. Len(todo) : Holds(todo[i], d)
      BY <2>3
    <3>2. CASE i = 1
      <4>1. path = d
        <5>1. \A k \in 1 .. Len(path) : d[k] = path[k]
          BY <1>1, <3>1, <3>2 DEF Holds
        <5>2. path \in Seq(Nat)
          BY <1>1, PathShape
        <5>3. QED
          BY <1>2, <2>1, <5>1, <5>2, SamePath
      <4>2. Len(out) + 1 \in 1 .. Len(out')
        BY <1>4, <2>1, <4>1
      <4>3. QED
        BY <1>4, <2>1, <4>1, <4>2
    <3>3. CASE i # 1
      <4>1. i - 1 \in 1 .. Len(todo') /\ todo'[i - 1] = todo[i]
        BY <1>1, <1>2, <3>3
      <4>2. Holds(todo'[i - 1], d)
        BY <3>1, <4>1
      <4>3. QED
        BY <4>1, <4>2
    <3>4. QED
      BY <3>2, <3>3
  <2>4. QED
    BY <2>2, <2>3 DEF TreeInv, Covered
<1>10. QED
  BY <1>6, <1>7, <1>8, <1>9 DEF TreeInv

\* A directory is listed: those it holds take its place.
LEMMA ListDirKeeps ==
  ASSUME TreeInv, listing = "walking", todo # <<>>, Len(Head(todo)) # 3,
         todo' = RC!descendingDirs(Head(todo)) \o Tail(todo),
         UNCHANGED <<tree, range, out, listing, stable, ever, changes>>
  PROVE  TreeInv'
<1> DEFINE path == Head(todo)
           rest == Tail(todo)
           q == RC!descendingDirs(path)
           n == Len(q)
<1>1. /\ path = todo[1] /\ path \in Paths /\ 1 \in 1 .. Len(todo)
      /\ rest \in Seq(Paths) /\ Len(todo) \in Nat
      /\ \A i \in 1 .. Len(rest) : i + 1 \in 1 .. Len(todo) /\ rest[i] = todo[i + 1]
      /\ \A i \in 1 .. Len(todo) :
           i = 1 \/ (i - 1 \in 1 .. Len(rest) /\ todo[i] = rest[i - 1])
  BY HeadAndRest DEF TreeInv, TreeTypes
<1>2. Len(path) # 3 /\ todo' = q \o rest /\ q = RC!descendingDirs(path)
  OBVIOUS
<1> HIDE DEF path, rest, q
<1>3. /\ path \in Seq(Nat) /\ Len(path) \in Nat /\ Len(path) < 3
      /\ Len(path) + 1 \in 1 .. 3
  <2>1. path \in Seq(Nat) /\ Len(path) \in 0 .. 3
    BY <1>1, PathShape
  <2>2. \A k \in 0 .. 3 : k # 3 => k \in Nat /\ k < 3 /\ k + 1 \in 1 .. 3
    OBVIOUS
  <2>3. QED
    BY <1>2, <2>1, <2>2
<1>4. tree \subseteq Days
  BY DEF TreeInv, TreeTypes
<1>5. /\ \A e \in RC!Dirs(path) :
           /\ e \in Seq(Nat) /\ Len(e) = Len(path) + 1
           /\ Holds(path, e) /\ RC!Worth(e)
      /\ \A d \in tree : Holds(path, d) =>
           LET e == SubSeq(d, 1, Len(path) + 1)
           IN  /\ Len(e) = Len(path) + 1 /\ Holds(e, d)
               /\ RC!Worth(e) => e \in RC!Dirs(path)
  BY <1>1, <1>3, <1>4, DirShape
<1>6. /\ q \in Seq(RC!Dirs(path))
      /\ \A e \in RC!Dirs(path) : \E i \in 1 .. n : q[i] = e
      /\ \A i, j \in 1 .. n : i < j => q[i][Len(path) + 1] > q[j][Len(path) + 1]
  <2>1. path \in Paths /\ Len(path) < 3 /\ q = RC!descendingDirs(path)
    BY <1>1, <1>2, <1>3
  <2>2. QED
    BY <1>4, <2>1, DirsListed
<1>7. n \in Nat /\ \A i \in 1 .. n : q[i] \in RC!Dirs(path)
  BY <1>6, ElementOfSeq
<1>8. \A i \in 1 .. n : /\ q[i] \in Seq(Nat) /\ Len(q[i]) = Len(path) + 1
                        /\ Holds(path, q[i]) /\ RC!Worth(q[i]) /\ q[i] \in Paths
  BY <1>3, <1>5, <1>7, IsPath
<1>9. /\ todo' \in Seq(Paths) /\ Len(todo') = n + Len(rest) /\ Len(rest) \in Nat
      /\ \A i \in 1 .. Len(todo') : \/ i \in 1 .. n /\ todo'[i] = q[i]
                                    \/ /\ i - n \in 1 .. Len(rest) /\ i > n
                                       /\ todo'[i] = rest[i - n]
      /\ \A i \in 1 .. n : i \in 1 .. Len(todo') /\ todo'[i] = q[i]
      /\ \A i \in 1 .. Len(rest) : i + n \in 1 .. Len(todo') /\ todo'[i + n] = rest[i]
  <2>1. q \in Seq(Paths)
    <3>1. \A i \in 1 .. Len(q) : q[i] \in Paths
      BY <1>8
    <3>2. QED
      BY <1>6, <3>1, SeqAmong
  <2>2. \A i \in 1 .. n + Len(rest) :
          (q \o rest)[i] = IF i <= Len(q) THEN q[i] ELSE rest[i - Len(q)]
    BY <1>1, <2>1, ConcatProperties
  <2>3. q \o rest \in Seq(Paths) /\ Len(q \o rest) = n + Len(rest)
    BY <1>1, <2>1, ConcatProperties
  <2>4. Len(rest) \in Nat
    BY <1>1
  <2>5. ASSUME NEW i \in 1 .. n + Len(rest)
        PROVE  \/ i \in 1 .. n /\ todo'[i] = q[i]
               \/ i - n \in 1 .. Len(rest) /\ i > n /\ todo'[i] = rest[i - n]
    <3>1. todo'[i] = IF i <= n THEN q[i] ELSE rest[i - n]
      BY <1>2, <2>2
    <3>2. \/ i \in 1 .. n /\ i <= n
          \/ i - n \in 1 .. Len(rest) /\ i > n /\ ~(i <= n)
      BY <1>7, <2>4
    <3>3. QED
      BY <3>1, <3>2
  <2>6. ASSUME NEW i \in 1 .. n
        PROVE  i \in 1 .. n + Len(rest) /\ todo'[i] = q[i]
    BY <1>2, <1>7, <2>2, <2>4
  <2>7. ASSUME NEW i \in 1 .. Len(rest)
        PROVE  i + n \in 1 .. n + Len(rest) /\ todo'[i + n] = rest[i]
    <3>1. i + n \in 1 .. n + Len(rest) /\ ~(i + n <= n) /\ i + n - n = i
      BY <1>7, <2>4
    <3>2. (q \o rest)[i + n] = rest[i + n - n]
      BY <2>2, <3>1
    <3>3. QED
      BY <1>2, <3>1, <3>2
  <2>8. Len(todo') = n + Len(rest) /\ todo' \in Seq(Paths)
    BY <1>2, <2>3
  <2> HIDE DEF n
  <2>9. QED
    BY <2>4, <2>5, <2>6, <2>7, <2>8
<1> HIDE DEF n
<1>10. TreeTypes'
  BY <1>9 DEF TreeInv, TreeTypes
<1>11. Falling'
  <2>1. \A i, j \in 1 .. n : i < j => Later(q[i], q[j])
    BY <1>1, <1>3, <1>6, <1>8, LaterBeside DEF n
  <2>2. ASSUME NEW i \in 1 .. n, NEW j \in 1 .. Len(rest) PROVE Later(q[i], rest[j])
    <3>1. Later(path, rest[j])
      BY <1>1 DEF TreeInv, Falling
    <3>2. rest[j] \in Seq(Nat)
      BY <1>1, ElementOfSeq, PathShape
    <3>3. Len(path) <= Len(q[i])
      BY <1>3, <1>8
    <3>4. QED
      BY <1>3, <1>8, <3>1, <3>2, <3>3, LaterUnder
  <2>3. ASSUME NEW i \in 1 .. Len(out), NEW j \in 1 .. n PROVE Later(out[i], q[j])
    <3>1. Later(out[i], path)
      BY <1>1 DEF TreeInv, Falling
    <3>2. out[i] \in Seq(Nat)
      BY ElementOfSeq, DayIsPath DEF TreeInv, TreeTypes
    <3>3. Len(path) <= Len(q[j])
      BY <1>3, <1>8
    <3>4. QED
      BY <1>3, <1>8, <3>1, <3>2, <3>3, LaterUnder
  <2>4. \A i, j \in 1 .. Len(rest) : i < j => Later(rest[i], rest[j])
    BY <1>1 DEF TreeInv, Falling
  <2>5. \A i \in 1 .. Len(out), j \in 1 .. Len(rest) : Later(out[i], rest[j])
    BY <1>1 DEF TreeInv, Falling
  <2>6. ASSUME NEW i \in 1 .. Len(todo'), NEW j \in 1 .. Len(todo'), i < j
        PROVE  Later(todo'[i], todo'[j])
    <3>1. CASE j \in 1 .. n /\ todo'[j] = q[j]
      <4>1. i \in 1 .. n /\ todo'[i] = q[i]
        <5>1. i \in Nat /\ j \in Nat /\ i >= 1 /\ j <= n
          BY <1>7, <1>9, <3>1
        <5>2. i \in 1 .. n
          BY <1>7, <2>6, <5>1
        <5>3. QED
          BY <1>9, <5>2
      <4>2. QED
        BY <2>1, <2>6, <3>1, <4>1
    <3>2. CASE j - n \in 1 .. Len(rest) /\ j > n /\ todo'[j] = rest[j - n]
      <4>1. CASE i \in 1 .. n /\ todo'[i] = q[i]
        BY <2>2, <3>2, <4>1
      <4>2. CASE i - n \in 1 .. Len(rest) /\ todo'[i] = rest[i - n]
        <5>1. i - n < j - n
          BY <1>7, <2>6
        <5>2. QED
          BY <2>4, <3>2, <4>2, <5>1
      <4>3. QED
        BY <1>9, <4>1, <4>2
    <3>3. QED
      BY <1>9, <3>1, <3>2
  <2>7. \A i \in 1 .. Len(out), j \in 1 .. Len(todo') : Later(out[i], todo'[j])
    BY <1>9, <2>3, <2>5
  <2>8. \A i, j \in 1 .. Len(out) : i < j => Later(out[i], out[j])
    BY DEF TreeInv, Falling
  <2>9. out' = out
    OBVIOUS
  <2>10. QED
    BY <2>6, <2>7, <2>8, <2>9 DEF Falling
<1>12. Wanted'
  <2>1. \A d : RC!InRange(d)' <=> RC!InRange(d)
    BY DEF RC!InRange
  <2>2. ASSUME NEW i \in 1 .. n, Len(q[i]) = 3 PROVE RC!InRange(q[i])
    <3> DEFINE e == q[i]
    <3>1. RC!Worth(e) /\ Len(e) = 3
      BY <1>8, <2>2
    <3> HIDE DEF e
    <3>2. RC!InRange(e)
      BY <3>1 DEF RC!Worth
    <3>3. QED
      BY <3>2 DEF e
  <2>3. ASSUME NEW i \in 1 .. Len(rest), Len(rest[i]) = 3 PROVE RC!InRange(rest[i])
    <3>1. i + 1 \in 1 .. Len(todo) /\ rest[i] = todo[i + 1]
      BY <1>1
    <3>2. Len(todo[i + 1]) = 3 => RC!InRange(todo[i + 1])
      BY <3>1 DEF TreeInv, Wanted
    <3>3. QED
      BY <2>3, <3>1, <3>2
  <2>4. ASSUME NEW i \in 1 .. Len(todo'), Len(todo'[i]) = 3
        PROVE  RC!InRange(todo'[i])
    <3>1. CASE i \in 1 .. n /\ todo'[i] = q[i]
      BY <2>2, <2>4, <3>1
    <3>2. CASE i - n \in 1 .. Len(rest) /\ todo'[i] = rest[i - n]
      BY <2>3, <2>4, <3>2
    <3>3. QED
      BY <1>9, <3>1, <3>2
  <2>5. \A i \in 1 .. Len(out) : RC!InRange(out[i]) /\ out[i] \in ever
    BY DEF TreeInv, Wanted
  <2>6. out' = out /\ ever' = ever
    OBVIOUS
  <2>7. QED
    BY <2>1, <2>4, <2>5, <2>6 DEF Wanted
<1>13. Covered'
  <2> SUFFICES ASSUME NEW d \in stable, RC!InRange(d)
               PROVE  \/ \E i \in 1 .. Len(out) : out[i] = d
                      \/ \E i \in 1 .. Len(todo') : Holds(todo'[i], d)
    <3>1. \A d : RC!InRange(d)' <=> RC!InRange(d)
      BY DEF RC!InRange
    <3>2. stable' = stable /\ out' = out
      OBVIOUS
    <3>3. QED
      BY <3>1, <3>2 DEF Covered
  <2>1. d \in tree /\ d \in Days
    BY DEF TreeInv, TreeTypes
  <2>2. CASE \E i \in 1 .. Len(out) : out[i] = d
    BY <2>2
  <2>3. CASE \E i \in 1 .. Len(todo) : Holds(todo[i], d)
    <3>1. PICK i \in 1 .. Len(todo) : Holds(todo[i], d)
      BY <2>3
    <3>2. CASE i = 1
      <4>1. Holds(path, d)
        BY <1>1, <3>1, <3>2
      <4> DEFINE e == SubSeq(d, 1, Len(path) + 1)
      <4>2. /\ Len(e) = Len(path) + 1 /\ Holds(e, d)
            /\ RC!Worth(e) => e \in RC!Dirs(path)
        BY <1>5, <2>1, <4>1
      <4>3. e \in Seq(Nat)
        BY <1>3, <2>1, FirstNames
      <4> HIDE DEF e
      <4>4. RC!Worth(e)
        BY <1>3, <2>1, <4>2, <4>3, WorthAbove DEF TreeInv, TreeTypes
      <4>5. PICK j \in 1 .. n : q[j] = e
        BY <1>6, <4>2, <4>4 DEF n
      <4>6. j \in 1 .. Len(todo') /\ todo'[j] = e
        BY <1>9, <4>5
      <4>7. QED
        BY <4>2, <4>6
    <3>3. CASE i # 1
      <4>1. i - 1 \in 1 .. Len(rest) /\ rest[i - 1] = todo[i]
        BY <1>1, <3>3
      <4>2. i - 1 + n \in 1 .. Len(todo') /\ todo'[i - 1 + n] = todo[i]
        BY <1>9, <4>1
      <4>3. QED
        BY <3>1, <4>2
    <3>4. QED
      BY <3>2, <3>3
  <2>4. QED
    BY <2>2, <2>3 DEF TreeInv, Covered
<1>14. QED
  BY <1>10, <1>11, <1>12, <1>13 DEF TreeInv

\* The tree changes.
LEMMA ChangeKeeps == TreeInv /\ RC!Change => TreeInv'
<1> SUFFICES ASSUME TreeInv, RC!Change PROVE TreeInv'
  OBVIOUS
<1>1. /\ tree' \subseteq Days /\ stable' = stable \cap tree' /\ ever' = ever \cup tree'
      /\ UNCHANGED <<todo, range, out, listing>>
  BY DEF TreeInv, TreeTypes, RC!Change
<1>2. TreeTypes'
  BY <1>1 DEF TreeInv, TreeTypes
<1>3. Falling'
  BY <1>1 DEF TreeInv, Falling
<1>4. Wanted'
  <2>1. \A d : RC!InRange(d)' <=> RC!InRange(d)
    BY <1>1 DEF RC!InRange
  <2>2. QED
    BY <1>1, <2>1 DEF TreeInv, Wanted
<1>5. Covered'
  <2>1. \A d : RC!InRange(d)' <=> RC!InRange(d)
    BY <1>1 DEF RC!InRange
  <2>2. QED
    BY <1>1, <2>1 DEF TreeInv, Covered
<1>6. QED
  BY <1>2, <1>3, <1>4, <1>5 DEF TreeInv

\* The walk starts: all there is lies under the root.
LEMMA BeginKeeps == TreeInv /\ RC!Begin => TreeInv'
<1> SUFFICES ASSUME TreeInv, RC!Begin PROVE TreeInv'
  OBVIOUS
<1>1. /\ listing = "idle" /\ listing' = "walking" /\ todo' = << <<>> >>
      /\ out' = <<>> /\ stable' = tree /\ ever' = tree /\ tree' = tree
  BY DEF TreeInv, TreeTypes, RC!Begin
<1>2. range' \in [from: Days, to: Days]
  BY DEF TreeInv, TreeTypes, RC!Begin
<1>3. /\ Len(todo') = 1 /\ todo'[1] = <<>> /\ Len(out') = 0
      /\ <<>> \in Seq(Nat) /\ Len(<<>>) = 0
  BY <1>1
<1>4. <<>> \in Paths
  <2>1. Len(<<>>) <= 3
    BY <1>3
  <2>2. QED
    BY <1>3, <2>1, Zenon DEF Paths
<1>5. TreeTypes'
  BY <1>1, <1>2, <1>4 DEF TreeInv, TreeTypes
<1>6. Falling'
  BY <1>3 DEF Falling
<1>7. Wanted'
  BY <1>3 DEF Wanted
<1>8. Covered'
  <2>1. \A d : Holds(<<>>, d)
    BY <1>3 DEF Holds
  <2>2. 1 \in 1 .. Len(todo')
    BY <1>3
  <2>3. QED
    BY <1>3, <2>1, <2>2 DEF Covered
<1>9. QED
  BY <1>5, <1>6, <1>7, <1>8 DEF TreeInv

\* The walk ends, with an answer or without.
LEMMA EndKeeps == TreeInv /\ (RC!ListFails \/ RC!Answer) => TreeInv'
<1> SUFFICES ASSUME TreeInv, RC!ListFails \/ RC!Answer PROVE TreeInv'
  OBVIOUS
<1>1. /\ listing = "walking" /\ listing' \in {"done", "failed"}
      /\ listing' = "done" => todo = <<>>
      /\ UNCHANGED <<tree, todo, range, out, stable, ever, changes>>
  BY DEF RC!ListFails, RC!Answer
<1>2. TreeTypes'
  BY <1>1 DEF TreeInv, TreeTypes
<1>3. Falling'
  BY <1>1 DEF TreeInv, Falling
<1>4. \A d : RC!InRange(d)' <=> RC!InRange(d)
  BY <1>1 DEF RC!InRange
<1>5. Wanted'
  BY <1>1, <1>4 DEF TreeInv, Wanted
<1>6. Covered'
  BY <1>1, <1>4 DEF TreeInv, Covered
<1>7. QED
  BY <1>2, <1>3, <1>5, <1>6 DEF TreeInv

LEMMA TreeInit == RC!Init => TreeInv
<1> SUFFICES ASSUME RC!Init PROVE TreeInv
  OBVIOUS
<1>1. /\ tree \subseteq Days /\ todo = <<>> /\ out = <<>> /\ listing = "idle"
      /\ range \in [from: Days, to: Days] /\ stable = {} /\ ever = {}
  BY DEF RC!Init
<1>2. Len(todo) = 0 /\ Len(out) = 0
  BY <1>1
<1>3. TreeTypes
  BY <1>1 DEF TreeTypes
<1>4. QED
  BY <1>1, <1>2, <1>3 DEF TreeInv, Falling, Wanted, Covered

LEMMA TreeNext == TreeInv /\ [RC!Next]_recordings => TreeInv'
<1> SUFFICES ASSUME TreeInv, [RC!Next]_recordings PROVE TreeInv'
  OBVIOUS
<1>1. CASE RC!Change
  BY <1>1, ChangeKeeps
<1>2. CASE RC!Begin
  BY <1>2, BeginKeeps
<1>3. CASE RC!List
  <2>1. /\ listing = "walking" /\ todo # <<>>
        /\ UNCHANGED <<tree, range, listing, stable, ever, changes>>
    BY <1>3 DEF RC!List
  <2>2. CASE Len(Head(todo)) = 3
    <3>1. /\ todo' = Tail(todo)
          /\ out' = IF Head(todo) \in tree THEN Append(out, Head(todo)) ELSE out
      BY <1>3, <2>2 DEF RC!List
    <3>2. QED
      BY <2>1, <2>2, <3>1, ListDayKeeps
  <2>3. CASE Len(Head(todo)) # 3
    <3>1. /\ todo' = RC!descendingDirs(Head(todo)) \o Tail(todo)
          /\ out' = out
      BY <1>3, <2>3 DEF RC!List
    <3>2. QED
      BY <2>1, <2>3, <3>1, ListDirKeeps
  <2>4. QED
    BY <2>2, <2>3
<1>4. CASE RC!ListFails
  BY <1>4, EndKeeps
<1>5. CASE RC!Answer
  BY <1>5, EndKeeps
<1>6. CASE UNCHANGED recordings
  <2>1. UNCHANGED <<tree, todo, range, out, listing, stable, ever>>
    BY <1>6 DEF recordings
  <2>2. \A d : RC!InRange(d)' <=> RC!InRange(d)
    BY <2>1 DEF RC!InRange
  <2>3. QED
    BY <2>1, <2>2 DEF TreeInv, TreeTypes, Falling, Wanted, Covered
<1>7. QED
  BY <1>1, <1>2, <1>3, <1>4, <1>5, <1>6 DEF RC!Next

LEMMA TreeShows == TreeInv => WalkShowsStable
<1> SUFFICES ASSUME TreeInv, listing = "done" PROVE WalkShowsStable
  BY DEF WalkShowsStable, RC!WalkShowsStable
<1> DEFINE found == {out[i] : i \in 1 .. Len(out)}
<1>1. todo = <<>> /\ Len(todo) = 0 /\ stable \subseteq Days /\ out \in Seq(Days)
  BY DEF TreeInv, TreeTypes
<1>2. \A d \in Days : d \in RC!Asked <=> RC!InRange(d)
  BY DEF RC!Asked, RC!InRange
<1>3. stable \cap RC!Asked \subseteq found
  <2> SUFFICES ASSUME NEW d \in stable, d \in RC!Asked PROVE d \in found
    OBVIOUS
  <2>1. RC!InRange(d)
    BY <1>1, <1>2
  <2>2. \E i \in 1 .. Len(out) : out[i] = d
    BY <1>1, <2>1 DEF TreeInv, Covered
  <2>3. QED
    BY <2>2
<1>4. found \subseteq ever \cap RC!Asked
  <2> SUFFICES ASSUME NEW i \in 1 .. Len(out) PROVE out[i] \in ever \cap RC!Asked
    OBVIOUS
  <2>1. out[i] \in Days
    BY <1>1
  <2>2. RC!InRange(out[i]) /\ out[i] \in ever
    BY DEF TreeInv, Wanted
  <2>3. QED
    BY <1>2, <2>1, <2>2
<1>5. ASSUME NEW i \in 1 .. Len(out), NEW j \in 1 .. Len(out), i < j
      PROVE  out[i] # out[j] /\ ~RC!Earlier(out[i], out[j])
  <2>1. Later(out[i], out[j])
    BY <1>5 DEF TreeInv, Falling
  <2>2. \A k \in 1 .. 3 : out[i][k] \in Nat /\ out[j][k] \in Nat
    <3>1. out[i] \in Days /\ out[j] \in Days
      BY <1>1, ElementOfSeq
    <3>2. QED
      BY <3>1, DayIsPath
  <2>3. PICK k \in 1 .. 3 : /\ out[i][k] > out[j][k]
                            /\ \A h \in 1 .. 3 : h < k => out[i][h] = out[j][h]
    BY <2>1 DEF Later
  <2>4. out[i] # out[j]
    BY <2>2, <2>3
  <2>5. ~RC!Earlier(out[i], out[j])
    <3>1. CASE k = 1
      BY <2>2, <2>3, <3>1 DEF RC!Earlier
    <3>2. CASE k = 2
      BY <2>2, <2>3, <3>2 DEF RC!Earlier
    <3>3. CASE k = 3
      BY <2>2, <2>3, <3>3 DEF RC!Earlier
    <3>4. QED
      BY <3>1, <3>2, <3>3
  <2>6. QED
    BY <2>4, <2>5
<1>6. QED
  BY <1>3, <1>4, <1>5 DEF WalkShowsStable, RC!WalkShowsStable

--------------------------------------------------------------------------------
(* The list of recordings, and both parts together.                        *)

\* The list of recordings holds every recording of the range that was there
\* throughout the walk, none that never was, none twice and newer ones before
\* older ones (api/recordings.go:78-81, 132-134, 189-212).
THEOREM ListShowsStable == RC!Spec => []WalkShowsStable
<1>1. TreeInv /\ [RC!Next]_(RC!vars) => TreeInv'
  BY TreeNext DEF RC!vars, recordings
<1>2. QED
  BY <1>1, TreeInit, TreeShows, PTL DEF RC!Spec

\* The same of the two parts side by side, as TLC runs them.
THEOREM Together ==
  HistorySpec => [](WalkComplete /\ PageReachesTotal /\ WalkShowsStable)
<1>1. HistoryInit => Inv /\ TreeInv
  BY InitInv, TreeInit DEF HistoryInit
<1>2. Inv /\ TreeInv /\ [HistoryNext]_<<part, vars, recordings>> => (Inv /\ TreeInv)'
  <2> SUFFICES ASSUME Inv, TreeInv, [HistoryNext]_<<part, vars, recordings>>
               PROVE  Inv' /\ TreeInv'
    OBVIOUS
  <2>1. [Next]_vars /\ [RC!Next]_recordings
    BY DEF HistoryNext
  <2>2. QED
    BY <2>1, NextInv, TreeNext
<1>3. Inv => WalkComplete /\ PageReachesTotal
  BY DEF Inv, WalkInv, Ahead, WalkComplete, Counted
<1>4. QED
  BY <1>1, <1>2, <1>3, TreeShows, PTL DEF HistorySpec
================================================================================
