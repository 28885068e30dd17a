-------------------------- MODULE PickOrder_proofs --------------------------
(***************************************************************************)
(* Proofs about the pick order, for every day of any number of lines: the  *)
(* three numbers of a row's route give the claim order by its definition,  *)
(* a line that is added at the end swaps no stops, and no piece of a       *)
(* scheduled line is dropped silently.                                     *)
(*                                                                         *)
(* Each of the three numbers counts the elements of a finite set that come *)
(* before one, in an order that never ties; counting keeps the order       *)
(* (Counts), which is all that is used of a number.                        *)
(***************************************************************************)
EXTENDS PickOrderDays, FiniteSetTheorems, TLAPS

\* What a day consists of.
DayTyped(d) ==
  /\ d \in Seq(UNION {Lines[i] : i \in 1..MaxLines}) /\ Len(d) <= MaxLines
  /\ \A i \in DOMAIN d : d[i] \in Lines[i]

LEMMA DaysAreTyped == Spec => []DayTyped(day)
<1>1. Init => DayTyped(day)
  <2>1. <<>> \in Seq(UNION {Lines[i] : i \in 1..MaxLines})
    OBVIOUS
  <2> QED BY <2>1, DaysAssumption DEF Init, DayTyped, DaysAssumption
<1>2. DayTyped(day) /\ [Next]_day => DayTyped(day)'
  <2> SUFFICES ASSUME DayTyped(day), ReadLine PROVE DayTyped(day)'
    BY DEF Next, DayTyped
  <2> DEFINE Any == UNION {Lines[i] : i \in 1..MaxLines}
  <2>1. PICK line \in Lines[Len(day) + 1] : day' = Append(day, line)
    BY DEF ReadLine
  <2>2. day \in Seq(Any) /\ Len(day) \in Nat /\ Len(day) + 1 \in 1..MaxLines /\ line \in Any
    BY DaysAssumption DEF ReadLine, DayTyped, DaysAssumption
  <2> HIDE DEF Any
  <2>3. /\ day' \in Seq(Any) /\ Len(day') = Len(day) + 1
        /\ \A i \in 1..Len(day) : day'[i] = day[i]
        /\ day'[Len(day) + 1] = line
    BY <2>1, <2>2
  <2>4. \A i \in DOMAIN day' : day'[i] \in Lines[i]
    BY <2>2, <2>3 DEF DayTyped
  <2>5. Len(day') <= MaxLines
    BY <2>2, <2>3, DaysAssumption DEF DaysAssumption
  <2> QED BY <2>3, <2>4, <2>5 DEF DayTyped, Any
<1> QED BY <1>1, <1>2, PTL DEF Spec

----------------------------------------------------------------------------
(***************************************************************************)
(* Counting, and comparing tuples.                                         *)
(***************************************************************************)

\* r orders S, and never ties.
Orders(r, S) ==
  /\ \A x \in S : <<x, x>> \notin r
  /\ \A x, y, z \in S : <<x, y>> \in r /\ <<y, z>> \in r => <<x, z>> \in r
  /\ \A x, y \in S : x # y => <<x, y>> \in r \/ <<y, x>> \in r

\* How many come before an element, without or with itself.
Before(r, S, x) == Cardinality({z \in S : <<z, x>> \in r})
UpTo(r, S, x) == Cardinality({z \in S : <<x, z>> \notin r})

LEMMA LaterCountsMore ==
  ASSUME NEW S, IsFiniteSet(S), NEW r, Orders(r, S), NEW x \in S, NEW y \in S, <<x, y>> \in r
  PROVE  Before(r, S, x) < Before(r, S, y) /\ UpTo(r, S, x) < UpTo(r, S, y)
<1> DEFINE before(e) == {z \in S : <<z, e>> \in r}
           upTo(e) == {z \in S : <<e, z>> \notin r}
<1>1. \A T \in SUBSET S : IsFiniteSet(T) /\ Cardinality(T) \in Nat
  BY FS_Subset, FS_CardinalityType
<1>2. \A T, U \in SUBSET S : T \subseteq U /\ T # U => Cardinality(T) < Cardinality(U)
  <2> SUFFICES ASSUME NEW T \in SUBSET S, NEW U \in SUBSET S, T \subseteq U, T # U
               PROVE  Cardinality(T) < Cardinality(U)
    OBVIOUS
  <2>1. IsFiniteSet(U) /\ T \in SUBSET U /\ Cardinality(T) \in Nat /\ Cardinality(U) \in Nat
    BY <1>1
  <2>2. Cardinality(T) <= Cardinality(U) /\ (Cardinality(U) = Cardinality(T) => U = T)
    BY <2>1, FS_Subset
  <2> QED BY <2>1, <2>2
<1>3. before(x) \subseteq before(y) /\ x \in before(y) /\ x \notin before(x)
  BY DEF Orders
<1>4. upTo(x) \subseteq upTo(y) /\ y \in upTo(y) /\ y \notin upTo(x)
  BY DEF Orders
<1>5. \A e : before(e) \in SUBSET S /\ upTo(e) \in SUBSET S
  OBVIOUS
<1>6. before(x) # before(y) /\ upTo(x) # upTo(y)
  BY <1>3, <1>4
<1> HIDE DEF before, upTo
<1>7. Cardinality(before(x)) < Cardinality(before(y)) /\ Cardinality(upTo(x)) < Cardinality(upTo(y))
  BY <1>2, <1>3, <1>4, <1>5, <1>6
<1> QED BY <1>7 DEF before, upTo, Before, UpTo

\* Counting orders as r does.
LEMMA Counts ==
  ASSUME NEW S, IsFiniteSet(S), NEW r, Orders(r, S), NEW x \in S, NEW y \in S
  PROVE  /\ Before(r, S, x) \in Nat /\ UpTo(r, S, x) \in Nat
         /\ Before(r, S, x) < Before(r, S, y) <=> <<x, y>> \in r
         /\ UpTo(r, S, x) < UpTo(r, S, y) <=> <<x, y>> \in r
         /\ Before(r, S, x) = Before(r, S, y) <=> x = y
         /\ UpTo(r, S, x) = UpTo(r, S, y) <=> x = y
<1>1. \A e : Before(r, S, e) \in Nat /\ UpTo(r, S, e) \in Nat
  BY FS_Subset, FS_CardinalityType DEF Before, UpTo
<1>2. <<x, y>> \in r => Before(r, S, x) < Before(r, S, y) /\ UpTo(r, S, x) < UpTo(r, S, y)
  BY LaterCountsMore
<1>3. <<y, x>> \in r => Before(r, S, y) < Before(r, S, x) /\ UpTo(r, S, y) < UpTo(r, S, x)
  BY LaterCountsMore
<1>4. x = y \/ <<x, y>> \in r \/ <<y, x>> \in r
  BY DEF Orders
<1>5. x = y => <<x, y>> \notin r
  BY DEF Orders
<1> QED BY <1>1, <1>2, <1>3, <1>4, <1>5

LEMMA Lex2 ==
  ASSUME NEW a \in Int, NEW b \in Int, NEW c \in Int, NEW d \in Int
  PROVE  Lex(<<a, b>>, <<c, d>>) <=> a < c \/ (a = c /\ b < d)
BY DEF Lex

LEMMA Lex3 ==
  ASSUME NEW a \in Int, NEW b \in Int, NEW c \in Int, NEW d \in Int, NEW e \in Int, NEW f \in Int
  PROVE  Lex(<<a, b, c>>, <<d, e, f>>) <=>
           a < d \/ (a = d /\ (b < e \/ (b = e /\ c < f)))
BY DEF Lex

\* The first of a set of places.
LEMMA LeastIsThere ==
  ASSUME NEW T \in SUBSET Nat, T # {}
  PROVE  \E x \in T : \A y \in T : x <= y
<1> DEFINE less == {p \in Nat \X Nat : p[1] < p[2]}
<1>1. OpToRel(<, Nat) = less
  BY DEF OpToRel
<1>2. IsWellFoundedOn(less, Nat)
  BY <1>1, NatLessThanWellFounded
<1> HIDE DEF less
<1>3. PICK x \in T : \A y \in T : ~ (<<y, x>> \in less)
  BY <1>2, WFMin
<1>4. \A y \in T : ~ (y < x)
  BY <1>3 DEF less
<1> QED BY <1>4

LEMMA FirstIsThere ==
  ASSUME NEW T \in SUBSET (Nat \X Nat), T # {}
  PROVE  \E x \in T : \A y \in T : ~ Lex(y, x)
<1>1. \A x \in T : x[1] \in Nat /\ x[2] \in Nat /\ x = <<x[1], x[2]>>
  OBVIOUS
<1> DEFINE firsts == {x[1] : x \in T}
<1>2. PICK i \in firsts : \A k \in firsts : i <= k
  <2>1. firsts \in SUBSET Nat /\ firsts # {}
    BY <1>1
  <2> HIDE DEF firsts
  <2> QED BY <2>1, LeastIsThere
<1> DEFINE seconds == {x[2] : x \in {y \in T : y[1] = i}}
<1>3. PICK j \in seconds : \A k \in seconds : j <= k
  <2>1. seconds \in SUBSET Nat /\ seconds # {}
    BY <1>1, <1>2
  <2> HIDE DEF seconds
  <2> QED BY <2>1, LeastIsThere
<1>4. PICK x \in T : x[1] = i /\ x[2] = j
  BY <1>3
<1>5. \A y \in T : i <= y[1] /\ (y[1] = i => j <= y[2])
  BY <1>2, <1>3
<1>6. \A y \in T : ~ Lex(y, x)
  <2> SUFFICES ASSUME NEW y \in T PROVE ~ Lex(y, x)
    OBVIOUS
  <2> HIDE DEF firsts, seconds
  <2>1. Lex(<<y[1], y[2]>>, <<x[1], x[2]>>) <=> y[1] < x[1] \/ (y[1] = x[1] /\ y[2] < x[2])
    BY <1>1, Lex2
  <2>2. Lex(y, x) <=> y[1] < x[1] \/ (y[1] = x[1] /\ y[2] < x[2])
    BY <1>1, <2>1
  <2> QED BY <1>1, <1>4, <1>5, <2>2
<1> QED BY <1>6

----------------------------------------------------------------------------
(***************************************************************************)
(* The units of a day.                                                     *)
(***************************************************************************)

TypedUnit(u) ==
  /\ u.truck \in DOMAIN Label /\ u.tier \in {0, 1}
  /\ u.unit \in Nat /\ u.model \in Nat /\ u.at \in Nat \X Nat

LEMMA LinesAreTyped ==
  ASSUME NEW d, DayTyped(d), NEW i \in Scheduled(d)
  PROVE  /\ i \in 1..MaxLines /\ i \in 1..Len(d) /\ Len(d) \in Nat /\ i \in Nat
         /\ d[i] \in Lines[i]
         /\ TruckOf(d[i]) \in DOMAIN Label /\ d[i].qty \in Nat
         /\ d[i].allocated \in Seq([unit : Nat, model : Nat, erp : Nat])
         /\ Len(d[i].allocated) \in Nat /\ DOMAIN d[i].allocated = 1..Len(d[i].allocated)
         /\ \A j \in DOMAIN d[i].allocated :
              /\ j \in Nat
              /\ d[i].allocated[j] \in [unit : Nat, model : Nat, erp : Nat]
<1> DEFINE Any == UNION {Lines[k] : k \in 1..MaxLines}
           UnitTypes == [unit : Nat, model : Nat, erp : Nat]
<1>1. d \in Seq(Any) /\ Len(d) <= MaxLines /\ MaxLines \in Nat /\ i \in DOMAIN d
  BY DaysAssumption DEF DayTyped, DaysAssumption, Scheduled
<1>2. i \in 1..Len(d) /\ i \in 1..MaxLines /\ Len(d) \in Nat /\ i \in Nat
  <2> HIDE DEF Any
  <2> QED BY <1>1
<1>3. d[i] \in Lines[i]
  BY <1>1 DEF DayTyped
<1>4. /\ TruckOf(d[i]) \in DOMAIN Label /\ d[i].qty \in Nat
      /\ d[i].allocated \in Seq(UnitTypes)
  BY <1>2, <1>3, DaysAssumption DEF DaysAssumption
<1>5. /\ Len(d[i].allocated) \in Nat /\ DOMAIN d[i].allocated = 1..Len(d[i].allocated)
      /\ \A j \in DOMAIN d[i].allocated : j \in Nat /\ d[i].allocated[j] \in UnitTypes
  <2> HIDE DEF UnitTypes
  <2> QED BY <1>4
<1> QED BY <1>2, <1>3, <1>4, <1>5

LEMMA UnitsAre ==
  ASSUME NEW d, DayTyped(d), NEW u \in UnitsOf(d)
  PROVE  \E i \in Scheduled(d) : \E j \in Known(d[i]) :
           u = UnitAt(d[i], i, j) /\ u.at = <<i, j>> /\ TypedUnit(u)
<1>1. PICK i \in Scheduled(d) : u \in {UnitAt(d[i], i, j) : j \in Known(d[i])}
  BY DEF UnitsOf
<1>2. PICK j \in Known(d[i]) : u = UnitAt(d[i], i, j)
  BY <1>1
<1>3. /\ i \in Nat /\ j \in Nat /\ TruckOf(d[i]) \in DOMAIN Label
      /\ d[i].allocated[j] \in [unit : Nat, model : Nat, erp : Nat]
  BY LinesAreTyped DEF Known
<1>4. /\ u.truck = TruckOf(d[i]) /\ u.tier = TierOf(d[i]) /\ u.unit = d[i].allocated[j].unit
      /\ u.model = d[i].allocated[j].model /\ u.at = <<i, j>>
  BY <1>2 DEF UnitAt
<1>5. TierOf(d[i]) \in {0, 1}
  BY DEF TierOf
<1>6. d[i].allocated[j].unit \in Nat /\ d[i].allocated[j].model \in Nat
  BY <1>3
<1>7. TypedUnit(u)
  BY <1>3, <1>4, <1>5, <1>6 DEF TypedUnit
<1> QED BY <1>2, <1>4, <1>7

\* What DaysAssumption says of two lines and two of their units.
LEMMA UnitsApart ==
  ASSUME NEW l \in 1..MaxLines, NEW n \in 1..MaxLines, NEW a \in Lines[l], NEW b \in Lines[n],
         NEW p \in DOMAIN a.allocated, NEW q \in DOMAIN b.allocated,
         a.allocated[p].unit = b.allocated[q].unit
  PROVE  l = n /\ (a = b => p = q)
<1> DEFINE Apart(i, k) ==
             \A c \in Lines[i], d \in Lines[k] :
               \A j \in DOMAIN c.allocated, m \in DOMAIN d.allocated :
                 c.allocated[j].unit = d.allocated[m].unit => i = k /\ (c = d => j = m)
<1>1. \A i, k \in 1..MaxLines : Apart(i, k)
  BY DaysAssumption, Zenon DEF DaysAssumption
<1> HIDE DEF Apart
<1>2. Apart(l, n)
  BY <1>1
<1>3. \A j \in DOMAIN a.allocated, m \in DOMAIN b.allocated :
        a.allocated[j].unit = b.allocated[m].unit => l = n /\ (a = b => j = m)
  BY <1>2, Zenon DEF Apart
<1> QED BY <1>3, Zenon

\* A unit is told by its place, and by its number.
LEMMA UnitsDiffer ==
  ASSUME NEW d, DayTyped(d), NEW u \in UnitsOf(d), NEW v \in UnitsOf(d),
         u.at = v.at \/ u.unit = v.unit
  PROVE  u = v
<1>1. PICK i \in Scheduled(d) : \E j \in Known(d[i]) : u = UnitAt(d[i], i, j) /\ u.at = <<i, j>>
  BY UnitsAre
<1>2. PICK j \in Known(d[i]) : u = UnitAt(d[i], i, j) /\ u.at = <<i, j>>
  BY <1>1
<1>3. PICK k \in Scheduled(d) : \E m \in Known(d[k]) : v = UnitAt(d[k], k, m) /\ v.at = <<k, m>>
  BY UnitsAre
<1>4. PICK m \in Known(d[k]) : v = UnitAt(d[k], k, m) /\ v.at = <<k, m>>
  BY <1>3
<1>5. CASE u.at = v.at
  BY <1>2, <1>4, <1>5
<1>6. CASE u.unit = v.unit
  <2>1. /\ i \in 1..MaxLines /\ d[i] \in Lines[i] /\ j \in DOMAIN d[i].allocated
        /\ k \in 1..MaxLines /\ d[k] \in Lines[k] /\ m \in DOMAIN d[k].allocated
    BY LinesAreTyped DEF Known
  <2>2. d[i].allocated[j].unit = d[k].allocated[m].unit
    BY <1>2, <1>4, <1>6 DEF UnitAt
  <2>3. i = k /\ (d[i] = d[k] => j = m)
    BY <2>1, <2>2, UnitsApart
  <2> QED BY <1>2, <1>4, <2>3
<1> QED BY <1>5, <1>6

LEMMA FiniteImage ==
  ASSUME NEW S, IsFiniteSet(S), NEW f, f = [x \in S |-> f[x]]
  PROVE  IsFiniteSet({f[x] : x \in S})
<1>1. f \in [S -> {f[x] : x \in S}]
  OBVIOUS
<1>2. f \in Surjection(S, {f[x] : x \in S})
  BY <1>1 DEF Surjection
<1> QED BY <1>2, FS_Surjection

LEMMA UnitsAreFinite ==
  ASSUME NEW d, DayTyped(d)
  PROVE  IsFiniteSet(UnitsOf(d))
<1> DEFINE ofLine == [i \in Scheduled(d) |-> {UnitAt(d[i], i, j) : j \in Known(d[i])}]
<1>1. IsFiniteSet(Scheduled(d))
  <2>1. Len(d) \in Nat /\ DOMAIN d = 1..Len(d)
    BY DEF DayTyped
  <2>2. IsFiniteSet(1..Len(d)) /\ Scheduled(d) \in SUBSET (1..Len(d))
    BY <2>1, FS_Interval DEF Scheduled
  <2> QED BY <2>2, FS_Subset
<1>2. \A i \in Scheduled(d) : IsFiniteSet(ofLine[i])
  <2> SUFFICES ASSUME NEW i \in Scheduled(d) PROVE IsFiniteSet(ofLine[i])
    OBVIOUS
  <2> DEFINE n == Len(d[i].allocated)
             at == [j \in Known(d[i]) |-> UnitAt(d[i], i, j)]
  <2>1. n \in Nat /\ Known(d[i]) \in SUBSET (1..n)
    BY LinesAreTyped DEF Known
  <2>2. IsFiniteSet(1..n)
    BY <2>1, FS_Interval
  <2>3. IsFiniteSet(Known(d[i]))
    BY <2>1, <2>2, FS_Subset
  <2>4. at = [j \in Known(d[i]) |-> at[j]] /\ ofLine[i] = {at[j] : j \in Known(d[i])}
    OBVIOUS
  <2> HIDE DEF at
  <2> QED BY <2>3, <2>4, FiniteImage
<1>3. /\ ofLine = [i \in Scheduled(d) |-> ofLine[i]]
      /\ UnitsOf(d) = UNION {ofLine[i] : i \in Scheduled(d)}
  BY DEF UnitsOf
<1> HIDE DEF ofLine
<1>4. IsFiniteSet({ofLine[i] : i \in Scheduled(d)})
  BY <1>1, <1>3, FiniteImage
<1> QED BY <1>2, <1>3, <1>4, FS_UNION

----------------------------------------------------------------------------
(***************************************************************************)
(* The three numbers of a route.                                           *)
(***************************************************************************)

ByKey(S, key) == {p \in S \X S : Lex(key[p[1]], key[p[2]])}

LEMMA PairsOrder ==
  ASSUME NEW S, NEW key \in [S -> Nat \X Nat], \A x, y \in S : key[x] = key[y] => x = y
  PROVE  Orders(ByKey(S, key), S)
<1>1. \A x \in S : key[x][1] \in Int /\ key[x][2] \in Int /\ key[x] = <<key[x][1], key[x][2]>>
  OBVIOUS
<1>2. \A x, y \in S : Lex(key[x], key[y]) <=>
        key[x][1] < key[y][1] \/ (key[x][1] = key[y][1] /\ key[x][2] < key[y][2])
  <2> SUFFICES ASSUME NEW x \in S, NEW y \in S
               PROVE  Lex(key[x], key[y]) <=>
                        key[x][1] < key[y][1] \/ (key[x][1] = key[y][1] /\ key[x][2] < key[y][2])
    OBVIOUS
  <2>1. Lex(<<key[x][1], key[x][2]>>, <<key[y][1], key[y][2]>>) <=>
          key[x][1] < key[y][1] \/ (key[x][1] = key[y][1] /\ key[x][2] < key[y][2])
    BY <1>1, Lex2
  <2> QED BY <1>1, <2>1
<1>3. \A x, y \in S : <<x, y>> \in ByKey(S, key) <=> Lex(key[x], key[y])
  BY DEF ByKey
<1>4. \A x, y \in S : x # y => key[x][1] # key[y][1] \/ key[x][2] # key[y][2]
  BY <1>1
<1> QED BY <1>1, <1>2, <1>3, <1>4 DEF Orders

LEMMA TriplesOrder ==
  ASSUME NEW S, NEW key \in [S -> Nat \X Nat \X Nat], \A x, y \in S : key[x] = key[y] => x = y
  PROVE  Orders(ByKey(S, key), S)
<1> DEFINE less(a, b) == a[1] < b[1] \/ (a[1] = b[1] /\ (a[2] < b[2] \/ (a[2] = b[2] /\ a[3] < b[3])))
<1>1. \A x \in S : /\ key[x][1] \in Int /\ key[x][2] \in Int /\ key[x][3] \in Int
                   /\ key[x] = <<key[x][1], key[x][2], key[x][3]>>
  OBVIOUS
<1>2. \A x, y \in S : Lex(key[x], key[y]) <=> less(key[x], key[y])
  <2> SUFFICES ASSUME NEW x \in S, NEW y \in S
               PROVE  Lex(key[x], key[y]) <=> less(key[x], key[y])
    OBVIOUS
  <2>1. Lex(<<key[x][1], key[x][2], key[x][3]>>, <<key[y][1], key[y][2], key[y][3]>>) <=>
          less(key[x], key[y])
    BY <1>1, Lex3
  <2> QED BY <1>1, <2>1
<1>3. \A x, y \in S : <<x, y>> \in ByKey(S, key) <=> less(key[x], key[y])
  BY <1>2 DEF ByKey
<1>4. \A x, y \in S :
        x # y => key[x][1] # key[y][1] \/ key[x][2] # key[y][2] \/ key[x][3] # key[y][3]
  BY <1>1
<1>5. \A x \in S : ~ less(key[x], key[x])
  BY <1>1
<1>6. \A x, y \in S : x # y => less(key[x], key[y]) \/ less(key[y], key[x])
  BY <1>1, <1>4
<1>7. \A x, y, z \in S : less(key[x], key[y]) /\ less(key[y], key[z]) => less(key[x], key[z])
  BY <1>1
<1> HIDE DEF less
<1> QED BY <1>3, <1>5, <1>6, <1>7 DEF Orders

TrucksOf(units) == {u.truck : u \in units}

LEMMA TruckRanks ==
  ASSUME NEW d, DayTyped(d), NEW s \in TrucksOf(UnitsOf(d)), NEW t \in TrucksOf(UnitsOf(d))
  PROVE  /\ TruckRank(UnitsOf(d), s) \in Nat
         /\ TruckRank(UnitsOf(d), s) < TruckRank(UnitsOf(d), t) <=>
              Lex(TruckKey(UnitsOf(d), s), TruckKey(UnitsOf(d), t))
         /\ TruckRank(UnitsOf(d), s) = TruckRank(UnitsOf(d), t) <=> s = t
<1> DEFINE units == UnitsOf(d)
           trucks == TrucksOf(units)
           key == [x \in trucks |-> TruckKey(units, x)]
           r == ByKey(trucks, key)
<1>1. IsFiniteSet(trucks)
  <2> DEFINE of == [u \in units |-> u.truck]
  <2>1. of = [u \in units |-> of[u]] /\ trucks = {of[u] : u \in units} /\ IsFiniteSet(units)
    BY UnitsAreFinite DEF TrucksOf
  <2> HIDE DEF of, trucks, units
  <2> QED BY <2>1, FiniteImage
<1>2. \A x \in trucks : x \in DOMAIN Label /\ Label[x] \in Nat
  BY UnitsAre, DaysAssumption DEF TrucksOf, TypedUnit, DaysAssumption
<1>3. key \in [trucks -> Nat \X Nat \X Nat]
  BY <1>2 DEF TruckKey
<1>4. \A x, y \in trucks : key[x] = key[y] => x = y
  <2> SUFFICES ASSUME NEW x \in trucks, NEW y \in trucks, key[x] = key[y], x # y PROVE FALSE
    OBVIOUS
  <2>1. Label[x] = Label[y] /\ (x \in Owned <=> y \in Owned)
    BY DEF TruckKey
  <2> QED BY <1>2, <2>1, LabelAssumption DEF LabelAssumption
<1>5. \A x \in trucks : TruckRank(units, x) = Before(r, trucks, x)
  BY DEF TruckRank, TrucksOf, ByKey, Before
<1>6. <<s, t>> \in r <=> Lex(TruckKey(units, s), TruckKey(units, t))
  BY DEF ByKey
<1>7. s \in trucks /\ t \in trucks
  OBVIOUS
<1> HIDE DEF key, trucks
<1>8. Orders(r, trucks)
  BY <1>3, <1>4, TriplesOrder
<1> HIDE DEF r
<1>9. /\ Before(r, trucks, s) \in Nat
      /\ Before(r, trucks, s) < Before(r, trucks, t) <=> <<s, t>> \in r
      /\ Before(r, trucks, s) = Before(r, trucks, t) <=> s = t
  BY <1>1, <1>7, <1>8, Counts
<1> QED BY <1>5, <1>6, <1>7, <1>9

StopOf(u) == [order |-> u.order, truck |-> u.truck]

\* A stop's place in the day is that of a unit of it, and none of its units comes before.
LEMMA StopsAreSeen ==
  ASSUME NEW d, DayTyped(d), NEW st \in StopsIn(UnitsOf(d))
  PROVE  \E u \in GroupOf(UnitsOf(d), st) :
           /\ FirstSeen(UnitsOf(d), st) = u.at
           /\ \A v \in GroupOf(UnitsOf(d), st) : ~ Lex(v.at, u.at)
<1> DEFINE units == UnitsOf(d)
           group == GroupOf(units, st)
           places == {u.at : u \in group}
<1>1. group # {} /\ \A u \in group : u \in units
  BY DEF StopsIn, GroupOf
<1>2. \A u \in group : u.at \in Nat \X Nat
  BY <1>1, UnitsAre DEF TypedUnit
<1>3. places \in SUBSET (Nat \X Nat) /\ places # {}
  <2> HIDE DEF group
  <2> QED BY <1>1, <1>2
<1>4. PICK x \in places : \A y \in places : ~ Lex(y, x)
  <2> HIDE DEF places
  <2> QED BY <1>3, FirstIsThere
<1>5. \E u \in group : \A v \in group : ~ Lex(v.at, u.at)
  <2> HIDE DEF group
  <2> QED BY <1>4
<1> DEFINE first == CHOOSE u \in group : \A v \in group : ~ Lex(v.at, u.at)
<1>6. first \in group /\ \A v \in group : ~ Lex(v.at, first.at)
  <2> HIDE DEF group
  <2> QED BY <1>5
<1>7. FirstSeen(units, st) = first.at
  BY DEF FirstSeen
<1> HIDE DEF first
<1> QED BY <1>6, <1>7

\* The stops of a truck.
StopsOf(units, t) == {st \in StopsIn(units) : st.truck = t}

LEMMA StopsAreFinite ==
  ASSUME NEW d, DayTyped(d)
  PROVE  IsFiniteSet(StopsIn(UnitsOf(d)))
<1> DEFINE units == UnitsOf(d)
           of == [u \in units |-> [order |-> u.order, truck |-> u.truck]]
<1>1. of = [u \in units |-> of[u]] /\ StopsIn(units) = {of[u] : u \in units} /\ IsFiniteSet(units)
  BY UnitsAreFinite DEF StopsIn
<1> HIDE DEF of, units
<1>2. IsFiniteSet(StopsIn(units))
  BY <1>1, FiniteImage
<1> QED BY <1>2 DEF units

LEMMA StopOrders ==
  ASSUME NEW d, DayTyped(d), NEW s \in StopsIn(UnitsOf(d)), NEW t \in StopsIn(UnitsOf(d)),
         s.truck = t.truck
  PROVE  /\ StopOrder(UnitsOf(d), s) \in Nat
         /\ StopOrder(UnitsOf(d), s) < StopOrder(UnitsOf(d), t) <=>
              Lex(FirstSeen(UnitsOf(d), s), FirstSeen(UnitsOf(d), t))
         /\ StopOrder(UnitsOf(d), s) = StopOrder(UnitsOf(d), t) <=> s = t
<1> DEFINE units == UnitsOf(d)
           stops == StopsOf(units, s.truck)
           key == [x \in stops |-> FirstSeen(units, x)]
           r == ByKey(stops, key)
<1>1. IsFiniteSet(stops)
  BY StopsAreFinite, FS_Subset DEF StopsOf
<1>2. \A x \in stops : \E u \in units :
        key[x] = u.at /\ u.order = x.order /\ u.truck = x.truck /\ u.at \in Nat \X Nat
  <2> SUFFICES ASSUME NEW x \in stops
               PROVE  \E u \in units : /\ key[x] = u.at /\ u.order = x.order /\ u.truck = x.truck
                                       /\ u.at \in Nat \X Nat
    OBVIOUS
  <2>1. PICK u \in GroupOf(units, x) : FirstSeen(units, x) = u.at
    BY StopsAreSeen DEF StopsOf
  <2>2. u \in units /\ u.order = x.order /\ u.truck = x.truck
    BY DEF GroupOf
  <2>3. u.at \in Nat \X Nat
    BY <2>2, UnitsAre DEF TypedUnit
  <2> QED BY <2>1, <2>2, <2>3
<1>3. key \in [stops -> Nat \X Nat]
  BY <1>2
<1>4. \A x, y \in stops : key[x] = key[y] => x = y
  <2> SUFFICES ASSUME NEW x \in stops, NEW y \in stops, key[x] = key[y] PROVE x = y
    OBVIOUS
  <2>1. PICK u \in units : key[x] = u.at /\ u.order = x.order /\ u.truck = x.truck
    BY <1>2
  <2>2. PICK v \in units : key[y] = v.at /\ v.order = y.order /\ v.truck = y.truck
    BY <1>2
  <2>3. u = v
    BY <2>1, <2>2, UnitsDiffer
  <2>4. /\ x = [order |-> x.order, truck |-> x.truck]
        /\ y = [order |-> y.order, truck |-> y.truck]
    BY DEF StopsOf, StopsIn
  <2> QED BY <2>1, <2>2, <2>3, <2>4
<1>5. \A x \in stops : StopOrder(units, x) = UpTo(r, stops, x)
  <2> SUFFICES ASSUME NEW x \in stops PROVE StopOrder(units, x) = UpTo(r, stops, x)
    OBVIOUS
  <2>1. x.truck = s.truck
    BY DEF StopsOf
  <2>2. {y \in StopsIn(units) : y.truck = x.truck /\ ~ Lex(FirstSeen(units, x), FirstSeen(units, y))}
          = {z \in stops : <<x, z>> \notin r}
    BY <2>1 DEF StopsOf, ByKey
  <2> QED BY <2>2 DEF StopOrder, UpTo
<1>6. \A x, y \in stops : <<x, y>> \in r <=> Lex(FirstSeen(units, x), FirstSeen(units, y))
  BY DEF ByKey
<1>7. s \in stops /\ t \in stops
  BY DEF StopsOf
<1> HIDE DEF key, stops
<1>8. Orders(r, stops)
  BY <1>3, <1>4, PairsOrder
<1> HIDE DEF r
<1>9. /\ UpTo(r, stops, s) \in Nat
      /\ UpTo(r, stops, s) < UpTo(r, stops, t) <=> <<s, t>> \in r
      /\ UpTo(r, stops, s) = UpTo(r, stops, t) <=> s = t
  BY <1>1, <1>7, <1>8, Counts
<1> QED BY <1>5, <1>6, <1>7, <1>9

\* The pieces of a stop.
PiecesOf(units, st) == {u \in GroupOf(units, st) : IsPick(u)}

LEMMA PieceOrders ==
  ASSUME NEW d, DayTyped(d), NEW st,
         NEW u \in PiecesOf(UnitsOf(d), st), NEW v \in PiecesOf(UnitsOf(d), st)
  PROVE  /\ PieceOrder(UnitsOf(d), u) \in Nat
         /\ PieceOrder(UnitsOf(d), u) < PieceOrder(UnitsOf(d), v) <=> Lex(PieceKey(u), PieceKey(v))
         /\ PieceOrder(UnitsOf(d), u) = PieceOrder(UnitsOf(d), v) <=> u = v
<1> DEFINE units == UnitsOf(d)
           pieces == PiecesOf(units, st)
           key == [x \in pieces |-> PieceKey(x)]
           r == ByKey(pieces, key)
<1>1. IsFiniteSet(pieces)
  BY UnitsAreFinite, FS_Subset DEF PiecesOf, GroupOf
<1>2. \A x \in pieces : x \in units /\ x.model \in Nat /\ x.unit \in Nat
  BY UnitsAre DEF PiecesOf, GroupOf, TypedUnit
<1>3. key \in [pieces -> Nat \X Nat]
  BY <1>2 DEF PieceKey
<1>4. \A x, y \in pieces : key[x] = key[y] => x = y
  <2> SUFFICES ASSUME NEW x \in pieces, NEW y \in pieces, key[x] = key[y] PROVE x = y
    OBVIOUS
  <2>1. x.unit = y.unit
    BY DEF PieceKey
  <2> QED BY <1>2, <2>1, UnitsDiffer
<1>5. \A x \in pieces : PieceOrder(units, x) = UpTo(r, pieces, x)
  <2> SUFFICES ASSUME NEW x \in pieces PROVE PieceOrder(units, x) = UpTo(r, pieces, x)
    OBVIOUS
  <2>1. GroupOf(units, x) = GroupOf(units, st)
    BY DEF PiecesOf, GroupOf
  <2>2. {y \in GroupOf(units, x) : IsPick(y) /\ ~ Lex(PieceKey(x), PieceKey(y))}
          = {z \in pieces : <<x, z>> \notin r}
    BY <2>1 DEF PiecesOf, ByKey
  <2> QED BY <2>2 DEF PieceOrder, UpTo
<1>6. \A x, y \in pieces : <<x, y>> \in r <=> Lex(PieceKey(x), PieceKey(y))
  BY DEF ByKey
<1>7. u \in pieces /\ v \in pieces
  OBVIOUS
<1> HIDE DEF key, pieces
<1>8. Orders(r, pieces)
  BY <1>3, <1>4, PairsOrder
<1> HIDE DEF r
<1>9. /\ UpTo(r, pieces, u) \in Nat
      /\ UpTo(r, pieces, u) < UpTo(r, pieces, v) <=> <<u, v>> \in r
      /\ UpTo(r, pieces, u) = UpTo(r, pieces, v) <=> u = v
  BY <1>1, <1>7, <1>8, Counts
<1> QED BY <1>5, <1>6, <1>7, <1>9

----------------------------------------------------------------------------
(***************************************************************************)
(* The claim order.                                                        *)
(***************************************************************************)

LEMMA UnitsHaveStops ==
  ASSUME NEW d, NEW u \in UnitsOf(d)
  PROVE  /\ StopOf(u) \in StopsIn(UnitsOf(d)) /\ u.truck \in TrucksOf(UnitsOf(d))
         /\ u \in GroupOf(UnitsOf(d), StopOf(u))
         /\ GroupOf(UnitsOf(d), u) = GroupOf(UnitsOf(d), StopOf(u))
         /\ StopOrder(UnitsOf(d), u) = StopOrder(UnitsOf(d), StopOf(u))
<1> DEFINE units == UnitsOf(d)
<1>1. /\ StopOf(u) \in StopsIn(units) /\ u.truck \in TrucksOf(units)
      /\ u \in GroupOf(units, StopOf(u)) /\ GroupOf(units, u) = GroupOf(units, StopOf(u))
  BY DEF StopOf, StopsIn, TrucksOf, GroupOf
<1>2. FirstSeen(units, u) = FirstSeen(units, StopOf(u)) /\ StopOf(u).truck = u.truck
  BY <1>1 DEF FirstSeen, StopOf
<1>3. StopOrder(units, u) = StopOrder(units, StopOf(u))
  BY <1>2 DEF StopOrder
<1> QED BY <1>1, <1>3

LEMMA RoutesCompare ==
  ASSUME NEW d, DayTyped(d), NEW u \in UnitsOf(d), NEW v \in UnitsOf(d), IsPick(u), IsPick(v)
  PROVE  Lex(RouteOf(UnitsOf(d), u), RouteOf(UnitsOf(d), v)) <=>
           \/ Lex(TruckKey(UnitsOf(d), u.truck), TruckKey(UnitsOf(d), v.truck))
           \/ /\ u.truck = v.truck
              /\ \/ Lex(FirstSeen(UnitsOf(d), StopOf(u)), FirstSeen(UnitsOf(d), StopOf(v)))
                 \/ StopOf(u) = StopOf(v) /\ Lex(PieceKey(u), PieceKey(v))
<1> DEFINE units == UnitsOf(d)
           rank(x) == TruckRank(units, x.truck)
           stop(x) == StopOrder(units, StopOf(x))
           piece(x) == PieceOrder(units, x)
<1>1. /\ rank(u) \in Nat /\ rank(v) \in Nat
      /\ rank(u) < rank(v) <=> Lex(TruckKey(units, u.truck), TruckKey(units, v.truck))
      /\ rank(u) = rank(v) <=> u.truck = v.truck
  BY TruckRanks, UnitsHaveStops
<1>2. stop(u) \in Nat /\ stop(v) \in Nat
  BY StopOrders, UnitsHaveStops
<1>3. u.truck = v.truck =>
        /\ stop(u) < stop(v) <=> Lex(FirstSeen(units, StopOf(u)), FirstSeen(units, StopOf(v)))
        /\ stop(u) = stop(v) <=> StopOf(u) = StopOf(v)
  <2>1. u.truck = v.truck => StopOf(u).truck = StopOf(v).truck
    BY DEF StopOf
  <2> QED BY <2>1, StopOrders, UnitsHaveStops
<1>4. piece(u) \in Nat /\ piece(v) \in Nat
  BY PieceOrders, UnitsHaveStops DEF PiecesOf
<1>5. StopOf(u) = StopOf(v) => (piece(u) < piece(v) <=> Lex(PieceKey(u), PieceKey(v)))
  <2> SUFFICES ASSUME StopOf(u) = StopOf(v)
               PROVE  piece(u) < piece(v) <=> Lex(PieceKey(u), PieceKey(v))
    OBVIOUS
  <2>1. u \in PiecesOf(units, StopOf(u)) /\ v \in PiecesOf(units, StopOf(u))
    BY UnitsHaveStops DEF PiecesOf
  <2> QED BY <2>1, PieceOrders
<1>6. /\ RouteOf(units, u) = <<rank(u), stop(u), piece(u)>>
      /\ RouteOf(units, v) = <<rank(v), stop(v), piece(v)>>
  BY UnitsHaveStops DEF RouteOf
<1> HIDE DEF rank, stop, piece
<1>7. Lex(<<rank(u), stop(u), piece(u)>>, <<rank(v), stop(v), piece(v)>>) <=>
        \/ rank(u) < rank(v)
        \/ rank(u) = rank(v) /\ (stop(u) < stop(v) \/ (stop(u) = stop(v) /\ piece(u) < piece(v)))
  BY <1>1, <1>2, <1>4, Lex3
<1> QED BY <1>1, <1>3, <1>5, <1>6, <1>7

\* The line of a stop's first unit, and no other stop of the truck has the same.
LEMMA FirstLines ==
  ASSUME NEW d, DayTyped(d), NEW st \in StopsIn(UnitsOf(d))
  PROVE  \E i \in Scheduled(d) : \E j \in Known(d[i]) :
           /\ FirstSeen(UnitsOf(d), st) = <<i, j>>
           /\ d[i].order = st.order /\ TruckOf(d[i]) = st.truck
           /\ \A k \in Scheduled(d) :
                d[k].order = st.order /\ TruckOf(d[k]) = st.truck /\ Known(d[k]) # {} => i <= k
<1> DEFINE units == UnitsOf(d)
<1>1. PICK u \in GroupOf(units, st) :
        FirstSeen(units, st) = u.at /\ \A v \in GroupOf(units, st) : ~ Lex(v.at, u.at)
  BY StopsAreSeen
<1>2. u \in units /\ u.order = st.order /\ u.truck = st.truck
  BY DEF GroupOf
<1>3. PICK i \in Scheduled(d) : \E j \in Known(d[i]) : u = UnitAt(d[i], i, j) /\ u.at = <<i, j>>
  BY <1>2, UnitsAre
<1>4. PICK j \in Known(d[i]) : u = UnitAt(d[i], i, j) /\ u.at = <<i, j>>
  BY <1>3
<1>5. d[i].order = st.order /\ TruckOf(d[i]) = st.truck
  BY <1>2, <1>4 DEF UnitAt
<1>6. ASSUME NEW k \in Scheduled(d),
             d[k].order = st.order, TruckOf(d[k]) = st.truck, Known(d[k]) # {}
      PROVE  i <= k
  <2>1. PICK m \in Known(d[k]) : TRUE
    BY <1>6
  <2>2. UnitAt(d[k], k, m) \in units
    BY DEF UnitsOf
  <2>3. UnitAt(d[k], k, m) \in GroupOf(units, st) /\ UnitAt(d[k], k, m).at = <<k, m>>
    BY <1>6, <2>2 DEF GroupOf, UnitAt
  <2>4. ~ Lex(<<k, m>>, <<i, j>>)
    BY <1>1, <1>4, <2>3
  <2>5. i \in Nat /\ \A p \in DOMAIN d[i].allocated : p \in Nat
    BY LinesAreTyped
  <2>6. k \in Nat /\ \A p \in DOMAIN d[k].allocated : p \in Nat
    BY LinesAreTyped
  <2>7. j \in DOMAIN d[i].allocated /\ m \in DOMAIN d[k].allocated
    BY DEF Known
  <2>8. i \in Int /\ j \in Int /\ k \in Int /\ m \in Int
    BY <2>5, <2>6, <2>7
  <2> QED BY <2>4, <2>8, Lex2
<1> QED BY <1>1, <1>4, <1>5, <1>6

\* Six numbers.
Six(p) ==
  /\ DOMAIN p = 1..6
  /\ p[1] \in Int /\ p[2] \in Int /\ p[3] \in Int /\ p[4] \in Int /\ p[5] \in Int /\ p[6] \in Int

LEMMA Lex6 ==
  ASSUME NEW p, NEW q, Six(p), Six(q)
  PROVE  Lex(p, q) <=>
           \/ Lex(<<p[1], p[2], p[3]>>, <<q[1], q[2], q[3]>>)
           \/ /\ <<p[1], p[2], p[3]>> = <<q[1], q[2], q[3]>>
              /\ p[4] < q[4] \/ (p[4] = q[4] /\ Lex(<<p[5], p[6]>>, <<q[5], q[6]>>))
<1>1. /\ DOMAIN p = 1..6
      /\ p[1] \in Int /\ p[2] \in Int /\ p[3] \in Int /\ p[4] \in Int /\ p[5] \in Int /\ p[6] \in Int
      /\ q[1] \in Int /\ q[2] \in Int /\ q[3] \in Int /\ q[4] \in Int /\ q[5] \in Int /\ q[6] \in Int
  BY DEF Six
<1>2. Lex(<<p[1], p[2], p[3]>>, <<q[1], q[2], q[3]>>) <=>
        p[1] < q[1] \/ (p[1] = q[1] /\ (p[2] < q[2] \/ (p[2] = q[2] /\ p[3] < q[3])))
  BY <1>1 DEF Lex
<1>3. Lex(<<p[5], p[6]>>, <<q[5], q[6]>>) <=> p[5] < q[5] \/ (p[5] = q[5] /\ p[6] < q[6])
  BY <1>1, Lex2
<1> DEFINE at(k) == p[k] < q[k] /\ \A m \in 1..(k - 1) : p[m] = q[m]
<1>4. Lex(p, q) <=> at(1) \/ at(2) \/ at(3) \/ at(4) \/ at(5) \/ at(6)
  <2>1. Lex(p, q) <=> \E k \in 1..6 : at(k)
    BY <1>1 DEF Lex
  <2> HIDE DEF at
  <2> QED BY <2>1
<1>5. /\ at(1) <=> p[1] < q[1]
      /\ at(2) <=> p[1] = q[1] /\ p[2] < q[2]
      /\ at(3) <=> p[1] = q[1] /\ p[2] = q[2] /\ p[3] < q[3]
      /\ at(4) <=> p[1] = q[1] /\ p[2] = q[2] /\ p[3] = q[3] /\ p[4] < q[4]
      /\ at(5) <=> p[1] = q[1] /\ p[2] = q[2] /\ p[3] = q[3] /\ p[4] = q[4] /\ p[5] < q[5]
      /\ at(6) <=> /\ p[1] = q[1] /\ p[2] = q[2] /\ p[3] = q[3] /\ p[4] = q[4] /\ p[5] = q[5]
                   /\ p[6] < q[6]
  OBVIOUS
<1> HIDE DEF at
<1> QED BY <1>1, <1>2, <1>3, <1>4, <1>5

LEMMA AppearancesAre ==
  ASSUME DayTyped(day), NEW u \in UnitsOf(day)
  PROVE  \E j \in Nat : /\ FirstSeen(UnitsOf(day), StopOf(u)) = <<Appearance(u), j>>
                        /\ Appearance(u) \in Scheduled(day)
                        /\ day[Appearance(u)].order = u.order
<1> DEFINE st == StopOf(u)
           Here(i) == day[i].order = u.order /\ TruckOf(day[i]) = u.truck /\ Known(day[i]) # {}
           IsFirst(i) == Here(i) /\ \A k \in 1..(i - 1) : ~ (k \in Scheduled(day) /\ Here(k))
<1>1. st \in StopsIn(UnitsOf(day)) /\ st.order = u.order /\ st.truck = u.truck
  BY UnitsHaveStops DEF StopOf
<1>2. PICK i \in Scheduled(day) : \E j \in Known(day[i]) :
        /\ FirstSeen(UnitsOf(day), st) = <<i, j>>
        /\ day[i].order = st.order /\ TruckOf(day[i]) = st.truck
        /\ \A k \in Scheduled(day) :
             day[k].order = st.order /\ TruckOf(day[k]) = st.truck /\ Known(day[k]) # {} => i <= k
  BY <1>1, FirstLines
<1>3. PICK j \in Known(day[i]) :
        /\ FirstSeen(UnitsOf(day), st) = <<i, j>>
        /\ day[i].order = st.order /\ TruckOf(day[i]) = st.truck
        /\ \A k \in Scheduled(day) :
             day[k].order = st.order /\ TruckOf(day[k]) = st.truck /\ Known(day[k]) # {} => i <= k
  BY <1>2
<1> HIDE DEF st
<1>4. Here(i) /\ \A k \in Scheduled(day) : Here(k) => i <= k
  BY <1>1, <1>3
<1> HIDE DEF Here
<1>5. \A k \in Scheduled(day) : k \in Nat /\ k > 0
  BY LinesAreTyped
<1>6. IsFirst(i)
  BY <1>4, <1>5
<1>7. \A k \in Scheduled(day) : IsFirst(k) => k = i
  BY <1>4, <1>5
<1>8. Appearance(u) = CHOOSE k \in Scheduled(day) : IsFirst(k)
  BY DEF Appearance, Here
<1> HIDE DEF IsFirst
<1>9. Appearance(u) = i
  BY <1>6, <1>7, <1>8
<1>10. j \in Nat
  BY LinesAreTyped DEF Known
<1> QED BY <1>3, <1>4, <1>9, <1>10 DEF Here, st

\* Of two stops of a truck the one that appears first is seen first.
LEMMA AppearancesCompare ==
  ASSUME DayTyped(day), NEW u \in UnitsOf(day), NEW v \in UnitsOf(day), u.truck = v.truck
  PROVE  /\ Appearance(u) < Appearance(v) <=>
              Lex(FirstSeen(UnitsOf(day), StopOf(u)), FirstSeen(UnitsOf(day), StopOf(v)))
         /\ Appearance(u) = Appearance(v) <=> StopOf(u) = StopOf(v)
         /\ Appearance(u) \in Nat /\ Appearance(v) \in Nat
<1>1. PICK j \in Nat : /\ FirstSeen(UnitsOf(day), StopOf(u)) = <<Appearance(u), j>>
                       /\ Appearance(u) \in Scheduled(day) /\ day[Appearance(u)].order = u.order
  BY AppearancesAre
<1>2. PICK m \in Nat : /\ FirstSeen(UnitsOf(day), StopOf(v)) = <<Appearance(v), m>>
                       /\ Appearance(v) \in Scheduled(day) /\ day[Appearance(v)].order = v.order
  BY AppearancesAre
<1>3. Appearance(u) \in Nat /\ Appearance(v) \in Nat
  BY <1>1, <1>2, LinesAreTyped
<1>4. Lex(<<Appearance(u), j>>, <<Appearance(v), m>>) <=>
        Appearance(u) < Appearance(v) \/ (Appearance(u) = Appearance(v) /\ j < m)
  BY <1>3, Lex2
<1>5. Appearance(u) = Appearance(v) => StopOf(u) = StopOf(v)
  BY <1>1, <1>2 DEF StopOf
<1>6. StopOf(u) = StopOf(v) => Appearance(u) = Appearance(v) /\ j = m
  BY <1>1, <1>2
<1> QED BY <1>1, <1>2, <1>3, <1>4, <1>5, <1>6

LEMMA UrgenciesAre ==
  ASSUME DayTyped(day), NEW u \in UnitsOf(day)
  PROVE  TruckKey(UnitsOf(day), u.truck)
           = <<Urgency(u), IF u.truck \in Owned THEN 0 ELSE 1, Label[u.truck]>>
<1> DEFINE urgent == \E v \in UnitsOf(day) : v.truck = u.truck /\ v.tier = 0
           line(i) == TruckOf(day[i]) = u.truck /\ Known(day[i]) # {} /\ day[i].type \in {1, 4, 5}
<1>1. ASSUME urgent PROVE \E i \in Scheduled(day) : line(i)
  <2>1. PICK v \in UnitsOf(day) : v.truck = u.truck /\ v.tier = 0
    BY <1>1
  <2>2. PICK i \in Scheduled(day) : \E j \in Known(day[i]) : v = UnitAt(day[i], i, j)
    BY UnitsAre
  <2>3. v.truck = TruckOf(day[i]) /\ v.tier = TierOf(day[i]) /\ Known(day[i]) # {}
    BY <2>2 DEF UnitAt
  <2>4. day[i].type \in {1, 4, 5}
    BY <2>1, <2>3 DEF TierOf, MorningTypes
  <2> QED BY <2>1, <2>3, <2>4
<1>2. ASSUME NEW i \in Scheduled(day), line(i) PROVE urgent
  <2>1. PICK j \in Known(day[i]) : TRUE
    BY <1>2
  <2>2. UnitAt(day[i], i, j) \in UnitsOf(day)
    BY DEF UnitsOf
  <2>3. /\ UnitAt(day[i], i, j).truck = TruckOf(day[i])
        /\ UnitAt(day[i], i, j).tier = TierOf(day[i]) /\ TierOf(day[i]) = 0
    BY <1>2 DEF UnitAt, TierOf, MorningTypes
  <2> QED BY <1>2, <2>2, <2>3
<1>3. urgent <=> \E i \in Scheduled(day) : line(i)
  BY <1>1, <1>2
<1>4. Urgency(u) = IF \E i \in Scheduled(day) : line(i) THEN 0 ELSE 1
  BY DEF Urgency
<1> HIDE DEF line
<1> QED BY <1>3, <1>4 DEF TruckKey

LEMMA ClaimsFollow == DayTyped(day) => ClaimsFollowTheDay
<1> SUFFICES ASSUME DayTyped(day), NEW u \in Picks(day), NEW v \in Picks(day)
             PROVE  Lex(RouteOf(UnitsOf(day), u), RouteOf(UnitsOf(day), v))
                      <=> Lex(ClaimKey(u), ClaimKey(v))
  BY DEF ClaimsFollowTheDay
<1> DEFINE units == UnitsOf(day)
           fleet(x) == IF x.truck \in Owned THEN 0 ELSE 1
<1>1. u \in units /\ v \in units /\ IsPick(u) /\ IsPick(v)
  BY DEF Picks
<1>2. \A x \in {u, v} : /\ Urgency(x) \in Int /\ fleet(x) \in Int /\ Label[x.truck] \in Int
                        /\ x.model \in Int /\ x.unit \in Int /\ Appearance(x) \in Int
                        /\ x.truck \in DOMAIN Label
  BY <1>1, UnitsAre, AppearancesCompare, DaysAssumption DEF TypedUnit, Urgency, DaysAssumption
<1>3. \A x \in {u, v} : TruckKey(units, x.truck) = <<Urgency(x), fleet(x), Label[x.truck]>>
  BY <1>1, UrgenciesAre
<1>4. \A x \in {u, v} :
        ClaimKey(x) = <<Urgency(x), fleet(x), Label[x.truck], Appearance(x), x.model, x.unit>>
  BY DEF ClaimKey
<1>5. \A x \in {u, v} : PieceKey(x) = <<x.model, x.unit>>
  BY DEF PieceKey
<1>6. TruckKey(units, u.truck) = TruckKey(units, v.truck) <=> u.truck = v.truck
  <2> SUFFICES ASSUME TruckKey(units, u.truck) = TruckKey(units, v.truck), u.truck # v.truck
               PROVE  FALSE
    OBVIOUS
  <2>1. Label[u.truck] = Label[v.truck] /\ (u.truck \in Owned <=> v.truck \in Owned)
    BY <1>3
  <2> QED BY <1>2, <2>1, LabelAssumption DEF LabelAssumption
<1> HIDE DEF fleet, units
<1>7. Lex(ClaimKey(u), ClaimKey(v)) <=>
        \/ Lex(TruckKey(units, u.truck), TruckKey(units, v.truck))
        \/ /\ TruckKey(units, u.truck) = TruckKey(units, v.truck)
           /\ \/ Appearance(u) < Appearance(v)
              \/ Appearance(u) = Appearance(v) /\ Lex(PieceKey(u), PieceKey(v))
  <2> DEFINE key(x) == <<Urgency(x), fleet(x), Label[x.truck]>>
             claim(x) == <<Urgency(x), fleet(x), Label[x.truck], Appearance(x), x.model, x.unit>>
             piece(x) == <<x.model, x.unit>>
  <2>1. /\ Urgency(u) \in Int /\ fleet(u) \in Int /\ Label[u.truck] \in Int
        /\ Appearance(u) \in Int /\ u.model \in Int /\ u.unit \in Int
        /\ Urgency(v) \in Int /\ fleet(v) \in Int /\ Label[v.truck] \in Int
        /\ Appearance(v) \in Int /\ v.model \in Int /\ v.unit \in Int
    BY <1>2
  <2>2. Lex(claim(u), claim(v)) <=>
          \/ Lex(key(u), key(v))
          \/ /\ key(u) = key(v)
             /\ \/ Appearance(u) < Appearance(v)
                \/ Appearance(u) = Appearance(v) /\ Lex(piece(u), piece(v))
    <3>1. Six(claim(u)) /\ Six(claim(v))
      BY <2>1 DEF Six
    <3>2. \A x : /\ key(x) = <<claim(x)[1], claim(x)[2], claim(x)[3]>>
                 /\ Appearance(x) = claim(x)[4] /\ piece(x) = <<claim(x)[5], claim(x)[6]>>
      OBVIOUS
    <3> HIDE DEF claim, key, piece
    <3> QED BY <3>1, <3>2, Lex6
  <2>3. /\ ClaimKey(u) = claim(u) /\ ClaimKey(v) = claim(v)
        /\ TruckKey(units, u.truck) = key(u) /\ TruckKey(units, v.truck) = key(v)
        /\ PieceKey(u) = piece(u) /\ PieceKey(v) = piece(v)
    BY <1>3, <1>4, <1>5
  <2> HIDE DEF key, claim, piece
  <2> QED BY <2>2, <2>3
<1>8. Lex(RouteOf(units, u), RouteOf(units, v)) <=>
        \/ Lex(TruckKey(units, u.truck), TruckKey(units, v.truck))
        \/ /\ u.truck = v.truck
           /\ \/ Lex(FirstSeen(units, StopOf(u)), FirstSeen(units, StopOf(v)))
              \/ StopOf(u) = StopOf(v) /\ Lex(PieceKey(u), PieceKey(v))
  BY <1>1, RoutesCompare DEF units
<1>9. u.truck = v.truck =>
        /\ Appearance(u) < Appearance(v) <=>
             Lex(FirstSeen(units, StopOf(u)), FirstSeen(units, StopOf(v)))
        /\ Appearance(u) = Appearance(v) <=> StopOf(u) = StopOf(v)
  BY <1>1, AppearancesCompare DEF units
<1>10. Lex(RouteOf(units, u), RouteOf(units, v)) <=> Lex(ClaimKey(u), ClaimKey(v))
  BY <1>6, <1>7, <1>8, <1>9
<1> QED BY <1>10 DEF units

\* On every day the three numbers of the routes give the claim order by its definition: the
\* rank says nothing of labels, the stop number nothing of trucks, yet together they do.
THEOREM RoutesFollowTheDay == Spec => []ClaimsFollowTheDay
BY DaysAreTyped, ClaimsFollow, PTL

\* No two rows of a day have the same route, so that no claim is left to chance.
RoutesDiffer ==
  \A u, v \in Picks(day) : RouteOf(UnitsOf(day), u) = RouteOf(UnitsOf(day), v) => u = v

THEOREM RoutesNeverTie == Spec => []RoutesDiffer
<1>1. DayTyped(day) => RoutesDiffer
  <2> SUFFICES ASSUME DayTyped(day), NEW u \in Picks(day), NEW v \in Picks(day),
                      RouteOf(UnitsOf(day), u) = RouteOf(UnitsOf(day), v)
               PROVE  u = v
    BY DEF RoutesDiffer
  <2> DEFINE units == UnitsOf(day)
  <2>1. u \in units /\ v \in units /\ IsPick(u) /\ IsPick(v)
    BY DEF Picks
  <2>2. /\ TruckRank(units, u.truck) = TruckRank(units, v.truck)
        /\ StopOrder(units, u) = StopOrder(units, v)
        /\ PieceOrder(units, u) = PieceOrder(units, v)
    BY DEF RouteOf
  <2>3. u.truck = v.truck
    BY <2>1, <2>2, TruckRanks, UnitsHaveStops
  <2>4. StopOf(u).truck = StopOf(v).truck
    BY <2>3 DEF StopOf
  <2>5. StopOf(u) = StopOf(v)
    BY <2>1, <2>2, <2>4, StopOrders, UnitsHaveStops
  <2>6. u \in PiecesOf(units, StopOf(u)) /\ v \in PiecesOf(units, StopOf(u))
    BY <2>1, <2>5, UnitsHaveStops DEF PiecesOf
  <2> QED BY <2>2, <2>6, PieceOrders
<1> QED BY <1>1, DaysAreTyped, PTL

----------------------------------------------------------------------------
(***************************************************************************)
(* Reading one more line.                                                  *)
(***************************************************************************)

OneLineMore(d, e) ==
  Len(e) = Len(d) + 1 /\ \A i \in 1..Len(d) : e[i] = d[i]

LEMMA LineAddsUnits ==
  ASSUME NEW d, NEW e, DayTyped(d), DayTyped(e), OneLineMore(d, e)
  PROVE  /\ UnitsOf(d) \subseteq UnitsOf(e)
         /\ \A u \in UnitsOf(e) \ UnitsOf(d) : u.at[1] = Len(d) + 1
         /\ \A u \in UnitsOf(d) : u.at[1] <= Len(d)
<1>1. /\ Len(d) \in Nat /\ DOMAIN d = 1..Len(d) /\ DOMAIN e = 1..Len(d) + 1
      /\ \A i \in 1..Len(d) : e[i] = d[i]
  BY DEF DayTyped, OneLineMore
<1>2. \A i \in 1..Len(d) : i \in Scheduled(d) <=> i \in Scheduled(e)
  BY <1>1 DEF Scheduled
<1>3. UnitsOf(d) \subseteq UnitsOf(e)
  <2> SUFFICES ASSUME NEW u \in UnitsOf(d) PROVE u \in UnitsOf(e)
    OBVIOUS
  <2>1. PICK i \in Scheduled(d) : u \in {UnitAt(d[i], i, j) : j \in Known(d[i])}
    BY DEF UnitsOf
  <2>2. i \in Scheduled(e) /\ e[i] = d[i]
    BY <1>1, <1>2 DEF Scheduled
  <2>3. u \in {UnitAt(e[i], i, j) : j \in Known(e[i])}
    BY <2>1, <2>2
  <2>4. {UnitAt(e[i], i, j) : j \in Known(e[i])} \subseteq UnitsOf(e)
    BY <2>2 DEF UnitsOf
  <2> QED BY <2>3, <2>4
<1>4. ASSUME NEW u \in UnitsOf(e) \ UnitsOf(d) PROVE u.at[1] = Len(d) + 1
  <2>1. PICK i \in Scheduled(e) : \E j \in Known(e[i]) : u = UnitAt(e[i], i, j) /\ u.at = <<i, j>>
    <3>1. u \in UnitsOf(e)
      BY <1>4
    <3> QED BY <3>1, UnitsAre
  <2>2. CASE i \in 1..Len(d)
    <3>1. i \in Scheduled(d) /\ e[i] = d[i]
      BY <1>1, <1>2, <2>2
    <3>2. PICK j \in Known(d[i]) : u = UnitAt(d[i], i, j)
      BY <2>1, <3>1
    <3>3. u \in UnitsOf(d)
      BY <3>1, <3>2 DEF UnitsOf
    <3> QED BY <1>4, <3>3
  <2>3. CASE i \notin 1..Len(d)
    BY <1>1, <2>1, <2>3 DEF Scheduled
  <2> QED BY <2>2, <2>3
<1>5. ASSUME NEW u \in UnitsOf(d) PROVE u.at[1] <= Len(d)
  <2>1. PICK i \in Scheduled(d) : \E j \in Known(d[i]) : u.at = <<i, j>>
    BY UnitsAre
  <2> QED BY <1>1, <2>1 DEF Scheduled
<1> QED BY <1>3, <1>4, <1>5

LEMMA FirstSeenStays ==
  ASSUME NEW d, NEW e, DayTyped(d), DayTyped(e), OneLineMore(d, e),
         NEW st \in StopsIn(UnitsOf(d))
  PROVE  st \in StopsIn(UnitsOf(e)) /\ FirstSeen(UnitsOf(e), st) = FirstSeen(UnitsOf(d), st)
<1>1. /\ UnitsOf(d) \subseteq UnitsOf(e) /\ Len(d) \in Nat
      /\ \A u \in UnitsOf(e) \ UnitsOf(d) : u.at[1] = Len(d) + 1
      /\ \A u \in UnitsOf(d) : u.at[1] <= Len(d)
  <2>1. Len(d) \in Nat
    BY DEF DayTyped
  <2> QED BY <2>1, LineAddsUnits
<1>2. st \in StopsIn(UnitsOf(e))
  BY <1>1 DEF StopsIn
<1>3. PICK u \in GroupOf(UnitsOf(d), st) :
        FirstSeen(UnitsOf(d), st) = u.at /\ \A v \in GroupOf(UnitsOf(d), st) : ~ Lex(v.at, u.at)
  BY StopsAreSeen
<1>4. PICK w \in GroupOf(UnitsOf(e), st) :
        FirstSeen(UnitsOf(e), st) = w.at /\ \A v \in GroupOf(UnitsOf(e), st) : ~ Lex(v.at, w.at)
  BY <1>2, StopsAreSeen
<1>5. u \in UnitsOf(d) /\ w \in UnitsOf(e) /\ u \in GroupOf(UnitsOf(e), st)
  BY <1>1 DEF GroupOf
<1>6. /\ u.at[1] \in Int /\ u.at[2] \in Int /\ u.at = <<u.at[1], u.at[2]>>
      /\ w.at[1] \in Int /\ w.at[2] \in Int /\ w.at = <<w.at[1], w.at[2]>>
  <2>1. u.at \in Nat \X Nat /\ w.at \in Nat \X Nat
    BY <1>5, UnitsAre DEF TypedUnit
  <2> QED BY <2>1
<1>7. ~ Lex(u.at, w.at)
  BY <1>4, <1>5
<1>8. Lex(u.at, w.at) <=> u.at[1] < w.at[1] \/ (u.at[1] = w.at[1] /\ u.at[2] < w.at[2])
  <2>1. Lex(<<u.at[1], u.at[2]>>, <<w.at[1], w.at[2]>>) <=>
          u.at[1] < w.at[1] \/ (u.at[1] = w.at[1] /\ u.at[2] < w.at[2])
    BY <1>6, Lex2
  <2> QED BY <1>6, <2>1
<1>9. Lex(w.at, u.at) <=> w.at[1] < u.at[1] \/ (w.at[1] = u.at[1] /\ w.at[2] < u.at[2])
  <2>1. Lex(<<w.at[1], w.at[2]>>, <<u.at[1], u.at[2]>>) <=>
          w.at[1] < u.at[1] \/ (w.at[1] = u.at[1] /\ w.at[2] < u.at[2])
    BY <1>6, Lex2
  <2> QED BY <1>6, <2>1
<1>10. ~ Lex(w.at, u.at)
  <2>1. CASE w \in UnitsOf(d)
    <3>1. w \in GroupOf(UnitsOf(d), st)
      BY <2>1 DEF GroupOf
    <3> QED BY <1>3, <3>1
  <2>2. CASE w \notin UnitsOf(d)
    BY <1>1, <1>5, <1>6, <1>9, <2>2
  <2> QED BY <2>1, <2>2
<1>11. u.at = w.at
  BY <1>6, <1>7, <1>8, <1>9, <1>10
<1> QED BY <1>2, <1>3, <1>4, <1>11

\* A rebuild after the office has added a line at the end keeps the order of a truck's stops.
THEOREM StopsAlwaysKeepTheirPlace == Spec => StopsKeepTheirPlace
<1> DEFINE Keep ==
      \A s, t \in StopsIn(UnitsOf(day)) :
        s.truck = t.truck /\ StopOrder(UnitsOf(day), s) < StopOrder(UnitsOf(day), t) =>
          StopOrder(UnitsOf(day'), s) < StopOrder(UnitsOf(day'), t)
<1>1. DayTyped(day) /\ DayTyped(day)' /\ [Next]_day => [Keep]_day
  <2> SUFFICES ASSUME DayTyped(day), DayTyped(day'), ReadLine,
                      NEW s \in StopsIn(UnitsOf(day)), NEW t \in StopsIn(UnitsOf(day)),
                      s.truck = t.truck, StopOrder(UnitsOf(day), s) < StopOrder(UnitsOf(day), t)
               PROVE  StopOrder(UnitsOf(day'), s) < StopOrder(UnitsOf(day'), t)
    BY DEF Next, DayTyped
  <2>1. OneLineMore(day, day')
    <3>1. PICK line \in Lines[Len(day) + 1] : day' = Append(day, line)
      BY DEF ReadLine
    <3>2. line \in UNION {Lines[i] : i \in 1..MaxLines}
      BY <3>1, DaysAssumption DEF ReadLine, DayTyped, DaysAssumption
    <3> DEFINE Any == UNION {Lines[i] : i \in 1..MaxLines}
    <3>3. day \in Seq(Any) /\ line \in Any
      BY <3>2 DEF DayTyped
    <3> HIDE DEF Any
    <3> QED BY <3>1, <3>3 DEF OneLineMore
  <2>2. /\ s \in StopsIn(UnitsOf(day')) /\ FirstSeen(UnitsOf(day'), s) = FirstSeen(UnitsOf(day), s)
        /\ t \in StopsIn(UnitsOf(day')) /\ FirstSeen(UnitsOf(day'), t) = FirstSeen(UnitsOf(day), t)
    BY <2>1, FirstSeenStays
  <2>3. Lex(FirstSeen(UnitsOf(day), s), FirstSeen(UnitsOf(day), t))
    BY StopOrders
  <2> QED BY <2>2, <2>3, StopOrders
<1> QED BY <1>1, DaysAreTyped, PTL DEF Spec, StopsKeepTheirPlace

----------------------------------------------------------------------------
(***************************************************************************)
(* What a plan is made of.                                                 *)
(***************************************************************************)

RowOf(units, u) ==
  [order |-> u.order, unit |-> u.unit, route |-> RouteOf(units, u), status |-> PickStatus(u)]

LEMMA RowsAre ==
  ASSUME DayTyped(day)
  PROVE  LET rows == PlanOf("today", day).rows
             picks == {u \in UnitsOf(day) : IsPick(u)}
         IN rows = {RowOf(UnitsOf(day), u) : u \in picks} /\ IsFiniteSet(rows)
<1> DEFINE units == UnitsOf(day)
           picks == {u \in units : IsPick(u)}
           of == [u \in picks |-> RowOf(units, u)]
<1>1. PlanOf("today", day).rows = {RowOf(units, u) : u \in picks}
  BY DEF PlanOf, RowOf
<1>2. IsFiniteSet(picks)
  BY UnitsAreFinite, FS_Subset
<1>3. of = [u \in picks |-> of[u]] /\ {of[u] : u \in picks} = {RowOf(units, u) : u \in picks}
  OBVIOUS
<1>4. IsFiniteSet({of[u] : u \in picks})
  <2> HIDE DEF of, picks
  <2> QED BY <1>2, <1>3, FiniteImage
<1> QED BY <1>1, <1>3, <1>4

\* A plan is what the build takes it to be (BuildAssumption): a unit has one row, and a row's
\* order has a stop.
PlanFits ==
  LET plan == PlanOf("today", day)
  IN /\ \A r, q \in plan.rows : r.unit = q.unit => r = q
     /\ \A r \in plan.rows : \E st \in plan.stops : st.order = r.order

THEOREM PlansFit == Spec => []PlanFits
<1>1. DayTyped(day) => PlanFits
  <2> SUFFICES ASSUME DayTyped(day) PROVE PlanFits
    OBVIOUS
  <2> DEFINE units == UnitsOf(day)
             picks == {u \in units : IsPick(u)}
  <2>1. PlanOf("today", day).rows = {RowOf(units, u) : u \in picks}
    BY RowsAre
  <2>2. PlanOf("today", day).stops = StopsIn(units)
    BY DEF PlanOf
  <2>3. \A u \in picks : RowOf(units, u).unit = u.unit /\ RowOf(units, u).order = u.order
    BY DEF RowOf
  <2>4. \A u, v \in picks : u.unit = v.unit => u = v
    BY UnitsDiffer
  <2>5. \A u \in picks : \E st \in StopsIn(units) : st.order = u.order
    <3>1. \A u \in picks : StopOf(u) \in StopsIn(units) /\ StopOf(u).order = u.order
      BY UnitsHaveStops DEF StopOf
    <3> QED BY <3>1
  <2> HIDE DEF units, picks
  <2> QED BY <2>1, <2>2, <2>3, <2>4, <2>5 DEF PlanFits
<1> QED BY <1>1, DaysAreTyped, PTL

LEMMA PiecesAccountedFor == DayTyped(day) => EveryPieceIsAccountedFor
<1> SUFFICES ASSUME DayTyped(day), NEW i \in Scheduled(day),
                    day[i].order \notin PlanOf("today", day).short
             PROVE  Cardinality({r \in PlanOf("today", day).rows :
                      \E j \in DOMAIN day[i].allocated : r.unit = day[i].allocated[j].unit})
                    + Cardinality({j \in DOMAIN day[i].allocated : day[i].allocated[j].erp \notin {1, 3}})
                    >= day[i].qty
  BY DEF EveryPieceIsAccountedFor
<1> DEFINE all == day[i].allocated
           rows == {r \in PlanOf("today", day).rows : \E j \in DOMAIN all : r.unit = all[j].unit}
           picked == {j \in DOMAIN all : all[j].erp \in {1, 3}}
           other == {j \in DOMAIN all : all[j].erp \notin {1, 3}}
           row == [j \in picked |-> RowOf(UnitsOf(day), UnitAt(day[i], i, j))]
<1>1. day[i].qty \in Nat /\ Len(all) \in Nat /\ DOMAIN all = 1..Len(all) /\ Len(all) >= day[i].qty
  <2>1. day[i].order \notin Short(day)
    BY DEF PlanOf
  <2>2. ~ (Len(all) < day[i].qty)
    BY <2>1 DEF Short
  <2> QED BY <2>2, LinesAreTyped
<1>2. \A j \in picked : /\ UnitAt(day[i], i, j) \in UnitsOf(day) /\ IsPick(UnitAt(day[i], i, j))
                        /\ UnitAt(day[i], i, j).unit = all[j].unit
  <2> SUFFICES ASSUME NEW j \in picked
               PROVE  /\ UnitAt(day[i], i, j) \in UnitsOf(day) /\ IsPick(UnitAt(day[i], i, j))
                      /\ UnitAt(day[i], i, j).unit = all[j].unit
    OBVIOUS
  <2>1. j \in Known(day[i])
    BY DEF Known
  <2>2. UnitAt(day[i], i, j).erp = all[j].erp /\ UnitAt(day[i], i, j).unit = all[j].unit
    BY DEF UnitAt
  <2> QED BY <2>1, <2>2 DEF UnitsOf, IsPick
<1>3. \A j \in picked : row[j] \in rows /\ row[j].unit = all[j].unit
  <2> SUFFICES ASSUME NEW j \in picked PROVE row[j] \in rows /\ row[j].unit = all[j].unit
    OBVIOUS
  <2>1. row[j] = RowOf(UnitsOf(day), UnitAt(day[i], i, j)) /\ j \in DOMAIN all
    OBVIOUS
  <2>2. row[j] \in PlanOf("today", day).rows
    BY <1>2, <2>1, RowsAre
  <2>3. row[j].unit = all[j].unit
    BY <1>2, <2>1 DEF RowOf
  <2> QED BY <2>1, <2>2, <2>3
<1>4. \A j, k \in picked : row[j] = row[k] => j = k
  <2> SUFFICES ASSUME NEW j \in picked, NEW k \in picked, row[j] = row[k] PROVE j = k
    OBVIOUS
  <2>1. UnitAt(day[i], i, j).unit = UnitAt(day[i], i, k).unit
    BY <1>2, <1>3
  <2>2. UnitAt(day[i], i, j) = UnitAt(day[i], i, k)
    BY <1>2, <2>1, UnitsDiffer
  <2>3. UnitAt(day[i], i, j).at = <<i, j>> /\ UnitAt(day[i], i, k).at = <<i, k>>
    BY DEF UnitAt
  <2> QED BY <2>2, <2>3
<1>5. IsFiniteSet(rows)
  BY RowsAre, FS_Subset
<1>6. IsFiniteSet(picked) /\ Cardinality(picked) <= Cardinality(rows)
  <2>1. row \in [picked -> rows]
    BY <1>3
  <2> HIDE DEF row, picked, rows
  <2>2. row \in Injection(picked, rows)
    BY <1>4, <2>1 DEF Injection, IsInjective
  <2> QED BY <1>5, <2>2, FS_Injection
<1>7. IsFiniteSet(1..Len(all)) /\ Cardinality(1..Len(all)) = Len(all)
  <2> DEFINE n == Len(all)
  <2>1. n \in Nat
    BY <1>1
  <2> HIDE DEF n
  <2>2. IsFiniteSet(1..n) /\ Cardinality(1..n) = n
    <3> HIDE DEF rows, picked, other, row, all
    <3> QED BY <2>1, FS_Interval
  <2> QED BY <2>2 DEF n
<1>8. picked \cup other = 1..Len(all) /\ picked \cap other = {} /\ other \in SUBSET (1..Len(all))
  BY <1>1
<1> HIDE DEF picked, rows, other, all
<1>9. IsFiniteSet(other) /\ Cardinality(other) \in Nat
  BY <1>7, <1>8, FS_Subset, FS_CardinalityType
<1>10. Cardinality(picked) \in Nat /\ Cardinality(rows) \in Nat
  BY <1>5, <1>6, FS_CardinalityType
<1>11. Cardinality(picked \cup other)
         = Cardinality(picked) + Cardinality(other) - Cardinality(picked \cap other)
  BY <1>6, <1>9, FS_Union
<1>12. Cardinality(picked) + Cardinality(other) = Len(all)
  <2>1. Cardinality(picked \cup other) = Len(all) /\ Cardinality(picked \cap other) = 0
    BY <1>7, <1>8, FS_EmptySet
  <2> QED BY <1>1, <1>9, <1>10, <1>11, <2>1
<1>13. Cardinality(rows) + Cardinality(other) >= day[i].qty
  BY <1>1, <1>6, <1>9, <1>10, <1>12
<1> QED BY <1>13 DEF rows, other, all

\* Rule 4, nothing scheduled is silently dropped: on every day a piece of a scheduled line is
\* a row, or cannot be picked, or makes its order a shortfall.
THEOREM NothingIsDropped == Spec => []EveryPieceIsAccountedFor
BY DaysAreTyped, PiecesAccountedFor, PTL
=============================================================================
