--------------------------- MODULE CcoSymtab_proof ---------------------------
(***************************************************************************)
(* The intern tables implement Interner and a probe always ends, for any   *)
(* strings, any hash function and tables of any size.                      *)
(*                                                                         *)
(* The heart is Right: every key of an array can be reached from the slot  *)
(* its hash names without crossing a free slot, and no string is in it     *)
(* twice.  A probe that stops at a free slot then proves that the string   *)
(* is not there.  How slots are numbered does not matter for that, so Slot *)
(* stays closed but for its range.  Half moved arrays are described by     *)
(* FreshRight, and counts by the number of slots in use: growing at three  *)
(* quarters leaves a slot free.                                            *)
(***************************************************************************)
EXTENDS CcoSymtab, FiniteSetTheorems, TLAPS

(* An array of c slots over the strings w. *)
IsArray(e, c, w) == e \in [0 .. c - 1 -> 0 .. Len(w)]
InUse(e, n) == {i \in 0 .. n - 1 : e[i] # Null}

Reached(e, c, w) ==
    \A i \in InUse(e, c) :
        \E d \in 0 .. c - 1 :
            /\ Slot(w[e[i]], d, c) = i
            /\ \A j \in 0 .. d - 1 : e[Slot(w[e[i]], j, c)] # Null
Distinct(e, c, w) ==
    \A i, j \in InUse(e, c) : w[e[i]] = w[e[j]] => i = j

Put(e, i, a) == [e EXCEPT ![i] = a]

Right(e, c, w) == IsArray(e, c, w) /\ Reached(e, c, w) /\ Distinct(e, c, w)

TableRight(t) ==
    /\ capacity[t] \in Nat /\ count[t] \in Nat
    /\ Right(entries[t], capacity[t], copies)
    /\ count[t] = Cardinality(InUse(entries[t], capacity[t]))
    /\ count[t] <= (capacity[t] * 3) \div 4

(* The first next entries are in the larger array and nothing else is.     *)
FreshRight ==
    /\ next \in 0 .. capacity[tab]
    /\ Right(fresh, NewCap(tab), copies)
    /\ {fresh[i] : i \in InUse(fresh, NewCap(tab))} =
         {entries[tab][i] : i \in InUse(entries[tab], next)}
    /\ Cardinality(InUse(fresh, NewCap(tab))) =
         Cardinality(InUse(entries[tab], next))

IInv == /\ TypeOK
        /\ \A t \in Table : TableRight(t)
        /\ pc = "rehash" => FreshRight
        /\ pc = "probe" => count[tab] < (capacity[tab] * 3) \div 4

-----------------------------------------------------------------------------
(* A slot is one of the array's. *)
LEMMA SlotInside ==
    ASSUME NEW s \in Str, NEW d \in Nat, NEW c \in Nat, c > 0
    PROVE  Slot(s, d, c) \in 0 .. c - 1
<1>1. Hash[s] + d \in Nat BY HashAssumption
<1>2. \A x \in Nat : x % c \in 0 .. c - 1 OBVIOUS
<1> QED BY <1>1, <1>2 DEF Slot

(* The slots in use are finitely many, one more per entry looked at. *)
LEMMA InUseFinite ==
    ASSUME NEW e, NEW n \in Nat
    PROVE  /\ IsFiniteSet(InUse(e, n)) /\ Cardinality(InUse(e, n)) \in Nat
           /\ Cardinality(InUse(e, n)) <= n
           /\ InUse(e, n + 1) = IF e[n] = Null THEN InUse(e, n)
                                ELSE InUse(e, n) \cup {n}
           /\ n \notin InUse(e, n)
<1>1. InUse(e, n) \subseteq 0 .. n - 1 BY DEF InUse
<1>2. IsFiniteSet(0 .. n - 1) /\ Cardinality(0 .. n - 1) = n
  <2>1. 0 \in Int /\ n - 1 \in Int OBVIOUS
  <2>2. Cardinality(0 .. n - 1) = IF 0 > n - 1 THEN 0 ELSE n - 1 - 0 + 1
    BY <2>1, FS_Interval
  <2> QED BY <2>1, <2>2, FS_Interval
<1>3. /\ IsFiniteSet(InUse(e, n))
      /\ Cardinality(InUse(e, n)) <= Cardinality(0 .. n - 1)
  BY <1>1, <1>2, FS_Subset
<1>4. Cardinality(InUse(e, n)) \in Nat BY <1>3, FS_CardinalityType
<1>5. 0 .. (n + 1) - 1 = (0 .. n - 1) \cup {n} OBVIOUS
<1>6. InUse(e, n + 1) = IF e[n] = Null THEN InUse(e, n)
                        ELSE InUse(e, n) \cup {n}
  BY <1>5 DEF InUse
<1>7. n \notin InUse(e, n) BY DEF InUse
<1> QED BY <1>2, <1>3, <1>4, <1>6, <1>7

(* An array with fewer keys than slots has a free slot. *)
LEMMA RoomLeft ==
    ASSUME NEW e, NEW c \in Nat, Cardinality(InUse(e, c)) < c
    PROVE  \E i \in 0 .. c - 1 : e[i] = Null
<1>1. SUFFICES ASSUME \A i \in 0 .. c - 1 : e[i] # Null PROVE FALSE
  OBVIOUS
<1>2. InUse(e, c) = 0 .. c - 1 BY <1>1 DEF InUse
<1>3. Cardinality(0 .. c - 1) = c
  <2>1. 0 \in Int /\ c - 1 \in Int OBVIOUS
  <2>2. Cardinality(0 .. c - 1) = IF 0 > c - 1 THEN 0 ELSE c - 1 - 0 + 1
    BY <2>1, FS_Interval
  <2> QED BY <2>1, <2>2
<1> QED BY <1>2, <1>3

(* Once the probe for s has come to a free slot, s is not in the array.     *)
LEMMA StopsOnlyIfAbsent ==
    ASSUME NEW c \in Nat, NEW w \in Seq(Str), NEW e, Right(e, c, w),
           NEW s \in Str, NEW d \in 0 .. c - 1,
           e[Slot(s, d, c)] = Null,
           \A j \in 0 .. d - 1 : LET a == e[Slot(s, j, c)]
                                 IN  a # Null /\ w[a] # s
    PROVE  \A i \in InUse(e, c) : w[e[i]] # s
<1> SUFFICES ASSUME NEW i \in InUse(e, c), w[e[i]] = s PROVE FALSE
  OBVIOUS
<1>1. PICK p \in 0 .. c - 1 : /\ Slot(s, p, c) = i
                             /\ \A j \in 0 .. p - 1 : e[Slot(s, j, c)] # Null
  BY DEF Right, Reached
<1>2. e[i] # Null BY DEF InUse
<1>3. CASE p < d
  <2>1. p \in 0 .. d - 1 BY <1>3
  <2> QED BY <1>1, <2>1
<1>4. CASE d < p
  <2>1. d \in 0 .. p - 1 BY <1>4
  <2> QED BY <1>1, <2>1
<1>5. CASE d = p BY <1>1, <1>2, <1>5
<1> QED BY <1>3, <1>4, <1>5

(* Putting a string that is not there in the first free slot of its probe   *)
(* keeps an array right.                                                    *)
LEMMA PutRight ==
    ASSUME NEW c \in Nat, NEW w \in Seq(Str), NEW e, Right(e, c, w),
           NEW a \in 1 .. Len(w), NEW d \in 0 .. c - 1,
           Free(e, c, w[a], d),
           \A i \in InUse(e, c) : w[e[i]] # w[a],
           NEW k, k = Slot(w[a], d, c)
    PROVE  /\ Right(Put(e, k, a), c, w)
           /\ k \in 0 .. c - 1 /\ k \notin InUse(e, c)
           /\ InUse(Put(e, k, a), c) = InUse(e, c) \cup {k}
           /\ \A i \in 0 .. c - 1 :
                Put(e, k, a)[i] = IF i = k THEN a ELSE e[i]
<1> DEFINE f == Put(e, k, a)
<1>1. w[a] \in Str /\ a # Null BY DEF Null
<1>2. k \in 0 .. c - 1
  <2>1. d \in Nat /\ c > 0 OBVIOUS
  <2> QED BY <1>1, <2>1, SlotInside
<1>3. e \in [0 .. c - 1 -> 0 .. Len(w)] BY DEF Right, IsArray
<1>4. \A i \in 0 .. c - 1 : f[i] = IF i = k THEN a ELSE e[i]
  BY <1>2, <1>3 DEF Put
<1>5. k \notin InUse(e, c) BY DEF Free, InUse
<1>6. InUse(f, c) = InUse(e, c) \cup {k} BY <1>1, <1>2, <1>4 DEF InUse
<1>7. IsArray(f, c, w) BY <1>2, <1>3 DEF IsArray, Put
<1>8. \A s \in Str, j \in 0 .. c - 1 :
        e[Slot(s, j, c)] # Null => f[Slot(s, j, c)] # Null
  <2> SUFFICES ASSUME NEW s \in Str, NEW j \in 0 .. c - 1,
                      e[Slot(s, j, c)] # Null
               PROVE  f[Slot(s, j, c)] # Null
    OBVIOUS
  <2>1. Slot(s, j, c) \in 0 .. c - 1
    <3>1. j \in Nat /\ c > 0 OBVIOUS
    <3> QED BY <3>1, SlotInside
  <2> QED BY <1>1, <1>4, <2>1
<1>9. Reached(f, c, w)
  <2> SUFFICES ASSUME NEW i \in InUse(f, c)
               PROVE  \E p \in 0 .. c - 1 :
                        /\ Slot(w[f[i]], p, c) = i
                        /\ \A j \in 0 .. p - 1 :
                             f[Slot(w[f[i]], j, c)] # Null
    BY DEF Reached
  <2>1. CASE i = k
    <3>1. f[i] = a BY <1>2, <1>4, <2>1
    <3>2. \A j \in 0 .. d - 1 : f[Slot(w[a], j, c)] # Null
      BY <1>1, <1>8 DEF Free
    <3> QED BY <2>1, <3>1, <3>2
  <2>2. CASE i \in InUse(e, c) /\ i # k
    <3>1. f[i] = e[i] BY <1>4, <2>2 DEF InUse
    <3>2. PICK p \in 0 .. c - 1 :
            /\ Slot(w[e[i]], p, c) = i
            /\ \A j \in 0 .. p - 1 : e[Slot(w[e[i]], j, c)] # Null
      BY <2>2 DEF Right, Reached
    <3>3. w[e[i]] \in Str
      <4>1. e[i] \in 1 .. Len(w) BY <1>3, <2>2 DEF InUse, Null
      <4> QED BY <4>1
    <3>4. \A j \in 0 .. p - 1 : f[Slot(w[e[i]], j, c)] # Null
      BY <1>8, <3>2, <3>3
    <3> QED BY <3>1, <3>2, <3>4
  <2> QED BY <1>6, <2>1, <2>2
<1>10. Distinct(f, c, w)
  <2>1. \A i \in InUse(e, c) : i \in 0 .. c - 1 BY DEF InUse
  <2> QED BY <1>2, <1>4, <1>5, <1>6, <2>1 DEF Distinct, Right
<1> QED BY <1>2, <1>4, <1>5, <1>6, <1>7, <1>9, <1>10 DEF Right

(* One more string in the arena leaves an array as right as it was.         *)
LEMMA MoreStrings ==
    ASSUME NEW c \in Nat, NEW w \in Seq(Str), NEW e, Right(e, c, w),
           NEW s \in Str
    PROVE  Right(e, c, Append(w, s))
<1> DEFINE x == Append(w, s)
<1>1. x \in Seq(Str) /\ Len(x) = Len(w) + 1
      /\ \A a \in 1 .. Len(w) : x[a] = w[a]
  OBVIOUS
<1>2. e \in [0 .. c - 1 -> 0 .. Len(w)] BY DEF Right, IsArray
<1>3. \A i \in InUse(e, c) : e[i] \in 1 .. Len(w) BY <1>2 DEF InUse, Null
<1>4. \A i \in InUse(e, c) : x[e[i]] = w[e[i]] BY <1>1, <1>3
<1>5. IsArray(e, c, x) BY <1>1, <1>2 DEF IsArray
<1> HIDE DEF x
<1>6. Reached(e, c, x) BY <1>4 DEF Right, Reached
<1>7. Distinct(e, c, x) BY <1>4 DEF Right, Distinct
<1> QED BY <1>5, <1>6, <1>7 DEF Right, x

-----------------------------------------------------------------------------
(* Empty tables are right, of any size. *)
LEMMA EmptyRight ==
    ASSUME NEW c \in Nat, NEW w \in Seq(Str), NEW e,
           e \in [0 .. c - 1 -> {Null}]
    PROVE  Right(e, c, w) /\ InUse(e, c) = {} /\ Cardinality(InUse(e, c)) = 0
<1>1. InUse(e, c) = {} BY DEF InUse
<1>2. IsArray(e, c, w)
  <2>1. 0 \in 0 .. Len(w) OBVIOUS
  <2> QED BY <2>1 DEF IsArray, Null
<1> QED BY <1>1, <1>2, FS_EmptySet DEF Right, Reached, Distinct

LEMMA InitEstablishes == Init => IInv
<1> SUFFICES ASSUME Init PROVE IInv
  OBVIOUS
<1>1. \A t \in Table : /\ entries[t] = <<>> /\ capacity[t] = 0
                        /\ count[t] = 0
  BY DEF Init
<1>2. \A e : e = <<>> => e \in [0 .. 0 - 1 -> {Null}] /\ e \in [0 .. 0 - 1 -> 0 .. 0]
  <2>1. 0 .. 0 - 1 = {} OBVIOUS
  <2>2. \A S : <<>> \in [{} -> S] OBVIOUS
  <2> QED BY <2>1, <2>2
<1>3. copies = <<>> /\ copies \in Seq(Str) /\ Len(copies) = 0
  BY DEF Init
<1>4. TypeOK
  BY <1>1, <1>2, <1>3, CapAssumption DEF Init, TypeOK, NoCall, Null
<1>5. \A t \in Table : TableRight(t)
  <2> SUFFICES ASSUME NEW t \in Table PROVE TableRight(t)
    OBVIOUS
  <2>1. /\ Right(entries[t], 0, copies)
        /\ Cardinality(InUse(entries[t], 0)) = 0
    BY <1>1, <1>2, <1>3, EmptyRight
  <2>2. (0 * 3) \div 4 = 0 OBVIOUS
  <2>3. capacity[t] = 0 /\ count[t] = 0 BY <1>1
  <2>4. /\ Right(entries[t], capacity[t], copies)
        /\ count[t] = Cardinality(InUse(entries[t], capacity[t]))
    BY <2>1, <2>3
  <2>5. count[t] <= (capacity[t] * 3) \div 4 BY <2>2, <2>3
  <2> QED BY <2>3, <2>4, <2>5 DEF TableRight
<1> QED BY <1>4, <1>5 DEF IInv, Init

(* The call that begins finds its table below the load, or makes room.      *)
LEMMA BeginKeeps ==
    ASSUME IInv, NEW t \in Table, NEW s \in Str, Begin(t, s)
    PROVE  IInv'
<1>1. /\ pc = "idle" /\ call' = <<t, s>>
      /\ UNCHANGED <<entries, capacity, count, copies, next, answer>>
  BY DEF Begin, tables
<1>2. tab' = t /\ str' = s BY <1>1 DEF tab, str
<1>3. \A u \in Table : TableRight(u)' BY <1>1 DEF IInv, TableRight
<1>4. capacity[t] \in Nat /\ count[t] \in Nat BY DEF IInv, TableRight
<1>5. CASE Crowded(t)
  <2>1. pc' = "rehash" /\ fresh' = [i \in 0 .. NewCap(t) - 1 |-> Null]
    BY <1>5 DEF Begin
  <2>2. TypeOK' BY <1>1, <2>1 DEF IInv, TypeOK
  <2>3. NewCap(t) \in Nat BY <1>4, CapAssumption DEF NewCap
  <2>4. /\ Right(fresh', NewCap(t), copies)
        /\ InUse(fresh', NewCap(t)) = {}
        /\ Cardinality(InUse(fresh', NewCap(t))) = 0
    <3>1. copies \in Seq(Str) BY DEF IInv, TypeOK
    <3> QED BY <2>1, <2>3, <3>1, EmptyRight
  <2>5. next = 0 /\ InUse(entries[t], 0) = {} BY <1>1 DEF IInv, TypeOK, InUse
  <2>6. NewCap(tab)' = NewCap(t) BY <1>1, <1>2 DEF NewCap
  <2>7. FreshRight'
    <3>1. next' = 0 /\ 0 \in 0 .. capacity'[tab'] BY <1>1, <1>2, <1>4, <2>5
    <3>2. InUse(entries[tab], next)' = {} BY <1>1, <1>2, <2>5, <3>1
    <3> QED BY <1>1, <2>4, <2>6, <3>1, <3>2, FS_EmptySet DEF FreshRight
  <2> QED BY <1>3, <2>1, <2>2, <2>7 DEF IInv
<1>6. CASE ~Crowded(t)
  <2>1. pc' = "probe" BY <1>6 DEF Begin
  <2>2. TypeOK' BY <1>1, <2>1 DEF IInv, TypeOK
  <2>3. (capacity[t] * 3) \div 4 \in Nat BY <1>4
  <2>4. count[t] < (capacity[t] * 3) \div 4
    BY <1>4, <1>6, <2>3 DEF Crowded
  <2> QED BY <1>1, <1>2, <1>3, <2>1, <2>2, <2>4 DEF IInv
<1> QED BY <1>5, <1>6

(* Every moved key goes to the first free slot of its probe. *)
LEMMA RehashKeeps == IInv /\ Rehash => IInv'
<1> SUFFICES ASSUME IInv, Rehash PROVE IInv'
  OBVIOUS
<1> DEFINE e == entries[tab]
           c == capacity[tab]
           n == NewCap(tab)
           a == e[next]
<1>1. /\ pc = "rehash" /\ next < c /\ next' = next + 1
      /\ UNCHANGED <<entries, capacity, count, copies, pc, call, answer>>
  BY DEF Rehash, tables
<1>2. tab \in Table /\ FreshRight BY <1>1 DEF IInv, TypeOK, tab
<1>3. UNCHANGED <<tab, e, c, n>> BY <1>1 DEF tab, NewCap
<1>4. c \in Nat /\ n \in Nat /\ next \in Nat /\ Right(e, c, copies)
  BY <1>2, CapAssumption DEF IInv, TypeOK, TableRight, NewCap
<1>5. /\ TypeOK' /\ \A t \in Table : TableRight(t)'
      /\ pc' = "rehash"
  BY <1>1, <1>4 DEF IInv, TypeOK, TableRight
<1>6. /\ InUse(e, next + 1) = IF a = Null THEN InUse(e, next)
                              ELSE InUse(e, next) \cup {next}
      /\ next \notin InUse(e, next) /\ IsFiniteSet(InUse(e, next))
  BY <1>4, InUseFinite
<1>7. next + 1 \in 0 .. c BY <1>1, <1>4
<1>8. /\ Right(fresh', n, copies)
      /\ {fresh'[i] : i \in InUse(fresh', n)} =
           {e[i] : i \in InUse(e, next + 1)}
      /\ Cardinality(InUse(fresh', n)) = Cardinality(InUse(e, next + 1))
  <2>1. CASE a = Null
    <3>1. fresh' = fresh BY <2>1 DEF Rehash
    <3>2. InUse(e, next + 1) = InUse(e, next) BY <1>6, <2>1
    <3> QED BY <1>2, <3>1, <3>2 DEF FreshRight
  <2>2. CASE a # Null
    <3>1. PICK d \in 0 .. n - 1 :
            /\ Free(fresh, n, copies[a], d)
            /\ fresh' = [fresh EXCEPT ![Slot(copies[a], d, n)] = a]
      BY <2>2 DEF Rehash
    <3>2. next \in InUse(e, c) BY <1>1, <1>4, <2>2 DEF InUse
    <3>3. a \in 1 .. Len(copies)
      <4>1. e \in [0 .. c - 1 -> 0 .. Len(copies)] BY <1>4 DEF Right, IsArray
      <4>2. next \in 0 .. c - 1 BY <1>1, <1>4
      <4>3. a \in 0 .. Len(copies) /\ a # 0
        <5> HIDE DEF e, c
        <5> QED BY <2>2, <4>1, <4>2 DEF Null
      <4>4. Len(copies) \in Nat
        <5>1. copies \in Seq(Str) BY DEF IInv, TypeOK
        <5> QED BY <5>1
      <4> HIDE DEF a
      <4> QED BY <4>3, <4>4
    <3>4. \A i \in InUse(fresh, n) : copies[fresh[i]] # copies[a]
      <4> SUFFICES ASSUME NEW i \in InUse(fresh, n),
                          copies[fresh[i]] = copies[a]
                   PROVE  FALSE
        OBVIOUS
      <4>1. PICK j \in InUse(e, next) : fresh[i] = e[j]
        <5>1. fresh[i] \in {e[j] : j \in InUse(e, next)}
          BY <1>2 DEF FreshRight
        <5> QED BY <5>1
      <4>2. j \in InUse(e, c) /\ j # next BY <1>1, <1>4 DEF InUse
      <4> HIDE DEF e, c
      <4> QED BY <1>4, <3>2, <4>1, <4>2 DEF Right, Distinct
    <3> DEFINE k == Slot(copies[a], d, n)
    <3>5. copies \in Seq(Str) BY DEF IInv, TypeOK
    <3>6. /\ Right(fresh', n, copies)
          /\ k \in 0 .. n - 1 /\ k \notin InUse(fresh, n)
          /\ InUse(fresh', n) = InUse(fresh, n) \cup {k}
          /\ \A i \in 0 .. n - 1 : fresh'[i] = IF i = k THEN a ELSE fresh[i]
      <4>1. Right(fresh, n, copies) BY <1>2 DEF FreshRight
      <4> HIDE DEF a, n
      <4>2. Free(fresh, n, copies[a], d) BY <3>1
      <4>3. fresh' = Put(fresh, k, a) BY <3>1 DEF Put
      <4>4. k = Slot(copies[a], d, n) OBVIOUS
      <4>5. n \in Nat /\ d \in 0 .. n - 1 BY <1>4
      <4> HIDE DEF k
      <4> QED BY <3>3, <3>4, <3>5, <4>1, <4>2, <4>3, <4>4, <4>5, PutRight
    <3>7. /\ IsFiniteSet(InUse(fresh, n))
          /\ Cardinality(InUse(fresh, n)) = Cardinality(InUse(e, next))
      BY <1>2, <1>4, InUseFinite DEF FreshRight
    <3>8. InUse(e, next + 1) = InUse(e, next) \cup {next} BY <1>6, <2>2
    <3>9. Cardinality(InUse(fresh', n)) = Cardinality(InUse(e, next + 1))
      <4>1. Cardinality(InUse(fresh', n)) = Cardinality(InUse(fresh, n)) + 1
        BY <3>6, <3>7, FS_AddElement
      <4>2. Cardinality(InUse(e, next + 1)) = Cardinality(InUse(e, next)) + 1
        BY <1>6, <3>8, FS_AddElement
      <4> QED BY <3>7, <4>1, <4>2
    <3>10. {fresh'[i] : i \in InUse(fresh', n)} =
             {fresh[i] : i \in InUse(fresh, n)} \cup {a}
      <4>1. \A i \in InUse(fresh, n) : i \in 0 .. n - 1 BY DEF InUse
      <4>2. fresh'[k] = a BY <3>6
      <4>3. \A i \in InUse(fresh, n) : fresh'[i] = fresh[i]
        BY <3>6, <4>1
      <4> HIDE DEF k, a, n
      <4> QED BY <3>6, <4>2, <4>3
    <3>11. {e[i] : i \in InUse(e, next + 1)} =
             {e[i] : i \in InUse(e, next)} \cup {a}
      BY <3>8
    <3>12. {fresh[i] : i \in InUse(fresh, n)} = {e[i] : i \in InUse(e, next)}
      BY <1>2 DEF FreshRight
    <3> QED BY <3>6, <3>9, <3>10, <3>11, <3>12
  <2> QED BY <2>1, <2>2
<1>9. FreshRight' BY <1>1, <1>3, <1>7, <1>8 DEF FreshRight
<1> QED BY <1>5, <1>9 DEF IInv

(* The larger array takes the place of the old one: its load is below.      *)
LEMMA GrownKeeps ==
    IInv /\ Grown => IInv' /\ \A t \in Table : Known(t)' = Known(t)
<1> SUFFICES ASSUME IInv, Grown
             PROVE  IInv' /\ \A t \in Table : Known(t)' = Known(t)
  OBVIOUS
<1> DEFINE e == entries[tab]
           c == capacity[tab]
           n == NewCap(tab)
<1>1. /\ pc = "rehash" /\ next = c /\ pc' = "probe" /\ next' = 0
      /\ entries' = [entries EXCEPT ![tab] = fresh]
      /\ capacity' = [capacity EXCEPT ![tab] = n]
      /\ UNCHANGED <<count, copies, call, answer>>
  BY DEF Grown
<1>2. /\ tab \in Table /\ tab' = tab /\ FreshRight
      /\ DOMAIN entries = Table /\ DOMAIN capacity = Table
  BY <1>1 DEF IInv, TypeOK, tab
<1>3. /\ c \in Nat /\ n \in Nat /\ count[tab] \in Nat
      /\ count[tab] = Cardinality(InUse(e, c))
      /\ count[tab] <= (c * 3) \div 4
      /\ n = IF c = 0 THEN InitCap ELSE 2 * c
  BY <1>2, CapAssumption DEF IInv, TableRight, NewCap
<1>4. count[tab] < (n * 3) \div 4
  <2>1. CASE c = 0
    <3>1. InitCap \in Nat /\ InitCap >= 2 BY CapAssumption
    <3>2. n = InitCap /\ count[tab] = 0 BY <1>3, <2>1
    <3> QED BY <3>1, <3>2
  <2>2. CASE c > 0
    <3>1. n = 2 * c BY <1>3, <2>2
    <3>2. (c * 3) \div 4 < ((2 * c) * 3) \div 4 BY <1>3, <2>2
    <3> QED BY <1>3, <3>1, <3>2
  <2> QED BY <1>3, <2>1, <2>2
<1>5. /\ Right(fresh, n, copies)
      /\ count[tab] = Cardinality(InUse(fresh, n))
      /\ {fresh[i] : i \in InUse(fresh, n)} = {e[i] : i \in InUse(e, c)}
  BY <1>1, <1>2, <1>3 DEF FreshRight
<1>6. /\ entries'[tab] = fresh /\ capacity'[tab] = n
      /\ \A t \in Table \ {tab} : /\ entries'[t] = entries[t]
                                  /\ capacity'[t] = capacity[t]
  BY <1>1, <1>2
<1>7. \A t \in Table : TableRight(t)'
  <2> SUFFICES ASSUME NEW t \in Table PROVE TableRight(t)'
    OBVIOUS
  <2>1. CASE t = tab
    <3>1. count'[t] <= (capacity'[t] * 3) \div 4
      BY <1>1, <1>3, <1>4, <1>6, <2>1
    <3> HIDE DEF e, c, n
    <3> QED BY <1>1, <1>3, <1>5, <1>6, <2>1, <3>1 DEF TableRight
  <2>2. CASE t # tab BY <1>1, <1>6, <2>2 DEF IInv, TableRight
  <2> QED BY <2>1, <2>2
<1>8. TypeOK'
  <2>1. /\ DOMAIN entries' = Table /\ capacity' \in [Table -> Nat]
    BY <1>1, <1>3 DEF IInv, TypeOK
  <2>2. \A t \in Table : entries'[t] \in [0 .. capacity'[t] - 1
                                              -> 0 .. Len(copies')]
    BY <1>7 DEF TableRight, Right, IsArray
  <2> QED BY <1>1, <2>1, <2>2 DEF IInv, TypeOK
<1>9. IInv' BY <1>1, <1>2, <1>4, <1>6, <1>7, <1>8 DEF IInv
<1>10. \A t \in Table : Known(t)' = Known(t)
  <2>1. \A f, m : Keys(f, m) = {f[i] : i \in InUse(f, m)}
    BY DEF Keys, InUse
  <2>2. Keys(fresh, n) = Keys(e, c) BY <1>5, <2>1
  <2> HIDE DEF n
  <2> QED BY <1>6, <2>2 DEF Known
<1> QED BY <1>9, <1>10

LEMMA GrowFailsKeeps == IInv /\ GrowFails => IInv'
<1> SUFFICES ASSUME IInv, GrowFails PROVE IInv'
  OBVIOUS
<1>1. /\ pc' = "idle" /\ call' = NoCall /\ answer' = Null /\ next = 0
      /\ UNCHANGED <<entries, capacity, count, copies, next>>
  BY DEF GrowFails, tables
<1>2. \A t \in Table : TableRight(t)' BY <1>1 DEF IInv, TableRight
<1>3. 0 \in 0 .. Len(copies) BY DEF IInv, TypeOK
<1>4. TypeOK' BY <1>1, <1>3 DEF IInv, TypeOK, Null
<1> QED BY <1>1, <1>2, <1>4 DEF IInv

(* What a probe that ends at the string returns is a key of the table. *)
LEMMA FoundKeeps ==
    IInv /\ Found => /\ IInv'
                     /\ answer' \in Known(tab) /\ copies[answer'] = str
<1> SUFFICES ASSUME IInv, Found
             PROVE  /\ IInv'
                    /\ answer' \in Known(tab) /\ copies[answer'] = str
  OBVIOUS
<1>1. /\ pc = "probe" /\ pc' = "idle" /\ call' = NoCall
      /\ UNCHANGED <<entries, capacity, count, copies, next>>
  BY DEF Found, tables
<1>2. /\ tab \in Table /\ str \in Str
      /\ Right(entries[tab], capacity[tab], copies) /\ capacity[tab] \in Nat
  BY <1>1 DEF IInv, TypeOK, tab, str, TableRight
<1>3. PICK d \in 0 .. capacity[tab] - 1 :
        LET a == entries[tab][Slot(str, d, capacity[tab])]
        IN  a # Null /\ copies[a] = str /\ answer' = a
  BY DEF Found, Matches
<1>4. Slot(str, d, capacity[tab]) \in 0 .. capacity[tab] - 1
  <2>1. d \in Nat /\ capacity[tab] > 0 BY <1>2
  <2> QED BY <1>2, <2>1, SlotInside
<1>5. entries[tab] \in [0 .. capacity[tab] - 1 -> 0 .. Len(copies)]
  BY <1>2 DEF Right, IsArray
<1>6. answer' \in 0 .. Len(copies) BY <1>3, <1>4, <1>5
<1>7. TypeOK' BY <1>1, <1>6 DEF IInv, TypeOK
<1>8. \A t \in Table : TableRight(t)' BY <1>1 DEF IInv, TableRight
<1>9. answer' \in Known(tab) BY <1>3, <1>4 DEF Known, Keys
<1> QED BY <1>1, <1>3, <1>7, <1>8, <1>9 DEF IInv

(* A string whose probe ends at a free slot was in the table under no       *)
(* address; its copy is the last string of the arena.                       *)
LEMMA AbsentKeeps ==
    IInv /\ Absent =>
        /\ IInv'
        /\ \A a \in Known(tab) : copies[a] # str
        /\ \/ answer' = Null /\ UNCHANGED tables
           \/ /\ answer' = Len(copies) + 1 /\ answer' \in Address
              /\ copies' = Append(copies, str) /\ UNCHANGED capacity
              /\ \A t \in Table : Known(t)' = IF t = tab
                                               THEN Known(t) \cup {answer'}
                                               ELSE Known(t)
<1> SUFFICES ASSUME IInv, Absent
             PROVE  /\ IInv'
                    /\ \A a \in Known(tab) : copies[a] # str
                    /\ \/ answer' = Null /\ UNCHANGED tables
                       \/ /\ answer' = Len(copies) + 1
                          /\ answer' \in Address
                          /\ copies' = Append(copies, str)
                          /\ UNCHANGED capacity
                          /\ \A t \in Table :
                               Known(t)' = IF t = tab
                                             THEN Known(t) \cup {answer'}
                                             ELSE Known(t)
  OBVIOUS
<1> DEFINE e == entries[tab]
           c == capacity[tab]
           s == str
           k == Len(copies) + 1
<1>1. /\ pc = "probe" /\ pc' = "idle" /\ call' = NoCall
      /\ UNCHANGED <<capacity, next>>
  BY DEF Absent
<1>2. /\ tab \in Table /\ s \in Str /\ copies \in Seq(Str)
      /\ Right(e, c, copies) /\ c \in Nat
  BY <1>1 DEF IInv, TypeOK, tab, str, TableRight
<1>3. PICK d \in 0 .. c - 1 :
        /\ Passed(e, c, s, d) /\ e[Slot(s, d, c)] = Null
        /\ \/ /\ Len(copies) < MaxCopies
              /\ copies' = Append(copies, s)
              /\ entries' = [entries EXCEPT ![tab][Slot(s, d, c)] = Len(copies')]
              /\ count' = [count EXCEPT ![tab] = @ + 1]
              /\ answer' = Len(copies')
           \/ answer' = Null /\ UNCHANGED <<entries, count, copies>>
  BY DEF Absent
<1>4. \A i \in InUse(e, c) : copies[e[i]] # s
  <2>1. \A j \in 0 .. d - 1 : LET a == e[Slot(s, j, c)]
                              IN  a # Null /\ copies[a] # s
    BY <1>3 DEF Passed, Matches
  <2> HIDE DEF e, c, s
  <2> QED BY <1>2, <1>3, <2>1, StopsOnlyIfAbsent
<1>5. \A a \in Known(tab) : copies[a] # s
  BY <1>4 DEF Known, Keys, InUse
<1>6. CASE answer' = Null /\ UNCHANGED <<entries, count, copies>>
  <2>1. 0 \in 0 .. Len(copies) BY <1>2
  <2>2. TypeOK' BY <1>1, <1>6, <2>1 DEF IInv, TypeOK, Null
  <2>3. \A t \in Table : TableRight(t)' BY <1>1, <1>6 DEF IInv, TableRight
  <2> QED BY <1>1, <1>5, <1>6, <2>2, <2>3 DEF IInv, tables
<1>7. CASE /\ Len(copies) < MaxCopies
           /\ copies' = Append(copies, s)
           /\ entries' = [entries EXCEPT ![tab][Slot(s, d, c)] = Len(copies')]
           /\ count' = [count EXCEPT ![tab] = @ + 1]
           /\ answer' = Len(copies')
  <2> DEFINE i == Slot(s, d, c)
  <2>1. /\ Len(copies') = k /\ copies'[k] = s /\ copies' \in Seq(Str)
        /\ Len(copies) \in Nat /\ k \in 1 .. Len(copies')
        /\ \A a \in 1 .. Len(copies) : copies'[a] = copies[a]
    BY <1>2, <1>7
  <2>2. /\ DOMAIN entries = Table /\ DOMAIN count = Table
        /\ count[tab] \in Nat /\ count[tab] = Cardinality(InUse(e, c))
        /\ count[tab] < (c * 3) \div 4
    BY <1>1, <1>2 DEF IInv, TypeOK, TableRight
  <2>3. /\ entries'[tab] = Put(e, i, k)
        /\ \A t \in Table \ {tab} : entries'[t] = entries[t]
    BY <1>2, <1>7, <2>1, <2>2 DEF Put
  <2>4. Right(e, c, copies') BY <1>2, <1>7, MoreStrings
  <2>5. \A j \in InUse(e, c) : e[j] \in 1 .. Len(copies)
    <3>1. e \in [0 .. c - 1 -> 0 .. Len(copies)]
      BY <1>2 DEF Right, IsArray
    <3> HIDE DEF e, c
    <3> QED BY <3>1 DEF InUse, Null
  <2>6. \A j \in InUse(e, c) : copies'[e[j]] # copies'[k]
    BY <1>4, <2>1, <2>5
  <2>7. Free(e, c, copies'[k], d) BY <1>3, <2>1 DEF Free, Passed
  <2>8. /\ Right(Put(e, i, k), c, copies')
        /\ i \in 0 .. c - 1 /\ i \notin InUse(e, c)
        /\ InUse(Put(e, i, k), c) = InUse(e, c) \cup {i}
        /\ \A j \in 0 .. c - 1 :
             Put(e, i, k)[j] = IF j = i THEN k ELSE e[j]
    <3>1. i = Slot(copies'[k], d, c) BY <2>1
    <3> HIDE DEF e, c, s, k, i
    <3> QED BY <1>2, <2>1, <2>4, <2>6, <2>7, <3>1, PutRight
  <2>9. Cardinality(InUse(Put(e, i, k), c)) = count[tab] + 1
    <3>1. IsFiniteSet(InUse(e, c)) BY <1>2, InUseFinite
    <3>2. Cardinality(InUse(e, c) \cup {i}) = Cardinality(InUse(e, c)) + 1
      BY <2>8, <3>1, FS_AddElement
    <3> HIDE DEF e, c, s, k, i
    <3> QED BY <2>2, <2>8, <3>2
  <2>10. \A t \in Table : TableRight(t)'
    <3> SUFFICES ASSUME NEW t \in Table PROVE TableRight(t)'
      OBVIOUS
    <3>1. CASE t = tab
      <4>1. count'[t] = count[tab] + 1 /\ count'[t] \in Nat
        BY <1>7, <2>2, <3>1
      <4>2. count'[t] <= (c * 3) \div 4
        <5>1. (c * 3) \div 4 \in Nat BY <1>2
        <5> HIDE DEF c
        <5> QED BY <2>2, <4>1, <5>1
      <4>3. capacity'[t] = c BY <1>1, <3>1
      <4> HIDE DEF e, c, s, k, i
      <4> QED BY <1>2, <2>3, <2>8, <2>9, <3>1, <4>1, <4>2, <4>3 DEF TableRight
    <3>2. CASE t # tab
      <4>1. /\ entries'[t] = entries[t] /\ count'[t] = count[t]
            /\ capacity'[t] = capacity[t]
        BY <1>1, <1>7, <2>2, <2>3, <3>2
      <4>2. Right(entries[t], capacity[t], copies')
        <5>1. Right(entries[t], capacity[t], copies) /\ capacity[t] \in Nat
          BY DEF IInv, TableRight
        <5> QED BY <1>2, <1>7, <5>1, MoreStrings
      <4> QED BY <4>1, <4>2 DEF IInv, TableRight
    <3> QED BY <3>1, <3>2
  <2>11. TypeOK'
    <3>1. \A t \in Table : entries'[t] \in [0 .. capacity'[t] - 1
                                                -> 0 .. Len(copies')]
      BY <2>10 DEF TableRight, Right, IsArray
    <3>2. DOMAIN entries' = Table /\ count' \in [Table -> Nat]
      <4>1. count \in [Table -> Nat] /\ count[tab] + 1 \in Nat
        BY <2>2 DEF IInv, TypeOK
      <4> HIDE DEF e, c, s, k, i
      <4> QED BY <1>7, <2>2, <4>1
    <3>3. Len(copies') <= MaxCopies BY <1>7, <2>1, CapAssumption
    <3>4. answer' \in 0 .. Len(copies') BY <1>7, <2>1
    <3> QED BY <1>1, <2>1, <3>1, <3>2, <3>3, <3>4 DEF IInv, TypeOK
  <2>12. IInv' BY <1>1, <2>10, <2>11 DEF IInv
  <2>13. answer' = k /\ k \in Address
    BY <1>7, <2>1, CapAssumption DEF Address
  <2>14. \A t \in Table : Known(t)' = IF t = tab THEN Known(t) \cup {k}
                                      ELSE Known(t)
    <3>1. \A f : Keys(f, c) = {f[j] : j \in InUse(f, c)} BY DEF Keys, InUse
    <3>2. \A j \in InUse(e, c) : j \in 0 .. c - 1 BY DEF InUse
    <3>3. {Put(e, i, k)[j] : j \in InUse(Put(e, i, k), c)} =
            {e[j] : j \in InUse(e, c)} \cup {k}
      <4> HIDE DEF e, c, s, k, i
      <4> QED BY <2>8, <3>2
    <3>4. Keys(entries'[tab], c) = Keys(e, c) \cup {k}
      <4> HIDE DEF e, c, s, k, i
      <4> QED BY <2>3, <3>1, <3>3
    <3>5. capacity' = capacity BY <1>1
    <3> HIDE DEF k
    <3> QED BY <2>3, <3>4, <3>5 DEF Known
  <2> QED BY <1>1, <1>5, <1>7, <2>12, <2>13, <2>14
<1> QED BY <1>3, <1>6, <1>7

LEMMA DestroyKeeps ==
    ASSUME IInv, NEW t \in Table, Destroy(t)
    PROVE  IInv' /\ Known(t)' = {} /\ \A u \in Table \ {t} : Known(u)' = Known(u)
<1>1. /\ pc = "idle" /\ entries' = [entries EXCEPT ![t] = <<>>]
      /\ capacity' = [capacity EXCEPT ![t] = 0]
      /\ count' = [count EXCEPT ![t] = 0]
      /\ UNCHANGED <<copies, pc, call, next, answer>>
  BY DEF Destroy
<1>2. /\ DOMAIN entries = Table /\ DOMAIN capacity = Table
      /\ DOMAIN count = Table /\ copies \in Seq(Str)
  BY DEF IInv, TypeOK
<1>3. /\ entries'[t] = <<>> /\ capacity'[t] = 0 /\ count'[t] = 0
      /\ \A u \in Table \ {t} : /\ entries'[u] = entries[u]
                                /\ capacity'[u] = capacity[u]
                                /\ count'[u] = count[u]
  BY <1>1, <1>2
<1>4. <<>> \in [0 .. 0 - 1 -> {Null}]
  <2>1. 0 .. 0 - 1 = {} OBVIOUS
  <2> QED BY <2>1
<1>5. \A u \in Table : TableRight(u)'
  <2> SUFFICES ASSUME NEW u \in Table PROVE TableRight(u)'
    OBVIOUS
  <2>1. CASE u = t
    <3>1. Right(entries'[t], 0, copies) /\ Cardinality(InUse(entries'[t], 0)) = 0
      BY <1>2, <1>3, <1>4, EmptyRight
    <3>2. capacity'[u] = 0 /\ count'[u] = 0 /\ copies' = copies
      BY <1>1, <1>3, <2>1
    <3>3. /\ Right(entries'[u], capacity'[u], copies')
          /\ count'[u] = Cardinality(InUse(entries'[u], capacity'[u]))
      BY <2>1, <3>1, <3>2
    <3>4. count'[u] <= (capacity'[u] * 3) \div 4
      <4>1. (0 * 3) \div 4 = 0 OBVIOUS
      <4> QED BY <3>2, <4>1
    <3> QED BY <3>2, <3>3, <3>4 DEF TableRight
  <2>2. CASE u # t BY <1>1, <1>3, <2>2 DEF IInv, TableRight
  <2> QED BY <2>1, <2>2
<1>6. TypeOK'
  <2>1. \A u \in Table : entries'[u] \in [0 .. capacity'[u] - 1
                                              -> 0 .. Len(copies')]
    BY <1>5 DEF TableRight, Right, IsArray
  <2>2. /\ DOMAIN entries' = Table /\ capacity' \in [Table -> Nat]
        /\ count' \in [Table -> Nat]
    BY <1>1 DEF IInv, TypeOK
  <2> QED BY <1>1, <2>1, <2>2 DEF IInv, TypeOK
<1>7. Known(t)' = {}
  <2>1. 0 .. 0 - 1 = {} OBVIOUS
  <2> QED BY <1>3, <2>1 DEF Known, Keys
<1>8. \A u \in Table \ {t} : Known(u)' = Known(u) BY <1>3 DEF Known
<1> QED BY <1>1, <1>5, <1>6, <1>7, <1>8 DEF IInv

LEMMA StepKeeps == IInv /\ [Next]_internVars => IInv'
<1> SUFFICES ASSUME IInv, [Next]_internVars PROVE IInv'
  OBVIOUS
<1>1. ASSUME NEW t \in Table, NEW s \in Str, Begin(t, s) PROVE IInv'
  BY <1>1, BeginKeeps
<1>2. CASE Running
  BY <1>2, RehashKeeps, GrownKeeps, GrowFailsKeeps, FoundKeeps, AbsentKeeps
  DEF Running
<1>3. ASSUME NEW t \in Table, Destroy(t) PROVE IInv'
  BY <1>3, DestroyKeeps
<1>4. CASE UNCHANGED internVars
  <2>1. UNCHANGED <<entries, capacity, count, copies, pc, call, fresh, next,
                    answer>>
    BY <1>4 DEF internVars, tables
  <2>2. TypeOK' BY <2>1 DEF IInv, TypeOK
  <2>3. \A t \in Table : TableRight(t)' BY <2>1 DEF IInv, TableRight
  <2>4. pc' = "rehash" => FreshRight'
    <3>1. tab' = tab BY <2>1 DEF tab
    <3>2. NewCap(tab)' = NewCap(tab) BY <2>1, <3>1 DEF NewCap
    <3> DEFINE n == NewCap(tab)
               e == entries[tab]
               c == capacity[tab]
    <3>3. UNCHANGED <<n, e, c>> BY <2>1, <3>1, <3>2
    <3>4. FreshRight <=>
            /\ next \in 0 .. c
            /\ Right(fresh, n, copies)
            /\ {fresh[i] : i \in InUse(fresh, n)} =
                 {e[i] : i \in InUse(e, next)}
            /\ Cardinality(InUse(fresh, n)) = Cardinality(InUse(e, next))
      BY DEF FreshRight
    <3>5. FreshRight' <=>
            /\ next \in 0 .. c
            /\ Right(fresh, n, copies)
            /\ {fresh[i] : i \in InUse(fresh, n)} =
                 {e[i] : i \in InUse(e, next)}
            /\ Cardinality(InUse(fresh, n)) = Cardinality(InUse(e, next))
      BY <2>1, <3>3 DEF FreshRight
    <3>6. FreshRight' <=> FreshRight
      <4> HIDE DEF n, e, c
      <4> QED BY <3>4, <3>5
    <3> QED BY <2>1, <3>6 DEF IInv
  <2> QED BY <2>1, <2>2, <2>3, <2>4 DEF IInv, tab
<1> QED BY <1>1, <1>2, <1>3, <1>4 DEF Next

(* Tables stay right and below their load at every step. *)
THEOREM TablesRight == Spec => []IInv
<1> QED BY InitEstablishes, StepKeeps, PTL DEF Spec

(* Every key can be found and every probe, also one that moves keys to a    *)
(* larger array, comes to a free slot: cco_intern_string ends.              *)
THEOREM ProbesRight == Spec => [](Findable /\ ProbeEnds)
<1>1. IInv => Findable
  <2> SUFFICES ASSUME IInv, NEW t \in Table,
                      NEW i \in 0 .. capacity[t] - 1, entries[t][i] # Null
               PROVE  \E d \in 0 .. capacity[t] - 1 :
                        /\ Slot(copies[entries[t][i]], d, capacity[t]) = i
                        /\ \A j \in 0 .. d - 1 :
                             entries[t][Slot(copies[entries[t][i]], j,
                                             capacity[t])] # Null
    BY DEF Findable
  <2>1. i \in InUse(entries[t], capacity[t]) BY DEF InUse
  <2>2. Reached(entries[t], capacity[t], copies)
    BY DEF IInv, TableRight, Right
  <2> QED BY <2>1, <2>2 DEF Reached
<1>2. IInv => ProbeEnds
  <2> SUFFICES ASSUME IInv PROVE ProbeEnds
    OBVIOUS
  <2>1. CASE pc = "probe"
    <3>1. /\ capacity[tab] \in Nat /\ count[tab] \in Nat
          /\ count[tab] = Cardinality(InUse(entries[tab], capacity[tab]))
          /\ count[tab] < (capacity[tab] * 3) \div 4
      BY <2>1 DEF IInv, TypeOK, TableRight, tab
    <3>2. Cardinality(InUse(entries[tab], capacity[tab])) < capacity[tab]
      BY <3>1
    <3>3. \E i \in 0 .. capacity[tab] - 1 : entries[tab][i] = Null
      BY <3>1, <3>2, RoomLeft
    <3> QED BY <2>1, <3>3 DEF ProbeEnds
  <2>2. CASE pc = "rehash"
    <3>1. tab \in Table /\ FreshRight BY <2>2 DEF IInv, TypeOK, tab
    <3>2. /\ capacity[tab] \in Nat /\ next \in 0 .. capacity[tab]
          /\ NewCap(tab) \in Nat /\ NewCap(tab) > capacity[tab]
      <4>1. capacity[tab] \in Nat /\ next \in 0 .. capacity[tab]
        BY <3>1 DEF IInv, TableRight, FreshRight
      <4>2. NewCap(tab) = IF capacity[tab] = 0 THEN InitCap
                          ELSE 2 * capacity[tab]
        BY DEF NewCap
      <4> QED BY <4>1, <4>2, CapAssumption
    <3>3. Cardinality(InUse(entries[tab], next)) <= next
      <4>1. next \in Nat BY <3>2
      <4> QED BY <4>1, InUseFinite
    <3>4. /\ Cardinality(InUse(fresh, NewCap(tab))) \in Nat
          /\ Cardinality(InUse(fresh, NewCap(tab))) < NewCap(tab)
      <4>1. Cardinality(InUse(fresh, NewCap(tab))) \in Nat
        BY <3>2, InUseFinite
      <4> QED BY <3>1, <3>2, <3>3, <4>1 DEF FreshRight
    <3>5. \E i \in 0 .. NewCap(tab) - 1 : fresh[i] = Null
      BY <3>2, <3>4, RoomLeft
    <3>6. DOMAIN fresh = 0 .. NewCap(tab) - 1
      BY <3>1 DEF FreshRight, Right, IsArray
    <3> QED BY <2>2, <3>5, <3>6 DEF ProbeEnds
  <2> QED BY <2>1, <2>2 DEF ProbeEnds
<1> QED BY <1>1, <1>2, TablesRight, PTL

-----------------------------------------------------------------------------
(* Refinement *)

(* Names are those of the keys: what the keys do, names do. *)
LEMMA NamesOf ==
    /\ (Len(copies) \in Nat /\ copies' = copies
         /\ \A t \in Table : Known(t)' = Known(t)) => Names' = Names
    /\ DOMAIN Names = Table
    /\ \A t \in Table : \A s, a : <<s, a>> \in Names[t]
                                   <=> a \in Known(t) /\ copies[a] = s
  BY DEF Names

LEMMA KnownSpan ==
    ASSUME IInv, NEW t \in Table
    PROVE  Known(t) \subseteq 1 .. Len(copies)
<1>1. /\ entries[t] \in [0 .. capacity[t] - 1 -> 0 .. Len(copies)]
      /\ Len(copies) \in Nat
  BY DEF IInv, TypeOK
<1>2. SUFFICES ASSUME NEW a \in Known(t) PROVE a \in 1 .. Len(copies)
  OBVIOUS
<1>3. PICK i \in 0 .. capacity[t] - 1 : a = entries[t][i] /\ a # 0
  BY DEF Known, Keys, Null
<1>4. a \in 0 .. Len(copies) BY <1>1, <1>3
<1> QED BY <1>1, <1>3, <1>4

LEMMA InternStep == IInv /\ [Next]_internVars => [Abstract!Next]_<<Names, call, answer>>
<1> SUFFICES ASSUME IInv, [Next]_internVars
             PROVE  [Abstract!Next]_<<Names, call, answer>>
  OBVIOUS
<1> USE DEF Abstract!Next
<1>0. Len(copies) \in Nat /\ copies \in Seq(Str) BY DEF IInv, TypeOK
<1>1. ASSUME NEW t \in Table, NEW s \in Str, Begin(t, s)
      PROVE  Abstract!Ask
  <2>1. /\ pc = "idle" /\ call' = <<t, s>>
        /\ UNCHANGED <<entries, capacity, copies, answer>>
    BY <1>1 DEF Begin, tables
  <2>2. call = NoCall BY <2>1 DEF IInv, TypeOK
  <2>3. Names' = Names BY <1>0, <2>1, NamesOf DEF Known
  <2>4. <<t, s>> \in Table \X Str OBVIOUS
  <2> QED BY <2>1, <2>2, <2>3, <2>4 DEF Abstract!Ask
<1>2. CASE Rehash
  <2>1. UNCHANGED <<entries, capacity, copies, call, answer>>
    BY <1>2 DEF Rehash, tables
  <2>2. Names' = Names BY <1>0, <2>1, NamesOf DEF Known
  <2> QED BY <2>1, <2>2
<1>3. CASE Grown
  <2>1. UNCHANGED <<copies, call, answer>> BY <1>3 DEF Grown
  <2>2. Names' = Names BY <1>0, <1>3, <2>1, NamesOf, GrownKeeps
  <2> QED BY <2>1, <2>2
<1>4. ASSUME pc # "idle"
      PROVE  /\ call # NoCall /\ tab = call[1] /\ str = call[2]
             /\ tab \in Table /\ str \in Str
  <2>1. call \in Table \X Str BY <1>4 DEF IInv, TypeOK
  <2>2. call # NoCall
    <3>1. PICK t \in Table, s \in Str : call = <<t, s>> BY <2>1
    <3> QED BY <3>1 DEF NoCall
  <2> QED BY <2>1, <2>2 DEF tab, str
<1>5. CASE GrowFails
  <2>1. /\ pc # "idle" /\ call' = NoCall /\ answer' = Null
        /\ UNCHANGED <<entries, capacity, copies>>
    BY <1>5 DEF GrowFails, tables
  <2>2. Names' = Names BY <1>0, <2>1, NamesOf DEF Known
  <2> QED BY <1>4, <2>1, <2>2 DEF Abstract!Tell, Abstract!Failed
<1>6. CASE Found
  <2>1. /\ pc # "idle" /\ call' = NoCall
        /\ UNCHANGED <<entries, capacity, copies>>
    BY <1>6 DEF Found, tables
  <2>2. Names' = Names BY <1>0, <2>1, NamesOf DEF Known
  <2>3. <<str, answer'>> \in Names[tab]
    BY <1>4, <1>6, <2>1, NamesOf, FoundKeeps
  <2> QED BY <1>4, <2>1, <2>2, <2>3 DEF Abstract!Tell, Abstract!Known
<1>7. CASE Absent
  <2>1. pc # "idle" /\ call' = NoCall BY <1>7 DEF Absent
  <2>2. \A a \in Known(tab) : copies[a] # str BY <1>7, AbsentKeeps
  <2>3. CASE answer' = Null /\ UNCHANGED tables
    <3>1. Names' = Names BY <1>0, <2>3, NamesOf DEF tables, Known
    <3> QED BY <1>4, <2>1, <2>3, <3>1 DEF Abstract!Tell, Abstract!Failed
  <2>4. CASE /\ answer' = Len(copies) + 1 /\ answer' \in Address
             /\ copies' = Append(copies, str)
             /\ \A t \in Table : Known(t)' = IF t = tab
                                              THEN Known(t) \cup {answer'}
                                              ELSE Known(t)
    <3>1. \A a \in Address : <<str, a>> \notin Names[tab]
      BY <1>4, <2>1, <2>2, NamesOf
    <3>2. answer' \notin Abstract!Used
      <4> SUFFICES ASSUME answer' \in Abstract!Used PROVE FALSE
        OBVIOUS
      <4>1. PICK t \in Table : \E p \in Names[t] : answer' = p[2]
        BY DEF Abstract!Used
      <4>2. PICK a \in Known(t) : answer' = <<copies[a], a>>[2]
        BY <4>1 DEF Names
      <4>3. a \in 1 .. Len(copies) BY KnownSpan
      <4> QED BY <1>0, <2>4, <4>1, <4>2, <4>3
    <3>3. Names' = [Names EXCEPT ![tab] = @ \cup {<<str, answer'>>}]
      <4>1. /\ copies'[answer'] = str
            /\ \A a \in 1 .. Len(copies) : copies'[a] = copies[a]
        BY <1>0, <1>4, <2>1, <2>4
      <4>2. \A t \in Table :
              {<<copies'[a], a>> : a \in Known(t)} =
                {<<copies[a], a>> : a \in Known(t)}
        <5> SUFFICES ASSUME NEW t \in Table
                     PROVE  {<<copies'[a], a>> : a \in Known(t)} =
                              {<<copies[a], a>> : a \in Known(t)}
          OBVIOUS
        <5>1. \A a \in Known(t) : copies'[a] = copies[a]
          BY <4>1, KnownSpan
        <5> QED BY <5>1
      <4>3. \A t \in Table :
              {<<copies'[a], a>> : a \in Known(t)'} =
                IF t = tab
                  THEN {<<copies[a], a>> : a \in Known(t)}
                         \cup {<<str, answer'>>}
                  ELSE {<<copies[a], a>> : a \in Known(t)}
        <5> SUFFICES ASSUME NEW t \in Table
                     PROVE  {<<copies'[a], a>> : a \in Known(t)'} =
                              IF t = tab
                                THEN {<<copies[a], a>> : a \in Known(t)}
                                       \cup {<<str, answer'>>}
                                ELSE {<<copies[a], a>> : a \in Known(t)}
          OBVIOUS
        <5>1. CASE t = tab
          <6>1. Known(t)' = Known(t) \cup {answer'} BY <2>4, <5>1
          <6>2. {<<copies'[a], a>> : a \in Known(t) \cup {answer'}} =
                  {<<copies'[a], a>> : a \in Known(t)}
                    \cup {<<copies'[answer'], answer'>>}
            OBVIOUS
          <6> QED BY <4>1, <4>2, <5>1, <6>1, <6>2
        <5>2. CASE t # tab BY <2>4, <4>2, <5>2
        <5> QED BY <5>1, <5>2
      <4> QED BY <1>4, <2>1, <4>3 DEF Names
    <3> QED BY <1>4, <2>1, <2>4, <3>1, <3>2, <3>3
         DEF Abstract!Tell, Abstract!New
  <2> QED BY <1>7, <2>3, <2>4, AbsentKeeps
<1>8. ASSUME NEW t \in Table, Destroy(t) PROVE Abstract!Forget
  <2>1. pc = "idle" /\ UNCHANGED <<copies, call, answer>> BY <1>8 DEF Destroy
  <2>2. call = NoCall BY <2>1 DEF IInv, TypeOK
  <2>3. Names' = [Names EXCEPT ![t] = {}]
    <3>1. Known(t)' = {} /\ \A u \in Table \ {t} : Known(u)' = Known(u)
      BY <1>8, DestroyKeeps
    <3> QED BY <2>1, <3>1 DEF Names
  <2> QED BY <2>1, <2>2, <2>3 DEF Abstract!Forget
<1>9. CASE UNCHANGED internVars
  <2>1. UNCHANGED <<entries, capacity, copies, call, answer>>
    BY <1>9 DEF internVars, tables
  <2>2. Names' = Names BY <1>0, <2>1, NamesOf DEF Known
  <2> QED BY <2>1, <2>2
<1> QED BY <1>1, <1>2, <1>3, <1>5, <1>6, <1>7, <1>8, <1>9 DEF Next, Running

(* The tables do what hash.h says: one pointer per string, none shared.     *)
THEOREM TablesIntern == Spec => Interns
<1>1. Init => Abstract!Init
  <2> SUFFICES ASSUME Init PROVE Abstract!Init
    OBVIOUS
  <2>1. \A t \in Table : Known(t) = {}
    <3>1. 0 .. 0 - 1 = {} OBVIOUS
    <3> QED BY <3>1 DEF Init, Known, Keys
  <2> QED BY <2>1 DEF Init, Abstract!Init, Names
<1> QED BY <1>1, InternStep, TablesRight, PTL DEF Spec, Interns, Abstract!Spec

-----------------------------------------------------------------------------
(* The symbol table on top of the intern tables *)

LEMMA RegistrationSteps == [SymtabNext]_symtabVars => [Next]_internVars
<1>1. "aliases" \in Table /\ "enums" \in Table /\ "templates" \in Table
  BY TableAssumption
<1> QED BY <1>1 DEF SymtabNext, AddTypedef, AddEnum, AddTemplate, Registers,
                    SymtabDestroy, Next, Running, symtabVars

(* Registering is only a use of the tables: they stay right, and do what    *)
(* hash.h says of them.                                                     *)
THEOREM RegistrationInterns ==
    SymtabSpec => Spec /\ Interns /\ [](Findable /\ ProbeEnds)
<1>1. SymtabInit => Init BY DEF SymtabInit
<1>2. SymtabSpec => Spec BY <1>1, RegistrationSteps, PTL DEF SymtabSpec, Spec
<1> QED BY <1>2, TablesIntern, ProbesRight, PTL

(* In the symbol table too, a name that is in a table is found by its probe.*)
THEOREM NamesAreFound == SymtabSpec => []Findable
BY RegistrationInterns, PTL

(* What is kept of the registrations is what is in the tables, also in the  *)
(* middle of a call, which is for the name being registered.                *)
SymInv == /\ IInv
          /\ kept \in [Table -> SUBSET Str]
          /\ \A t \in Table : kept[t] = {copies[a] : a \in Known(t)}
          /\ pc # "idle" => want = call

LEMMA SymStep == SymInv /\ [SymtabNext]_symtabVars => SymInv'
<1> SUFFICES ASSUME SymInv, [SymtabNext]_symtabVars PROVE SymInv'
  OBVIOUS
<1>1. IInv /\ IInv'
  BY StepKeeps, RegistrationSteps DEF SymInv
<1>2. \A t \in Table : \A a \in Known(t) : a \in 1 .. Len(copies)
  BY <1>1, KnownSpan
<1>3. ASSUME NEW t \in Table, NEW s \in Str, Begin(t, s), want' = <<t, s>>,
             UNCHANGED kept
      PROVE  SymInv'
  <2>1. UNCHANGED <<entries, capacity, copies>> /\ call' = <<t, s>>
    BY <1>3 DEF Begin, tables
  <2>2. \A u \in Table : Known(u)' = Known(u) BY <2>1 DEF Known
  <2> QED BY <1>1, <1>3, <2>1, <2>2 DEF SymInv
<1>4. ASSUME UNCHANGED copies, \A t \in Table : Known(t)' = Known(t)
      PROVE  \A t \in Table : {copies'[a] : a \in Known(t)'} =
                                {copies[a] : a \in Known(t)}
  BY <1>4
<1>5. CASE Rehash /\ Registers
  <2>1. /\ UNCHANGED <<entries, capacity, copies, call, pc, kept, want>>
    BY <1>5 DEF Rehash, Registers, tables
  <2>2. \A u \in Table : Known(u)' = Known(u) BY <2>1 DEF Known
  <2> QED BY <1>1, <1>4, <2>1, <2>2 DEF SymInv
<1>6. CASE Grown /\ Registers
  <2>1. /\ UNCHANGED <<copies, call, kept, want>> /\ pc # "idle"
    BY <1>6 DEF Grown, Registers
  <2>2. \A u \in Table : Known(u)' = Known(u) BY <1>1, <1>6, GrownKeeps
  <2> QED BY <1>1, <1>4, <2>1, <2>2 DEF SymInv
<1>7. CASE GrowFails /\ Registers
  <2>1. UNCHANGED <<entries, capacity, copies, kept>> /\ pc' = "idle"
    BY <1>7 DEF GrowFails, Registers, tables
  <2>2. \A u \in Table : Known(u)' = Known(u) BY <2>1 DEF Known
  <2> QED BY <1>1, <1>4, <2>1, <2>2 DEF SymInv
<1>8. ASSUME pc # "idle"
      PROVE  /\ want[1] = tab /\ want[2] = str
             /\ tab \in Table /\ str \in Str
  BY <1>1, <1>8 DEF SymInv, IInv, TypeOK, tab, str
<1>9. CASE Found /\ Registers
  <2>1. /\ UNCHANGED <<entries, capacity, copies>>
        /\ pc # "idle" /\ pc' = "idle"
    BY <1>9 DEF Found, tables
  <2>2. \A u \in Table : Known(u)' = Known(u) BY <2>1 DEF Known
  <2>3. answer' \in Known(tab) /\ copies[answer'] = str
    BY <1>1, <1>9, FoundKeeps
  <2>4. answer' # Null BY <2>3 DEF Known, Keys
  <2>5. kept' = [kept EXCEPT ![tab] = @ \cup {str}]
    BY <1>8, <1>9, <2>1, <2>4 DEF Registers
  <2>6. str \in kept[tab] BY <1>8, <2>1, <2>3 DEF SymInv
  <2>7. /\ kept' \in [Table -> SUBSET Str]
        /\ \A t \in Table : kept'[t] = kept[t]
    BY <1>8, <2>1, <2>5, <2>6 DEF SymInv
  <2> QED BY <1>1, <1>4, <2>1, <2>2, <2>7 DEF SymInv
<1>10. CASE Absent /\ Registers
  <2>1. pc # "idle" /\ pc' = "idle" BY <1>10 DEF Absent
  <2>2. CASE answer' = Null /\ UNCHANGED tables
    <3>1. UNCHANGED <<entries, capacity, copies, kept>>
      BY <1>10, <2>1, <2>2 DEF Registers, tables
    <3>2. \A u \in Table : Known(u)' = Known(u) BY <3>1 DEF Known
    <3> QED BY <1>1, <1>4, <2>1, <3>1, <3>2 DEF SymInv
  <2>3. CASE /\ answer' = Len(copies) + 1
             /\ copies' = Append(copies, str)
             /\ \A t \in Table : Known(t)' = IF t = tab
                                              THEN Known(t) \cup {answer'}
                                              ELSE Known(t)
    <3>1. copies \in Seq(Str) /\ Len(copies) \in Nat
      BY <1>1 DEF IInv, TypeOK
    <3>2. /\ copies'[answer'] = str /\ answer' # Null
          /\ \A a \in 1 .. Len(copies) : copies'[a] = copies[a]
      BY <1>8, <2>1, <2>3, <3>1 DEF Null
    <3>3. kept' = [kept EXCEPT ![tab] = @ \cup {str}]
      BY <1>8, <1>10, <2>1, <3>2 DEF Registers
    <3>4. kept' \in [Table -> SUBSET Str] /\ \A t \in Table :
            kept'[t] = IF t = tab THEN kept[t] \cup {str} ELSE kept[t]
      BY <1>8, <2>1, <3>3 DEF SymInv
    <3>5. \A t \in Table : {copies'[a] : a \in Known(t)} = kept[t]
      <4> SUFFICES ASSUME NEW t \in Table
                   PROVE  {copies'[a] : a \in Known(t)} = kept[t]
        OBVIOUS
      <4>1. \A a \in Known(t) : copies'[a] = copies[a] BY <1>2, <3>2
      <4> QED BY <4>1 DEF SymInv
    <3>6. \A t \in Table : kept'[t] = {copies'[a] : a \in Known(t)'}
      <4> SUFFICES ASSUME NEW t \in Table
                   PROVE  kept'[t] = {copies'[a] : a \in Known(t)'}
        OBVIOUS
      <4>1. CASE t = tab
        <5>1. Known(t)' = Known(t) \cup {answer'} BY <2>3, <4>1
        <5>2. {copies'[a] : a \in Known(t) \cup {answer'}} =
                {copies'[a] : a \in Known(t)} \cup {copies'[answer']}
          OBVIOUS
        <5> QED BY <3>2, <3>4, <3>5, <4>1, <5>1, <5>2
      <4>2. CASE t # tab
        <5>1. Known(t)' = Known(t) BY <2>3, <4>2
        <5> QED BY <3>4, <3>5, <4>2, <5>1
      <4> QED BY <4>1, <4>2
    <3> QED BY <1>1, <2>1, <3>4, <3>6 DEF SymInv
  <2> QED BY <1>1, <1>10, <2>2, <2>3, AbsentKeeps
<1>11. ASSUME NEW t \in Table, SymtabDestroy(t) PROVE SymInv'
  <2>1. /\ kept' = [kept EXCEPT ![t] = {}] /\ UNCHANGED copies
        /\ pc = "idle" /\ pc' = "idle" /\ Destroy(t)
    BY <1>11 DEF SymtabDestroy, Destroy
  <2>2. Known(t)' = {} /\ \A u \in Table \ {t} : Known(u)' = Known(u)
    BY <1>1, <2>1, DestroyKeeps
  <2>3. \A u \in Table : kept'[u] = {copies'[a] : a \in Known(u)'}
    <3> SUFFICES ASSUME NEW u \in Table
                 PROVE  kept'[u] = {copies'[a] : a \in Known(u)'}
      OBVIOUS
    <3>1. CASE u = t BY <2>1, <2>2, <3>1 DEF SymInv
    <3>2. CASE u # t BY <2>1, <2>2, <3>2 DEF SymInv
    <3> QED BY <3>1, <3>2
  <2> QED BY <1>1, <2>1, <2>3 DEF SymInv
<1>12. CASE UNCHANGED symtabVars
  <2>1. UNCHANGED <<entries, capacity, copies, call, pc, kept, want>>
    BY <1>12 DEF symtabVars, internVars, tables
  <2>2. \A u \in Table : Known(u)' = Known(u) BY <2>1 DEF Known
  <2> QED BY <1>1, <1>4, <2>1, <2>2 DEF SymInv
<1>13. "aliases" \in Table /\ "enums" \in Table /\ "templates" \in Table
  BY TableAssumption
<1>14. CASE Registers
  BY <1>5, <1>6, <1>7, <1>9, <1>10, <1>14 DEF Registers, Running
<1> QED BY <1>3, <1>11, <1>12, <1>13, <1>14
     DEF SymtabNext, AddTypedef, AddEnum, AddTemplate

(* A table has exactly the names registered in it for which there was       *)
(* memory: the registering functions lose none and mix none up.             *)
THEOREM NamesAreKept == SymtabSpec => [](SymtabTypeOK /\ NamesKept)
<1>1. SymtabInit => SymInv
  <2> SUFFICES ASSUME SymtabInit PROVE SymInv
    OBVIOUS
  <2>1. \A t \in Table : Known(t) = {}
    <3>1. 0 .. 0 - 1 = {} OBVIOUS
    <3> QED BY <3>1 DEF SymtabInit, Init, Known, Keys
  <2>2. pc = "idle" BY DEF SymtabInit, Init
  <2> QED BY <2>1, <2>2, InitEstablishes DEF SymtabInit, SymInv
<1>2. SymInv => SymtabTypeOK /\ NamesKept
  <2> SUFFICES ASSUME SymInv PROVE SymtabTypeOK /\ NamesKept
    OBVIOUS
  <2>1. \A t \in Table : kept[t] \subseteq Str
    <3>1. \A t \in Table : Known(t) \subseteq 1 .. Len(copies)
      BY KnownSpan DEF SymInv
    <3>2. copies \in Seq(Str) BY DEF SymInv, IInv, TypeOK
    <3>3. \A a \in 1 .. Len(copies) : copies[a] \in Str BY <3>2
    <3> QED BY <3>1, <3>3 DEF SymInv
  <2> QED BY <2>1 DEF SymInv, IInv, TypeOK, SymtabTypeOK, NamesKept
<1> QED BY <1>1, <1>2, SymStep, PTL DEF SymtabSpec

(* The tables, the copies they own and the names kept have their types: no  *)
(* growth, failure or destruction leaves a slot with anything else.         *)
THEOREM RegistrationTyped == SymtabSpec => []SymtabTypeOK
BY NamesAreKept, PTL
=============================================================================
