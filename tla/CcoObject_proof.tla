--------------------------- MODULE CcoObject_proof ---------------------------
(***************************************************************************)
(* The reference counts of CcoObject are exact and nothing dangles, for    *)
(* any number of objects, handles and keys and containers of any size,     *)
(* with or without cycles.                                                 *)
(*                                                                         *)
(* RefCountExact is not inductive by itself: a release that reads a slot   *)
(* must know the slot holds an object, that the object is not the one a    *)
(* frame below is destroying, and that the map whose entry is being        *)
(* replaced is not destroyed meanwhile.  IInv adds these facts.            *)
(***************************************************************************)
EXTENDS CcoObject, FiniteSetTheorems, SequenceTheorems, TLAPS

(* An object is live exactly when its count is positive. *)
LiveIsCounted == \A o \in Obj : status[o] = "live" <=> rc[o] > 0

(* The frames of the recursive release are distinct dying objects. *)
StackDying ==
    /\ \A i \in 1 .. Len(stack) : status[stack[i]] = "dying"
    /\ \A i, j \in 1 .. Len(stack) : stack[i] = stack[j] => i = j

(* Only a release moves its object's cursor, and freed memory has no items.*)
CursorsRight ==
    \A c \in Obj : /\ status[c] # "dying" => cursor[c] = 1
                   /\ status[c] = "free" => count[c] = 0
                   /\ cursor[c] <= count[c] + 1

(* The caller of cco_map_insert keeps its references while the call runs. *)
PendHeld ==
    pend.map # NoObj =>
        /\ pend.val \in Obj
        /\ pend.idx \in 1 .. count[pend.map]
        /\ \E h \in Handle : handle[h] = pend.map
        /\ \E g \in Handle : handle[g] = pend.val

IInv == /\ TypeOK
        /\ RefCountExact
        /\ LiveIsCounted
        /\ StackDying
        /\ CursorsRight
        /\ PendHeld

-----------------------------------------------------------------------------
(* The sets of references are finite. *)
LEMMA RefsFinite ==
    ASSUME NEW o \in Obj
    PROVE  /\ IsFiniteSet(HandleRefs(o)) /\ Cardinality(HandleRefs(o)) \in Nat
           /\ IsFiniteSet(ItemRefs(o)) /\ Cardinality(ItemRefs(o)) \in Nat
<1>1. HandleRefs(o) \in SUBSET Handle BY DEF HandleRefs
<1>2. ItemRefs(o) \in SUBSET (Obj \X Index) BY DEF ItemRefs
<1>3. MaxItems \in Int /\ 1 \in Int BY BoundAssumption
<1>4. IsFiniteSet(Index) BY <1>3, FS_Interval DEF Index
<1>5. IsFiniteSet(Obj \X Index) BY <1>4, ObjAssumption, FS_Product
<1>6. IsFiniteSet(HandleRefs(o)) BY <1>1, HandleAssumption, FS_Subset
<1>7. IsFiniteSet(ItemRefs(o)) BY <1>2, <1>5, FS_Subset
<1> QED BY <1>6, <1>7, FS_CardinalityType

(* An object that is referred to has a positive count, so it is live. *)
LEMMA ReferredIsLive ==
    ASSUME IInv, NEW o \in Obj, HandleRefs(o) # {} \/ ItemRefs(o) # {}
    PROVE  rc[o] > 0 /\ status[o] = "live"
<1>1. Cardinality(HandleRefs(o)) # 0 \/ Cardinality(ItemRefs(o)) # 0
  BY RefsFinite, FS_EmptySet
<1>2. rc[o] = Cardinality(HandleRefs(o)) + Cardinality(ItemRefs(o))
  BY DEF IInv, RefCountExact
<1>3. rc[o] > 0 BY <1>1, <1>2, RefsFinite
<1> QED BY <1>3 DEF IInv, LiveIsCounted

(* What a handle points to is live. *)
LEMMA HandleIsLive ==
    ASSUME IInv, NEW h \in Handle, handle[h] # NoObj
    PROVE  handle[h] \in Obj /\ rc[handle[h]] > 0 /\ status[handle[h]] = "live"
<1>1. handle[h] \in Obj BY DEF IInv, TypeOK
<1>2. h \in HandleRefs(handle[h]) BY DEF HandleRefs
<1> QED BY <1>1, <1>2, ReferredIsLive

(* What a held slot points to is live. *)
LEMMA SlotIsLive ==
    ASSUME IInv, NEW c \in Obj, NEW i \in Index, Held(c, i)
    PROVE  value[c][i] \in Obj /\ rc[value[c][i]] > 0
           /\ status[value[c][i]] = "live"
<1>1. value[c][i] \in Obj BY DEF IInv, TypeOK, Held
<1>2. <<c, i>> \in ItemRefs(value[c][i]) BY DEF ItemRefs
<1> QED BY <1>1, <1>2, ReferredIsLive

(* The map and the value of a replacement in progress are live. *)
LEMMA PendIsLive ==
    ASSUME IInv, pend.map # NoObj
    PROVE  /\ pend.map \in Obj /\ status[pend.map] = "live"
           /\ pend.val \in Obj /\ status[pend.val] = "live"
<1>1. pend.map \in Obj /\ pend.val \in Obj BY DEF IInv, TypeOK, PendHeld
<1>2. PICK h \in Handle : handle[h] = pend.map BY DEF IInv, PendHeld
<1>3. PICK g \in Handle : handle[g] = pend.val BY DEF IInv, PendHeld
<1>4. pend.val # NoObj BY <1>1, ObjAssumption
<1> QED BY <1>1, <1>2, <1>3, <1>4, HandleIsLive

(* The invariant says all that the heap promises. *)
LEMMA IInvImplies == IInv => RefCountExact /\ NoDangling /\ ReplaceSafe
<1> SUFFICES ASSUME IInv PROVE NoDangling /\ ReplaceSafe
  BY DEF IInv
<1>1. \A h \in Handle : handle[h] # NoObj => status[handle[h]] = "live"
  BY HandleIsLive
<1>2. \A c \in Obj, i \in Index :
        Held(c, i) => status[value[c][i]] = "live"
  BY SlotIsLive
<1>3. NoDangling BY <1>1, <1>2 DEF NoDangling, IInv, StackDying
<1>4. ReplaceSafe BY PendIsLive DEF ReplaceSafe
<1> QED BY <1>3, <1>4

-----------------------------------------------------------------------------
(* What dropping a reference to a counted object does to counts, frames    *)
(* and states: no call of cco_object_release finds a count of zero.        *)
LEMMA DropKeeps ==
    ASSUME IInv, NEW o \in Obj, rc[o] > 0, Drop(o)
    PROVE  /\ rc' = [rc EXCEPT ![o] = rc[o] - 1]
           /\ rc' \in [Obj -> Nat]
           /\ status' \in [Obj -> {"free", "live", "dying"}]
           /\ stack' \in Seq(Obj)
           /\ \A c \in Obj : status'[c] = "free" <=> status[c] = "free"
           /\ \A c \in Obj : status[c] = "dying" => status'[c] = "dying"
           /\ LiveIsCounted'
           /\ StackDying'
<1> USE DEF IInv, TypeOK
<1>1. rc[o] \in Nat /\ o # NoObj BY ObjAssumption
<1>2. rc' = [rc EXCEPT ![o] = rc[o] - 1] /\ rc' \in [Obj -> Nat]
  <2>1. rc' = [rc EXCEPT ![o] = rc[o] - 1]
    <3> HIDE DEF IInv, TypeOK
    <3> QED BY <1>1 DEF Drop
  <2>2. rc[o] - 1 \in Nat BY <1>1
  <2> QED BY <2>1, <2>2
<1>3. status[o] = "live" BY DEF LiveIsCounted
<1>4. \A i \in 1 .. Len(stack) : stack[i] # o BY <1>3 DEF StackDying
<1>5. CASE rc[o] <= 1
  <2>1. status' = [status EXCEPT ![o] = "dying"] /\ stack' = Append(stack, o)
    BY <1>1, <1>5 DEF Drop
  <2>2. stack' \in Seq(Obj) /\ Len(stack') = Len(stack) + 1
        /\ stack'[Len(stack) + 1] = o
        /\ \A i \in 1 .. Len(stack) : stack'[i] = stack[i]
    BY <2>1
  <2>3. LiveIsCounted'
    BY <1>1, <1>2, <1>5, <2>1 DEF LiveIsCounted
  <2>4. Len(stack) \in Nat /\ \A i \in 1 .. Len(stack) : stack[i] \in Obj
    OBVIOUS
  <2>5. \A i \in 1 .. Len(stack') : i \in 1 .. Len(stack) \/ i = Len(stack) + 1
    BY <2>2, <2>4
  <2>6. \A i \in 1 .. Len(stack') : status'[stack'[i]] = "dying"
    <3> SUFFICES ASSUME NEW i \in 1 .. Len(stack')
                 PROVE  status'[stack'[i]] = "dying"
      OBVIOUS
    <3>1. CASE i \in 1 .. Len(stack)
      BY <1>4, <2>1, <2>2, <2>4, <3>1 DEF StackDying
    <3>2. CASE i = Len(stack) + 1
      BY <2>1, <2>2, <3>2
    <3> QED BY <2>5, <3>1, <3>2
  <2>7. \A i, j \in 1 .. Len(stack') : stack'[i] = stack'[j] => i = j
    <3> SUFFICES ASSUME NEW i \in 1 .. Len(stack'), NEW j \in 1 .. Len(stack'),
                        stack'[i] = stack'[j]
                 PROVE  i = j
      OBVIOUS
    <3>1. CASE i \in 1 .. Len(stack) /\ j \in 1 .. Len(stack)
      BY <2>2, <3>1 DEF StackDying
    <3>2. CASE i = Len(stack) + 1 \/ j = Len(stack) + 1
      BY <1>4, <2>2, <2>5, <3>2
    <3> QED BY <2>5, <3>1, <3>2
  <2>8. StackDying' BY <2>6, <2>7 DEF StackDying
  <2> QED BY <1>2, <1>3, <2>1, <2>2, <2>3, <2>8
<1>6. CASE ~(rc[o] <= 1)
  <2>1. UNCHANGED <<status, stack>> BY <1>1, <1>6 DEF Drop
  <2>2. rc'[o] > 0 /\ \A c \in Obj : c # o => rc'[c] = rc[c]
    BY <1>1, <1>2, <1>6
  <2>3. LiveIsCounted' BY <2>1, <2>2 DEF LiveIsCounted
  <2>4. StackDying' BY <2>1 DEF StackDying
  <2> QED BY <1>2, <2>1, <2>3, <2>4
<1> QED BY <1>5, <1>6

(* The same for the pointer in a slot, which may be NULL. *)
LEMMA DropSlotKeeps ==
    ASSUME IInv, NEW o \in Obj \cup {NoObj}, o # NoObj => rc[o] > 0, Drop(o)
    PROVE  /\ rc' = IF o = NoObj THEN rc ELSE [rc EXCEPT ![o] = rc[o] - 1]
           /\ rc' \in [Obj -> Nat]
           /\ status' \in [Obj -> {"free", "live", "dying"}]
           /\ stack' \in Seq(Obj)
           /\ \A c \in Obj : status'[c] = "free" <=> status[c] = "free"
           /\ \A c \in Obj : status[c] = "dying" => status'[c] = "dying"
           /\ LiveIsCounted'
           /\ StackDying'
<1>1. CASE o = NoObj
  <2>1. UNCHANGED <<rc, status, stack>> BY <1>1 DEF Drop
  <2>2. LiveIsCounted' /\ StackDying'
    BY <2>1 DEF IInv, LiveIsCounted, StackDying
  <2> QED BY <1>1, <2>1, <2>2 DEF IInv, TypeOK
<1>2. CASE o \in Obj
  <2>1. o # NoObj BY <1>2, ObjAssumption
  <2> QED BY <1>2, <2>1, DropKeeps
<1> QED BY <1>1, <1>2

(* Adding or removing one reference and counting it keeps a count exact.   *)
LEMMA CountsAgree ==
    ASSUME IInv, NEW o \in Obj
    PROVE  LET H == HandleRefs(o)
               I == ItemRefs(o)
           IN  /\ rc[o] = Cardinality(H) + Cardinality(I)
               /\ \A x : x \notin H =>
                    rc[o] + 1 = Cardinality(H \cup {x}) + Cardinality(I)
               /\ \A x : x \notin I =>
                    rc[o] + 1 = Cardinality(H) + Cardinality(I \cup {x})
               /\ \A x : x \in H =>
                    rc[o] - 1 = Cardinality(H \ {x}) + Cardinality(I)
               /\ \A x : x \in I =>
                    rc[o] - 1 = Cardinality(H) + Cardinality(I \ {x})
<1>1. /\ IsFiniteSet(HandleRefs(o)) /\ Cardinality(HandleRefs(o)) \in Nat
      /\ IsFiniteSet(ItemRefs(o)) /\ Cardinality(ItemRefs(o)) \in Nat
  BY RefsFinite
<1>2. rc[o] = Cardinality(HandleRefs(o)) + Cardinality(ItemRefs(o))
  BY DEF IInv, RefCountExact
<1>3. \A S, x : IsFiniteSet(S) =>
        /\ x \notin S => Cardinality(S \cup {x}) = Cardinality(S) + 1
        /\ x \in S => Cardinality(S \ {x}) = Cardinality(S) - 1
  BY FS_AddElement, FS_RemoveElement
<1> QED BY <1>1, <1>2, <1>3

-----------------------------------------------------------------------------
(* The initial heap is empty. *)
LEMMA InitEstablishes == Init => IInv
<1> SUFFICES ASSUME Init PROVE IInv
  OBVIOUS
<1>1. TypeOK
  BY BoundAssumption DEF Init, TypeOK, Kind, NoPend, Index
<1>2. \A o \in Obj : HandleRefs(o) = {} /\ ItemRefs(o) = {} /\ rc[o] = 0
  BY ObjAssumption DEF Init, HandleRefs, ItemRefs, Held
<1>3. RefCountExact BY <1>2, FS_EmptySet DEF RefCountExact
<1>4. LiveIsCounted /\ StackDying BY DEF Init, LiveIsCounted, StackDying
<1>5. CursorsRight BY DEF Init, CursorsRight
<1>6. PendHeld BY DEF Init, PendHeld, NoPend
<1> QED BY <1>1, <1>3, <1>4, <1>5, <1>6 DEF IInv

(* cco_object_create: a fresh object has one reference, the handle.         *)
LEMMA CreateKeeps ==
    ASSUME IInv, NEW h \in Handle, NEW t \in Kind, Create(h, t)
    PROVE  IInv'
<1> USE DEF IInv
<1>1. PICK n \in Obj :
        /\ status[n] = "free"
        /\ status' = [status EXCEPT ![n] = "live"]
        /\ kind' = [kind EXCEPT ![n] = t]
        /\ rc' = [rc EXCEPT ![n] = 1]
        /\ handle' = [handle EXCEPT ![h] = n]
  BY DEF Create
<1>2. /\ UNCHANGED <<count, capacity, value, key, torn, cursor, stack, pend>>
      /\ stack = <<>> /\ pend.map = NoObj /\ handle[h] = NoObj
  BY DEF Create, Idle
<1>3. rc[n] = 0 /\ count[n] = 0
  BY <1>1 DEF LiveIsCounted, CursorsRight, TypeOK
<1>4. TypeOK' BY <1>1, <1>2 DEF TypeOK
<1>5. \A c \in Obj, i \in Index : Held(c, i)' <=> Held(c, i)
  BY <1>1, <1>2, <1>3 DEF Held, TypeOK, Index
<1>6. RefCountExact'
  <2> SUFFICES ASSUME NEW o \in Obj
               PROVE  rc'[o] = Cardinality(HandleRefs(o)')
                               + Cardinality(ItemRefs(o)')
    BY DEF RefCountExact
  <2>1. ItemRefs(o)' = ItemRefs(o) BY <1>2, <1>5 DEF ItemRefs
  <2>2. CASE o = n
    <3>1. h \notin HandleRefs(o) /\ HandleRefs(o)' = HandleRefs(o) \cup {h}
      BY <1>1, <1>2, <2>2, ObjAssumption DEF HandleRefs, TypeOK
    <3>2. rc'[o] = rc[o] + 1 BY <1>1, <1>3, <2>2 DEF TypeOK
    <3> QED BY <2>1, <3>1, <3>2, CountsAgree
  <2>3. CASE o # n
    <3>1. HandleRefs(o)' = HandleRefs(o)
      BY <1>1, <1>2, <2>3, ObjAssumption DEF HandleRefs, TypeOK
    <3>2. rc'[o] = rc[o] BY <1>1, <2>3 DEF TypeOK
    <3> QED BY <2>1, <3>1, <3>2, CountsAgree
  <2> QED BY <2>2, <2>3
<1>7. LiveIsCounted' BY <1>1, <1>4 DEF LiveIsCounted, TypeOK
<1>8. StackDying' BY <1>2 DEF StackDying
<1>9. CursorsRight' BY <1>1, <1>2 DEF CursorsRight, TypeOK
<1>10. PendHeld' BY <1>2 DEF PendHeld
<1> QED BY <1>4, <1>6, <1>7, <1>8, <1>9, <1>10

(* cco_object_retain: one more handle, one more in the count.               *)
LEMMA KeepKeeps ==
    ASSUME IInv, NEW n \in Obj, status[n] = "live", NEW h \in Handle,
           pend.map = NoObj, Keep(n, h)
    PROVE  IInv'
<1> USE DEF IInv
<1>1. /\ handle[h] = NoObj
      /\ rc' = [rc EXCEPT ![n] = @ + 1]
      /\ handle' = [handle EXCEPT ![h] = n]
      /\ UNCHANGED <<status, count, value, cursor, stack, pend>>
      /\ UNCHANGED <<kind, capacity, key, torn>>
  BY DEF Keep, heapVars
<1>2. n \in Obj /\ rc[n] > 0 /\ status[n] = "live"
  <2>1. LiveIsCounted OBVIOUS
  <2> HIDE DEF IInv
  <2> QED BY <2>1 DEF LiveIsCounted
<1>3. TypeOK' BY <1>1, <1>2 DEF TypeOK
<1>4. \A c \in Obj, i \in Index : Held(c, i)' <=> Held(c, i)
  BY <1>1 DEF Held
<1>5. RefCountExact'
  <2> SUFFICES ASSUME NEW o \in Obj
               PROVE  rc'[o] = Cardinality(HandleRefs(o)')
                               + Cardinality(ItemRefs(o)')
    BY DEF RefCountExact
  <2>1. ItemRefs(o)' = ItemRefs(o) BY <1>1, <1>4 DEF ItemRefs
  <2>2. CASE o = n
    <3>1. h \notin HandleRefs(o) /\ HandleRefs(o)' = HandleRefs(o) \cup {h}
      BY <1>1, <1>2, <2>2, ObjAssumption DEF HandleRefs, TypeOK
    <3>2. rc'[o] = rc[o] + 1 BY <1>1, <2>2 DEF TypeOK
    <3> QED BY <2>1, <3>1, <3>2, CountsAgree
  <2>3. CASE o # n
    <3>1. HandleRefs(o)' = HandleRefs(o)
      BY <1>1, <2>3, ObjAssumption DEF HandleRefs, TypeOK
    <3>2. rc'[o] = rc[o] BY <1>1, <2>3 DEF TypeOK
    <3> QED BY <2>1, <3>1, <3>2, CountsAgree
  <2> QED BY <2>2, <2>3
<1>6. LiveIsCounted' BY <1>1, <1>2, <1>3 DEF LiveIsCounted, TypeOK
<1>7. StackDying' /\ CursorsRight' /\ PendHeld'
  BY <1>1 DEF StackDying, CursorsRight, PendHeld
<1> QED BY <1>3, <1>5, <1>6, <1>7

LEMMA RetainKeeps ==
    ASSUME IInv, NEW g \in Handle, NEW h \in Handle, Retain(g, h)
    PROVE  IInv'
<1>1. handle[g] \in Obj /\ status[handle[g]] = "live"
  BY HandleIsLive DEF Retain
<1> QED BY <1>1, KeepKeeps DEF Retain, Idle

(* An item of a container whose release is not running is live.             *)
LEMMA RetainItemKeeps ==
    ASSUME IInv, NEW g \in Handle, NEW h \in Handle, NEW i \in Index,
           RetainItem(g, h, i)
    PROVE  IInv'
<1> DEFINE c == handle[g]
<1>1. c \in Obj /\ status[c] = "live" BY HandleIsLive DEF RetainItem
<1>2. cursor[c] = 1 /\ 1 <= i
  BY <1>1 DEF IInv, CursorsRight, Index
<1>3. Held(c, i)
  BY <1>1, <1>2, ObjAssumption DEF RetainItem, Idle, Held
<1>4. value[c][i] \in Obj /\ status[value[c][i]] = "live"
  BY <1>1, <1>3, SlotIsLive
<1> QED BY <1>4, KeepKeeps DEF RetainItem, Idle

(* cco_object_release by the caller.                                        *)
LEMMA ReleaseKeeps ==
    ASSUME IInv, NEW h \in Handle, Release(h)
    PROVE  IInv'
<1> USE DEF IInv
<1> DEFINE n == handle[h]
<1>1. /\ stack = <<>> /\ pend.map = NoObj /\ n # NoObj /\ Drop(n)
      /\ handle' = [handle EXCEPT ![h] = NoObj]
      /\ UNCHANGED <<kind, count, capacity, value, key, torn, cursor, pend>>
  BY DEF Release, Idle, heapVars
<1>2. n \in Obj /\ rc[n] > 0 /\ status[n] = "live" BY <1>1, HandleIsLive
<1>3. /\ rc' = [rc EXCEPT ![n] = rc[n] - 1]
      /\ rc' \in [Obj -> Nat]
      /\ status' \in [Obj -> {"free", "live", "dying"}]
      /\ stack' \in Seq(Obj)
      /\ \A c \in Obj : status'[c] = "free" <=> status[c] = "free"
      /\ \A c \in Obj : status[c] = "dying" => status'[c] = "dying"
      /\ LiveIsCounted'
      /\ StackDying'
  BY <1>1, <1>2, DropKeeps
<1>4. TypeOK' BY <1>1, <1>3 DEF TypeOK
<1>5. \A c \in Obj, i \in Index : Held(c, i)' <=> Held(c, i)
  BY <1>1, <1>3 DEF Held
<1>6. RefCountExact'
  <2> SUFFICES ASSUME NEW o \in Obj
               PROVE  rc'[o] = Cardinality(HandleRefs(o)')
                               + Cardinality(ItemRefs(o)')
    BY DEF RefCountExact
  <2>1. ItemRefs(o)' = ItemRefs(o) BY <1>1, <1>5 DEF ItemRefs
  <2>2. CASE o = n
    <3>1. h \in HandleRefs(o) /\ HandleRefs(o)' = HandleRefs(o) \ {h}
      BY <1>1, <1>2, <2>2, ObjAssumption DEF HandleRefs, TypeOK
    <3>2. rc'[o] = rc[o] - 1 BY <1>3, <2>2 DEF TypeOK
    <3> QED BY <2>1, <3>1, <3>2, CountsAgree
  <2>3. CASE o # n
    <3>1. HandleRefs(o)' = HandleRefs(o)
      BY <1>1, <2>3, ObjAssumption DEF HandleRefs, TypeOK
    <3>2. rc'[o] = rc[o] BY <1>3, <2>3 DEF TypeOK
    <3> QED BY <2>1, <3>1, <3>2, CountsAgree
  <2> QED BY <2>2, <2>3
<1>7. CursorsRight' BY <1>1, <1>3 DEF CursorsRight
<1>8. PendHeld' BY <1>1 DEF PendHeld
<1> QED BY <1>3, <1>4, <1>6, <1>7, <1>8

(* cco_object_release of an item of a container being destroyed.            *)
LEMMA ReleaseItemKeeps ==
    ASSUME IInv, ReleaseItem
    PROVE  IInv'
<1> USE DEF IInv
<1> DEFINE t == Top
           i == cursor[t]
           n == value[t][i]
<1>1. /\ stack # <<>> /\ cursor[t] <= count[t] /\ Drop(n)
      /\ cursor' = [cursor EXCEPT ![t] = @ + 1]
      /\ UNCHANGED <<kind, count, capacity, value, key, torn, pend, handle>>
  BY DEF ReleaseItem, heapVars
<1>2. t \in Obj /\ status[t] = "dying" /\ i \in Index
  <2>1. Len(stack) \in 1 .. Len(stack) /\ t \in Obj
    BY <1>1 DEF TypeOK, Top
  <2>2. cursor[t] \in 1 .. MaxItems + 1 /\ count[t] \in 0 .. MaxItems
    BY <2>1 DEF TypeOK
  <2> QED BY <1>1, <2>1, <2>2, BoundAssumption DEF StackDying, Top, Index
<1>3. pend.map # t BY <1>2, PendIsLive, ObjAssumption
<1>4. n # NoObj => Held(t, i) BY <1>1, <1>2, <1>3 DEF Held, TypeOK
<1>5. n \in Obj \cup {NoObj} /\ (n # NoObj => rc[n] > 0)
  <2>1. n \in Obj \cup {NoObj} BY <1>2 DEF TypeOK
  <2> QED BY <1>2, <1>4, <2>1, SlotIsLive
<1>6. /\ rc' = IF n = NoObj THEN rc ELSE [rc EXCEPT ![n] = rc[n] - 1]
      /\ rc' \in [Obj -> Nat]
      /\ status' \in [Obj -> {"free", "live", "dying"}]
      /\ stack' \in Seq(Obj)
      /\ \A c \in Obj : status'[c] = "free" <=> status[c] = "free"
      /\ \A c \in Obj : status[c] = "dying" => status'[c] = "dying"
      /\ LiveIsCounted'
      /\ StackDying'
  BY <1>1, <1>5, DropSlotKeeps
<1>7. cursor[t] \in 1 .. MaxItems /\ cursor' \in [Obj -> 1 .. MaxItems + 1]
  <2>1. cursor[t] \in 1 .. MaxItems BY <1>2 DEF Index
  <2>2. cursor[t] + 1 \in 1 .. MaxItems + 1 BY <2>1, BoundAssumption
  <2> QED BY <1>1, <2>1, <2>2 DEF TypeOK
<1>8. TypeOK' BY <1>1, <1>6, <1>7 DEF TypeOK
<1>9. \A c \in Obj, j \in Index :
        Held(c, j)' <=> Held(c, j) /\ ~(c = t /\ j = i)
  <2> SUFFICES ASSUME NEW c \in Obj, NEW j \in Index
               PROVE  Held(c, j)' <=> Held(c, j) /\ ~(c = t /\ j = i)
    OBVIOUS
  <2>1. CASE c # t BY <1>1, <1>2, <1>6, <2>1 DEF Held, TypeOK
  <2>2. CASE c = t
    <3>1. cursor'[t] = i + 1 /\ i \in Int /\ j \in Int
      BY <1>1, <1>2 DEF TypeOK, Index
    <3>2. i + 1 <= j <=> i <= j /\ j # i BY <3>1
    <3> QED BY <1>1, <1>6, <2>2, <3>1, <3>2 DEF Held
  <2> QED BY <2>1, <2>2
<1>10. RefCountExact'
  <2> SUFFICES ASSUME NEW o \in Obj
               PROVE  rc'[o] = Cardinality(HandleRefs(o)')
                               + Cardinality(ItemRefs(o)')
    BY DEF RefCountExact
  <2>1. HandleRefs(o)' = HandleRefs(o) BY <1>1 DEF HandleRefs
  <2>2. CASE o = n
    <3>1. /\ <<t, i>> \in ItemRefs(o)
          /\ ItemRefs(o)' = ItemRefs(o) \ {<<t, i>>}
      BY <1>1, <1>2, <1>4, <1>9, <2>2, ObjAssumption DEF ItemRefs
    <3>2. rc'[o] = rc[o] - 1 BY <1>6, <2>2, ObjAssumption DEF TypeOK
    <3> QED BY <2>1, <3>1, <3>2, CountsAgree
  <2>3. CASE o # n
    <3>1. ItemRefs(o)' = ItemRefs(o)
      BY <1>1, <1>9, <2>3 DEF ItemRefs
    <3>2. rc'[o] = rc[o] BY <1>6, <2>3 DEF TypeOK
    <3> QED BY <2>1, <3>1, <3>2, CountsAgree
  <2> QED BY <2>2, <2>3
<1>11. CursorsRight'
  <2> SUFFICES ASSUME NEW c \in Obj
               PROVE  /\ status'[c] # "dying" => cursor'[c] = 1
                      /\ status'[c] = "free" => count'[c] = 0
                      /\ cursor'[c] <= count'[c] + 1
    BY DEF CursorsRight
  <2>1. CASE c = t
    <3>1. cursor'[t] = cursor[t] + 1 BY <1>1, <1>2 DEF TypeOK
    <3>2. cursor[t] \in Nat /\ count[t] \in Nat BY <1>2, <1>7 DEF TypeOK
    <3> QED BY <1>1, <1>2, <1>6, <2>1, <3>1, <3>2
  <2>2. CASE c # t
    <3>1. cursor'[c] = cursor[c] BY <1>1, <2>2 DEF TypeOK
    <3> QED BY <1>1, <1>6, <3>1 DEF CursorsRight, TypeOK
  <2> QED BY <2>1, <2>2
<1>12. PendHeld' BY <1>1 DEF PendHeld
<1> QED BY <1>6, <1>8, <1>10, <1>11, <1>12

(* The end of a release: the memory goes back to the allocator.             *)
LEMMA FreeKeeps ==
    ASSUME IInv, Free
    PROVE  IInv'
<1> USE DEF IInv
<1> DEFINE t == Top
<1>1. /\ stack # <<>> /\ cursor[t] > count[t]
      /\ status' = [status EXCEPT ![t] = "free"]
      /\ kind' = [kind EXCEPT ![t] = "scalar"]
      /\ count' = [count EXCEPT ![t] = 0]
      /\ capacity' = [capacity EXCEPT ![t] = 0]
      /\ value' = [value EXCEPT ![t] = [i \in Index |-> NoObj]]
      /\ key' = [key EXCEPT ![t] = [i \in Index |-> NoKey]]
      /\ torn' = [torn EXCEPT ![t] = FALSE]
      /\ cursor' = [cursor EXCEPT ![t] = 1]
      /\ stack' = SubSeq(stack, 1, Len(stack) - 1)
      /\ UNCHANGED <<rc, pend, handle>>
  BY DEF Free
<1>2. t \in Obj /\ status[t] = "dying"
  <2>1. Len(stack) \in 1 .. Len(stack) /\ t \in Obj
    BY <1>1 DEF TypeOK, Top
  <2> QED BY <2>1 DEF StackDying, Top
<1>3. pend.map # t BY <1>2, PendIsLive, ObjAssumption
<1>4. /\ stack' \in Seq(Obj) /\ Len(stack') = Len(stack) - 1
      /\ Len(stack) \in Nat \ {0}
      /\ \A j \in 1 .. Len(stack') : /\ j \in 1 .. Len(stack) /\ j # Len(stack)
                                     /\ stack'[j] = stack[j]
  <2>1. stack \in Seq(Obj) /\ Len(stack) \in Nat \ {0} BY <1>1 DEF TypeOK
  <2>2. Len(stack) - 1 \in 0 .. Len(stack) BY <2>1
  <2> DEFINE m == Len(stack) - 1
  <2>3. m \in Int /\ \A j \in 1 .. m : stack[j] \in Obj BY <2>1, <2>2
  <2>4. /\ SubSeq(stack, 1, m) \in Seq(Obj)
        /\ Len(SubSeq(stack, 1, m)) = IF 1 <= m THEN m - 1 + 1 ELSE 0
        /\ \A j \in 1 .. m - 1 + 1 : SubSeq(stack, 1, m)[j] = stack[1 + j - 1]
    <3> HIDE DEF m
    <3> QED BY <2>3, SubSeqProperties
  <2>5. \A j \in 1 .. m : 1 + j - 1 = j /\ j \in 1 .. m - 1 + 1 BY <2>3
  <2>6. Len(stack') = m
    <3>1. m \in Nat BY <2>1
    <3>2. (IF 1 <= m THEN m - 1 + 1 ELSE 0) = m
      <4> HIDE DEF m
      <4> QED BY <3>1
    <3> QED BY ONLY <1>1, <2>4, <3>2, Zenon
  <2> QED BY <1>1, <2>1, <2>4, <2>5, <2>6
<1>5. TypeOK'
  <2>1. /\ status' \in [Obj -> {"free", "live", "dying"}]
        /\ kind' \in [Obj -> Kind]
        /\ torn' \in [Obj -> BOOLEAN]
        /\ rc' \in [Obj -> Nat]
    BY <1>1, <1>2 DEF TypeOK, Kind
  <2>2. /\ count' \in [Obj -> 0 .. MaxItems]
        /\ capacity' \in [Obj -> Nat]
        /\ cursor' \in [Obj -> 1 .. MaxItems + 1]
    <3>1. 0 \in 0 .. MaxItems /\ 1 \in 1 .. MaxItems + 1 BY BoundAssumption
    <3> QED BY <1>1, <1>2, <3>1 DEF TypeOK
  <2>3. /\ value' \in [Obj -> [Index -> Obj \cup {NoObj}]]
        /\ key' \in [Obj -> [Index -> Key \cup {NoKey}]]
    BY <1>1, <1>2 DEF TypeOK
  <2> QED BY <1>1, <1>4, <2>1, <2>2, <2>3 DEF TypeOK
<1>6. \A c \in Obj, j \in Index :
        /\ Held(c, j)' <=> Held(c, j)
        /\ Held(c, j) => c # t
  <2> SUFFICES ASSUME NEW c \in Obj, NEW j \in Index
               PROVE  (Held(c, j)' <=> Held(c, j)) /\ (Held(c, j) => c # t)
    OBVIOUS
  <2>1. CASE c # t BY <1>1, <2>1 DEF Held, TypeOK
  <2>2. CASE c = t
    <3>1. j \in Int /\ cursor[t] \in Int /\ count[t] \in Int
      BY <1>2 DEF TypeOK, Index
    <3>2. ~Held(c, j) BY <1>1, <2>2, <3>1 DEF Held
    <3>3. ~Held(c, j)' BY <1>1, <1>2, <2>2 DEF Held, TypeOK
    <3> QED BY <2>2, <3>2, <3>3
  <2> QED BY <2>1, <2>2
<1>7. RefCountExact'
  <2> SUFFICES ASSUME NEW o \in Obj
               PROVE  rc'[o] = Cardinality(HandleRefs(o)')
                               + Cardinality(ItemRefs(o)')
    BY DEF RefCountExact
  <2>1. HandleRefs(o)' = HandleRefs(o) BY <1>1 DEF HandleRefs
  <2>2. ItemRefs(o)' = ItemRefs(o) BY <1>1, <1>2, <1>6 DEF ItemRefs, TypeOK
  <2> QED BY <1>1, <2>1, <2>2, CountsAgree
<1>8. LiveIsCounted' BY <1>1, <1>2 DEF LiveIsCounted, TypeOK
<1>9. StackDying'
  <2>1. \A j \in 1 .. Len(stack') : stack[j] # t
    BY <1>4 DEF StackDying, Top
  <2>2. \A j \in 1 .. Len(stack') : stack[j] \in Obj BY <1>4 DEF TypeOK
  <2>3. \A j \in 1 .. Len(stack') : status'[stack'[j]] = "dying"
    <3>1. \A o \in Obj : o # t => status'[o] = status[o]
      BY <1>1 DEF TypeOK
    <3>2. \A j \in 1 .. Len(stack') : status[stack[j]] = "dying"
      BY <1>4 DEF StackDying
    <3> QED BY <1>4, <2>1, <2>2, <3>1, <3>2
  <2>4. \A i, j \in 1 .. Len(stack') : stack'[i] = stack'[j] => i = j
    BY <1>4 DEF StackDying
  <2> QED BY <2>3, <2>4 DEF StackDying
<1>10. CursorsRight' BY <1>1, <1>2 DEF CursorsRight, TypeOK
<1>11. PendHeld'
  BY <1>1, <1>2, <1>3, PendIsLive DEF PendHeld, TypeOK
<1> QED BY <1>5, <1>7, <1>8, <1>9, <1>10, <1>11

(* A grown capacity is a number. *)
LEMMA GrownIsNat ==
    ASSUME IInv, NEW c \in Obj
    PROVE  Grown(c) \in Nat
<1>1. capacity[c] \in Nat BY DEF IInv, TypeOK
<1>2. 2 * capacity[c] \in Nat BY <1>1
<1>3. InitCap \in Nat BY BoundAssumption
<1> QED BY <1>1, <1>2, <1>3 DEF Grown

(* The store shared by cco_array_append and cco_map_insert. *)
LEMMA PutLastKeeps ==
    ASSUME IInv, NEW c \in Obj, NEW n \in Obj,
           status[c] = "live", status[n] = "live",
           count[c] < MaxItems, pend.map = NoObj,
           PutLast(c, n), key' \in [Obj -> [Index -> Key \cup {NoKey}]],
           UNCHANGED <<status, kind, torn, cursor, stack, pend, handle>>
    PROVE  IInv'
<1> USE DEF IInv
<1> DEFINE i == count[c] + 1
<1>1. /\ value' = [value EXCEPT ![c][i] = n]
      /\ count' = [count EXCEPT ![c] = i]
      /\ capacity' = [capacity EXCEPT ![c] = Grown(c)]
      /\ rc' = [rc EXCEPT ![n] = @ + 1]
  BY DEF PutLast, TypeOK
<1>2. i \in Index /\ i \in 0 .. MaxItems /\ count[c] \in Nat
  <2>1. count[c] \in 0 .. MaxItems BY DEF TypeOK
  <2> QED BY <2>1, BoundAssumption DEF Index
<1>3. Grown(c) \in Nat BY GrownIsNat
<1>4. TypeOK'
  <2>1. value' \in [Obj -> [Index -> Obj \cup {NoObj}]]
    BY <1>1, <1>2 DEF TypeOK
  <2>2. count' \in [Obj -> 0 .. MaxItems]
    <3>1. count \in [Obj -> 0 .. MaxItems] BY DEF TypeOK
    <3> HIDE DEF IInv, i
    <3> QED BY <1>1, <1>2, <3>1
  <2>3. capacity' \in [Obj -> Nat]
    <3>1. capacity \in [Obj -> Nat] BY DEF TypeOK
    <3> HIDE DEF IInv
    <3> QED BY <1>1, <1>3, <3>1
  <2>4. rc' \in [Obj -> Nat]
    <3>1. rc \in [Obj -> Nat] BY DEF TypeOK
    <3>2. rc[n] + 1 \in Nat BY <3>1
    <3> HIDE DEF IInv
    <3> QED BY <1>1, <3>1, <3>2
  <2> QED BY <2>1, <2>2, <2>3, <2>4 DEF TypeOK
<1>5. cursor[c] = 1 BY DEF CursorsRight
<1>6. /\ \A d \in Obj, j \in Index :
           Held(d, j)' <=> Held(d, j) \/ (d = c /\ j = i)
      /\ ~Held(c, i)
  <2>1. ~Held(c, i) BY <1>2 DEF Held
  <2>2. ASSUME NEW d \in Obj, NEW j \in Index
        PROVE  Held(d, j)' <=> Held(d, j) \/ (d = c /\ j = i)
    <3>1. CASE d # c BY <1>1, <3>1 DEF Held, TypeOK
    <3>2. CASE d = c
      <4>1. count'[c] = i /\ value'[c][i] = n
            /\ \A m \in Index : m # i => value'[c][m] = value[c][m]
        BY <1>1, <1>2 DEF TypeOK
      <4>2. j \in Nat /\ 1 <= j BY DEF Index
      <4>3. j <= i <=> j <= count[c] \/ j = i BY <1>2, <4>2
      <4> QED BY <1>5, <3>2, <4>1, <4>2, <4>3, ObjAssumption DEF Held
    <3> QED BY <3>1, <3>2
  <2> QED BY <2>1, <2>2
<1>7. \A d \in Obj, j \in Index :
        value'[d][j] = IF d = c /\ j = i THEN n ELSE value[d][j]
  BY <1>1, <1>2 DEF TypeOK
<1>8. RefCountExact'
  <2> SUFFICES ASSUME NEW o \in Obj
               PROVE  rc'[o] = Cardinality(HandleRefs(o)')
                               + Cardinality(ItemRefs(o)')
    BY DEF RefCountExact
  <2>1. HandleRefs(o)' = HandleRefs(o) BY DEF HandleRefs
  <2>2. CASE o = n
    <3>1. <<c, i>> \notin ItemRefs(o) BY <1>6 DEF ItemRefs
    <3>2. ItemRefs(o)' = ItemRefs(o) \cup {<<c, i>>}
      BY <1>2, <1>6, <1>7, <2>2 DEF ItemRefs
    <3>3. rc'[o] = rc[o] + 1 BY <1>1, <2>2 DEF TypeOK
    <3> QED BY <2>1, <3>1, <3>2, <3>3, CountsAgree
  <2>3. CASE o # n
    <3>1. ItemRefs(o)' = ItemRefs(o) BY <1>6, <1>7, <2>3 DEF ItemRefs
    <3>2. rc'[o] = rc[o] BY <1>1, <2>3 DEF TypeOK
    <3> QED BY <2>1, <3>1, <3>2, CountsAgree
  <2> QED BY <2>2, <2>3
<1>9. LiveIsCounted'
  <2>1. rc[n] \in Nat /\ rc'[n] = rc[n] + 1 BY <1>1 DEF TypeOK
  <2>2. \A o \in Obj : o # n => rc'[o] = rc[o] BY <1>1 DEF TypeOK
  <2> QED BY <2>1, <2>2 DEF LiveIsCounted
<1>10. StackDying' BY DEF StackDying
<1>11. CursorsRight'
  <2>1. count'[c] = i /\ \A d \in Obj : d # c => count'[d] = count[d]
    BY <1>1 DEF TypeOK
  <2>2. 1 <= i + 1 BY <1>2
  <2> QED BY <1>5, <2>1, <2>2 DEF CursorsRight
<1>12. PendHeld' BY DEF PendHeld
<1> QED BY <1>4, <1>8, <1>9, <1>10, <1>11, <1>12

(* cco_array_append.                                                        *)
LEMMA ArrayAppendKeeps ==
    ASSUME IInv, NEW h \in Handle, NEW g \in Handle, ArrayAppend(h, g)
    PROVE  IInv'
<1>1. /\ handle[h] \in Obj /\ status[handle[h]] = "live"
      /\ handle[g] \in Obj /\ status[handle[g]] = "live"
  BY HandleIsLive DEF ArrayAppend
<1>2. key' \in [Obj -> [Index -> Key \cup {NoKey}]]
  BY DEF ArrayAppend, IInv, TypeOK
<1> QED BY <1>1, <1>2, PutLastKeeps DEF ArrayAppend, Idle

(* cco_map_insert of a new key.                                             *)
LEMMA MapInsertKeeps ==
    ASSUME IInv, NEW h \in Handle, NEW g \in Handle, NEW k \in Key,
           MapInsert(h, k, g)
    PROVE  IInv'
<1>1. /\ handle[h] \in Obj /\ status[handle[h]] = "live"
      /\ handle[g] \in Obj /\ status[handle[g]] = "live"
  BY HandleIsLive DEF MapInsert
<1>2. key' \in [Obj -> [Index -> Key \cup {NoKey}]]
  BY <1>1 DEF MapInsert, IInv, TypeOK
<1> QED BY <1>1, <1>2, PutLastKeeps DEF MapInsert, Idle

(* cco_map_insert of a known key, up to the release of the old value.       *)
LEMMA MapReplaceKeeps ==
    ASSUME IInv, NEW h \in Handle, NEW g \in Handle, NEW k \in Key,
           MapReplace(h, k, g)
    PROVE  IInv'
<1> USE DEF IInv
<1> DEFINE c == handle[h]
           v == handle[g]
<1>1. PICK i \in Index :
        /\ i <= count[c]
        /\ Drop(value[c][i])
        /\ pend' = [map |-> c, idx |-> i, val |-> v]
  BY DEF MapReplace, FirstMatch
<1> DEFINE n == value[c][i]
<1>2. /\ stack = <<>> /\ pend.map = NoObj /\ c # NoObj /\ v # NoObj
      /\ UNCHANGED <<kind, count, capacity, value, key, torn, cursor, handle>>
  BY DEF MapReplace, Idle, heapVars
<1>3. c \in Obj /\ status[c] = "live" /\ v \in Obj /\ status[v] = "live"
  BY <1>2, HandleIsLive
<1>4. n # NoObj => Held(c, i)
  <2>1. cursor[c] = 1 /\ 1 <= i BY <1>3 DEF CursorsRight, Index
  <2> QED BY <1>1, <1>2, <1>3, <2>1, ObjAssumption DEF Held
<1>5. n \in Obj \cup {NoObj} /\ (n # NoObj => rc[n] > 0)
  <2>1. n \in Obj \cup {NoObj} BY <1>3 DEF TypeOK
  <2> QED BY <1>3, <1>4, <2>1, SlotIsLive
<1>6. /\ rc' = IF n = NoObj THEN rc ELSE [rc EXCEPT ![n] = rc[n] - 1]
      /\ rc' \in [Obj -> Nat]
      /\ status' \in [Obj -> {"free", "live", "dying"}]
      /\ stack' \in Seq(Obj)
      /\ \A b \in Obj : status'[b] = "free" <=> status[b] = "free"
      /\ \A b \in Obj : status[b] = "dying" => status'[b] = "dying"
      /\ LiveIsCounted'
      /\ StackDying'
  BY <1>1, <1>5, DropSlotKeeps
<1>7. i \in 0 .. MaxItems /\ i \in 1 .. count[c]
  BY <1>1, <1>3 DEF Index, TypeOK
<1>8. TypeOK' BY <1>1, <1>2, <1>3, <1>6, <1>7 DEF TypeOK
<1>9. \A d \in Obj, j \in Index :
        Held(d, j)' <=> Held(d, j) /\ ~(d = c /\ j = i)
  BY <1>1, <1>2, <1>3, <1>6, ObjAssumption DEF Held
<1>10. RefCountExact'
  <2> SUFFICES ASSUME NEW o \in Obj
               PROVE  rc'[o] = Cardinality(HandleRefs(o)')
                               + Cardinality(ItemRefs(o)')
    BY DEF RefCountExact
  <2>1. HandleRefs(o)' = HandleRefs(o) BY <1>2 DEF HandleRefs
  <2>2. CASE o = n
    <3>1. <<c, i>> \in ItemRefs(o)
      BY <1>3, <1>4, <2>2, ObjAssumption DEF ItemRefs
    <3>2. ItemRefs(o)' = ItemRefs(o) \ {<<c, i>>}
      BY <1>2, <1>9 DEF ItemRefs
    <3>3. rc'[o] = rc[o] - 1 BY <1>6, <2>2, ObjAssumption DEF TypeOK
    <3> QED BY <2>1, <3>1, <3>2, <3>3, CountsAgree
  <2>3. CASE o # n
    <3>1. ItemRefs(o)' = ItemRefs(o) BY <1>2, <1>9, <2>3 DEF ItemRefs
    <3>2. rc'[o] = rc[o] BY <1>6, <2>3 DEF TypeOK
    <3> QED BY <2>1, <3>1, <3>2, CountsAgree
  <2> QED BY <2>2, <2>3
<1>11. CursorsRight' BY <1>2, <1>6 DEF CursorsRight
<1>12. PendHeld' BY <1>1, <1>2, <1>3, <1>7 DEF PendHeld
<1> QED BY <1>6, <1>8, <1>10, <1>11, <1>12

(* cco_map_insert of a known key, after that release has returned.          *)
LEMMA MapReplacedKeeps ==
    ASSUME IInv, MapReplaced
    PROVE  IInv'
<1> USE DEF IInv
<1> DEFINE c == pend.map
           i == pend.idx
           n == pend.val
<1>1. /\ stack = <<>> /\ c # NoObj
      /\ value' = [value EXCEPT ![c][i] = n]
      /\ rc' = [rc EXCEPT ![n] = @ + 1]
      /\ pend' = NoPend
      /\ UNCHANGED <<status, kind, count, capacity, key, torn, cursor, stack,
                     handle>>
  BY DEF MapReplaced
<1>2. c \in Obj /\ status[c] = "live" /\ n \in Obj /\ status[n] = "live"
  BY <1>1, PendIsLive
<1>3. i \in Index /\ i \in 1 .. count[c]
  BY <1>1, <1>2 DEF PendHeld, Index, TypeOK
<1>4. TypeOK'
  <2>1. value' \in [Obj -> [Index -> Obj \cup {NoObj}]]
    BY <1>1, <1>2, <1>3 DEF TypeOK
  <2>2. rc' \in [Obj -> Nat] BY <1>1, <1>2 DEF TypeOK
  <2>3. 0 \in 0 .. MaxItems BY BoundAssumption
  <2> QED BY <1>1, <2>1, <2>2, <2>3 DEF TypeOK, NoPend
<1>5. cursor[c] = 1 BY <1>2 DEF CursorsRight
<1>6. /\ \A d \in Obj, j \in Index :
           Held(d, j)' <=> Held(d, j) \/ (d = c /\ j = i)
      /\ ~Held(c, i)
  <2>1. ~Held(c, i) BY DEF Held
  <2>2. status[c] # "free" /\ cursor[c] <= i /\ i <= count[c]
    BY <1>2, <1>3, <1>5
  <2>3. \A d \in Obj, j \in Index :
          value'[d][j] = IF d = c /\ j = i THEN n ELSE value[d][j]
    BY <1>1, <1>2, <1>3 DEF TypeOK
  <2> QED BY <1>1, <1>2, <2>1, <2>2, <2>3, ObjAssumption DEF Held, NoPend
<1>7. \A d \in Obj, j \in Index :
        value'[d][j] = IF d = c /\ j = i THEN n ELSE value[d][j]
  BY <1>1, <1>2, <1>3 DEF TypeOK
<1>8. RefCountExact'
  <2> SUFFICES ASSUME NEW o \in Obj
               PROVE  rc'[o] = Cardinality(HandleRefs(o)')
                               + Cardinality(ItemRefs(o)')
    BY DEF RefCountExact
  <2>1. HandleRefs(o)' = HandleRefs(o) BY <1>1 DEF HandleRefs
  <2>2. CASE o = n
    <3>1. <<c, i>> \notin ItemRefs(o) BY <1>6 DEF ItemRefs
    <3>2. ItemRefs(o)' = ItemRefs(o) \cup {<<c, i>>}
      BY <1>2, <1>3, <1>6, <1>7, <2>2 DEF ItemRefs
    <3>3. rc'[o] = rc[o] + 1 BY <1>1, <2>2 DEF TypeOK
    <3> QED BY <2>1, <3>1, <3>2, <3>3, CountsAgree
  <2>3. CASE o # n
    <3>1. ItemRefs(o)' = ItemRefs(o) BY <1>6, <1>7, <2>3 DEF ItemRefs
    <3>2. rc'[o] = rc[o] BY <1>1, <2>3 DEF TypeOK
    <3> QED BY <2>1, <3>1, <3>2, CountsAgree
  <2> QED BY <2>2, <2>3
<1>9. LiveIsCounted' BY <1>1, <1>2 DEF LiveIsCounted, TypeOK
<1>10. StackDying' /\ CursorsRight' BY <1>1 DEF StackDying, CursorsRight
<1>11. PendHeld' BY <1>1 DEF PendHeld, NoPend
<1> QED BY <1>4, <1>8, <1>9, <1>10, <1>11

(* A failed insertion and a step outside the heap change no reference. *)
LEMMA OtherKeeps ==
    ASSUME IInv,
           capacity' \in [Obj -> Nat], torn' \in [Obj -> BOOLEAN],
           UNCHANGED <<status, kind, rc, count, value, key, cursor, stack,
                       pend, handle>>
    PROVE  IInv'
<1> USE DEF IInv
<1>1. TypeOK' BY DEF TypeOK
<1>2. \A b \in Obj, j \in Index : Held(b, j)' <=> Held(b, j) BY DEF Held
<1>3. \A o \in Obj :
        HandleRefs(o)' = HandleRefs(o) /\ ItemRefs(o)' = ItemRefs(o)
  BY <1>2 DEF HandleRefs, ItemRefs
<1>4. RefCountExact' BY <1>3 DEF RefCountExact
<1>5. LiveIsCounted' /\ StackDying' /\ CursorsRight' /\ PendHeld'
  BY DEF LiveIsCounted, StackDying, CursorsRight, PendHeld
<1> QED BY <1>1, <1>4, <1>5

-----------------------------------------------------------------------------
(* No step of the heap breaks the strengthened invariant... *)
LEMMA StepKeeps == IInv /\ [Next]_vars => IInv'
<1> SUFFICES ASSUME IInv, [Next]_vars PROVE IInv'
  OBVIOUS
<1>1. ASSUME NEW h \in Handle, NEW t \in Kind, Create(h, t) PROVE IInv'
  BY <1>1, CreateKeeps
<1>2. ASSUME NEW g \in Handle, NEW h \in Handle, Retain(g, h) PROVE IInv'
  BY <1>2, RetainKeeps
<1>3. ASSUME NEW h \in Handle, Release(h) PROVE IInv'
  BY <1>3, ReleaseKeeps
<1>4. CASE ReleaseItem BY <1>4, ReleaseItemKeeps
<1>5. CASE Free BY <1>5, FreeKeeps
<1>6. ASSUME NEW h \in Handle, NEW g \in Handle, ArrayAppend(h, g)
      PROVE  IInv'
  BY <1>6, ArrayAppendKeeps
<1>7. ASSUME NEW h \in Handle, NEW g \in Handle, NEW k \in Key,
             MapReplace(h, k, g)
      PROVE  IInv'
  BY <1>7, MapReplaceKeeps
<1>8. CASE MapReplaced BY <1>8, MapReplacedKeeps
<1>9. ASSUME NEW h \in Handle, NEW g \in Handle, NEW k \in Key,
             MapInsert(h, k, g)
      PROVE  IInv'
  BY <1>9, MapInsertKeeps
<1>10. ASSUME NEW h \in Handle, NEW k \in Key, MapInsertNoKey(h, k)
       PROVE  IInv'
  <2>1. handle[h] \in Obj BY <1>10, HandleIsLive DEF MapInsertNoKey
  <2>2. Grown(handle[h]) \in Nat BY <2>1, GrownIsNat
  <2> QED BY <1>10, <2>1, <2>2, OtherKeeps DEF MapInsertNoKey, IInv, TypeOK
<1>11. ASSUME NEW h \in Handle, NEW k \in Key, MapInsertHalfGrown(h, k)
       PROVE  IInv'
  BY <1>11, OtherKeeps DEF MapInsertHalfGrown, IInv, TypeOK
<1>12. CASE UNCHANGED vars
  BY <1>12, OtherKeeps DEF vars, IInv, TypeOK
<1>13. ASSUME NEW g \in Handle, NEW h \in Handle, NEW i \in Index,
              RetainItem(g, h, i)
       PROVE  IInv'
  BY <1>13, RetainItemKeeps
<1> QED BY <1>1, <1>2, <1>3, <1>4, <1>5, <1>6, <1>7, <1>8, <1>9, <1>10,
           <1>11, <1>12, <1>13 DEF Next

(* ... so it holds in every reachable state. *)
THEOREM HeapInvariant == Spec => []IInv
<1> QED BY InitEstablishes, StepKeeps, PTL DEF Spec

(* The type invariant. *)
THEOREM TypeCorrect == Spec => []TypeOK
<1>1. IInv => TypeOK BY DEF IInv
<1> QED BY <1>1, HeapInvariant, PTL

(* Every count is the number of references that exist, at every step of    *)
(* every call: internal/object.c never forgets a retain or a release.      *)
THEOREM CountsExact == Spec => []RefCountExact
<1> QED BY IInvImplies, HeapInvariant, PTL

(* No use after free and no double free, cycles or not: every reference    *)
(* leads to a live object and no destruction is entered twice.             *)
THEOREM NothingDangles == Spec => []NoDangling
<1> QED BY IInvImplies, HeapInvariant, PTL

(* The release inside cco_map_insert never frees the map or the new value. *)
THEOREM ReplacementSafe == Spec => []ReplaceSafe
<1> QED BY IInvImplies, HeapInvariant, PTL

-----------------------------------------------------------------------------
(* Containers *)

(* A container that is grown when it is full has room for one more.         *)
LEMMA GrownFits ==
    ASSUME TypeOK, NEW c \in Obj, count[c] <= capacity[c]
    PROVE  count[c] + 1 <= Grown(c) /\ capacity[c] <= Grown(c)
<1>1. count[c] \in Nat /\ capacity[c] \in Nat /\ InitCap \in Nat /\ InitCap > 0
  BY BoundAssumption DEF TypeOK
<1> QED BY <1>1 DEF Grown, Full

(* One more item fits, and under a key the map does not have. *)
LEMMA InsertFits ==
    ASSUME TypeOK, WellFormed, NEW c \in Obj, count[c] < MaxItems,
           count' = [count EXCEPT ![c] = @ + 1],
           capacity' = [capacity EXCEPT ![c] = Grown(c)], kind' = kind,
           \/ kind[c] # "map" /\ key' = key
           \/ \E k \in Key : /\ key' = [key EXCEPT ![c][count[c] + 1] = k]
                             /\ Missing(c, k)
    PROVE  WellFormed'
<1>1. count[c] \in Nat /\ count[c] + 1 \in Index /\ count[c] <= capacity[c]
  <2>1. count[c] \in 0 .. MaxItems BY DEF TypeOK
  <2>2. count[c] <= capacity[c] BY DEF WellFormed
  <2> QED BY <2>1, <2>2, BoundAssumption DEF Index
<1>2. \A b \in Obj : /\ count'[b] = IF b = c THEN count[c] + 1 ELSE count[b]
                     /\ capacity'[b] = IF b = c THEN Grown(c) ELSE capacity[b]
  BY DEF TypeOK
<1>3. count[c] + 1 <= Grown(c) BY <1>1, GrownFits
<1>4. \A b \in Obj : count'[b] <= capacity'[b]
  BY <1>2, <1>3 DEF WellFormed
<1>5. ASSUME NEW b \in Obj, kind[b] = "map", b # c,
             NEW i \in 1 .. count'[b], NEW j \in 1 .. count'[b],
             key'[b][i] = key'[b][j], key'[b][i] # NoKey
      PROVE  i = j
  <2>1. key'[b] = key[b] BY <1>5 DEF TypeOK
  <2> QED BY <1>2, <1>5, <2>1 DEF WellFormed
<1>6. ASSUME kind[c] = "map",
             NEW i \in 1 .. count'[c], NEW j \in 1 .. count'[c],
             key'[c][i] = key'[c][j], key'[c][i] # NoKey
      PROVE  i = j
  <2>1. PICK k \in Key : key' = [key EXCEPT ![c][count[c] + 1] = k]
                         /\ Missing(c, k)
    BY <1>6
  <2>2. \A m \in Index :
          key'[c][m] = IF m = count[c] + 1 THEN k ELSE key[c][m]
    BY <2>1 DEF TypeOK
  <2>3. \A m \in 1 .. count[c] : m \in Index /\ key[c][m] # k
    <3>1. \A m \in 1 .. count[c] : m \in Index /\ m <= count[c]
      BY <1>1, BoundAssumption DEF Index
    <3> QED BY <2>1, <3>1 DEF Missing
  <2>4. \A m \in 1 .. count'[c] : m \in 1 .. count[c] \/ m = count[c] + 1
    BY <1>1, <1>2
  <2>5. \A m \in 1 .. count[c] : key'[c][m] = key[c][m] /\ key'[c][m] # k
    BY <1>1, <2>2, <2>3
  <2>6. key'[c][count[c] + 1] = k BY <1>1, <2>2
  <2>7. CASE i \in 1 .. count[c] /\ j \in 1 .. count[c]
    BY <1>6, <2>5, <2>7 DEF WellFormed
  <2>8. CASE i = count[c] + 1 \/ j = count[c] + 1
    BY <1>6, <2>4, <2>5, <2>6, <2>8
  <2> QED BY <2>4, <2>7, <2>8
<1> QED BY <1>4, <1>5, <1>6 DEF WellFormed

(* No step of the heap overfills a container or gives a map a key twice.    *)
LEMMA WellFormedKept == IInv /\ WellFormed /\ [Next]_vars => WellFormed'
<1> SUFFICES ASSUME IInv, WellFormed, [Next]_vars PROVE WellFormed'
  OBVIOUS
<1>1. CASE UNCHANGED <<kind, count, capacity, key>>
  BY <1>1 DEF WellFormed
<1>2. ASSUME NEW h \in Handle, NEW t \in Kind, Create(h, t) PROVE WellFormed'
  <2>1. PICK n \in Obj : status[n] = "free" /\ kind' = [kind EXCEPT ![n] = t]
    BY <1>2 DEF Create
  <2>2. count[n] = 0 /\ UNCHANGED <<count, capacity, key>>
    BY <1>2, <2>1 DEF Create, IInv, CursorsRight
  <2>3. \A b \in Obj : b # n => kind'[b] = kind[b]
    BY <2>1 DEF IInv, TypeOK
  <2> QED BY <2>2, <2>3 DEF WellFormed
<1>3. CASE Free
  <2>1. PICK o : o = Top OBVIOUS
  <2>2. /\ kind' = [kind EXCEPT ![o] = "scalar"]
        /\ count' = [count EXCEPT ![o] = 0]
        /\ capacity' = [capacity EXCEPT ![o] = 0]
        /\ key' = [key EXCEPT ![o] = [i \in Index |-> NoKey]]
    BY <1>3, <2>1 DEF Free
  <2>3. \A b \in Obj :
          IF b = o THEN count'[b] = 0 /\ capacity'[b] = 0
          ELSE /\ kind'[b] = kind[b] /\ count'[b] = count[b]
               /\ capacity'[b] = capacity[b] /\ key'[b] = key[b]
    BY <2>2 DEF IInv, TypeOK
  <2> QED BY <2>3 DEF WellFormed
<1>4. ASSUME NEW h \in Handle, NEW g \in Handle, ArrayAppend(h, g)
      PROVE  WellFormed'
  <2>1. handle[h] \in Obj BY <1>4, HandleIsLive DEF ArrayAppend
  <2> QED BY <1>4, <2>1, InsertFits DEF ArrayAppend, PutLast, IInv
<1>5. ASSUME NEW h \in Handle, NEW g \in Handle, NEW k \in Key,
             MapInsert(h, k, g)
      PROVE  WellFormed'
  <2>1. handle[h] \in Obj BY <1>5, HandleIsLive DEF MapInsert
  <2> QED BY <1>5, <2>1, InsertFits DEF MapInsert, PutLast, IInv
<1>6. ASSUME NEW h \in Handle, NEW k \in Key, MapInsertNoKey(h, k)
      PROVE  WellFormed'
  <2>1. PICK c : c = handle[h] OBVIOUS
  <2>2. c \in Obj /\ capacity' = [capacity EXCEPT ![c] = Grown(c)]
        /\ UNCHANGED <<kind, count, key>>
    BY <1>6, <2>1, HandleIsLive DEF MapInsertNoKey
  <2>3. \A b \in Obj : capacity'[b] = IF b = c THEN Grown(c) ELSE capacity[b]
    BY <2>2 DEF IInv, TypeOK
  <2>4. count[c] <= capacity[c] /\ count[c] \in Nat /\ capacity[c] \in Nat
    BY <2>2 DEF WellFormed, IInv, TypeOK
  <2>5. count[c] + 1 <= Grown(c) /\ Grown(c) \in Nat
    BY <2>2, <2>4, GrownFits, GrownIsNat DEF IInv
  <2>6. count[c] <= Grown(c) BY <2>4, <2>5
  <2> QED BY <2>2, <2>3, <2>6 DEF WellFormed
<1>7. ASSUME NEW g \in Handle, NEW h \in Handle,
             \/ Retain(g, h) \/ Release(h)
             \/ \E i \in Index : RetainItem(g, h, i)
             \/ \E k \in Key : MapReplace(h, k, g) \/ MapInsertHalfGrown(h, k)
      PROVE  UNCHANGED <<kind, count, capacity, key>>
  BY <1>7 DEF Retain, Release, RetainItem, Keep, MapReplace,
              MapInsertHalfGrown, heapVars
<1>8. ASSUME ReleaseItem \/ MapReplaced \/ UNCHANGED vars
      PROVE  UNCHANGED <<kind, count, capacity, key>>
  BY <1>8 DEF ReleaseItem, MapReplaced, heapVars, vars
<1> QED BY <1>1, <1>2, <1>3, <1>4, <1>5, <1>6, <1>7, <1>8 DEF Next

-----------------------------------------------------------------------------
(* Leaks.  What is not freed is counted, so something refers to it; if no   *)
(* container is below itself, what refers to it leads back to a handle.     *)

Edge(c, o) == \E i \in Index : Held(c, i) /\ value[c][i] = o

(* Among any objects there is one that none of them holds. *)
Acyclic ==
    \A U \in SUBSET Obj : U # {} => \E o \in U : \A c \in U : ~Edge(c, o)

DyingStacked ==
    \A o \in Obj : status[o] = "dying" => \E k \in 1 .. Len(stack) : stack[k] = o

(* A replacement in progress does not close a cycle. *)
PendApart ==
    \A v \in Obj :
        pend.map # NoObj /\ pend.val = v => pend.map \notin Reachable({v})

LeakInv == Acyclic /\ DyingStacked /\ PendApart

(* What is reachable holds nothing that is not, and is the least such set.  *)
LEMMA ReachableCloses ==
    ASSUME TypeOK, NEW S
    PROVE  /\ S \cap Obj \subseteq Reachable(S) /\ Reachable(S) \subseteq Obj
           /\ \A c \in Reachable(S), o \in Obj : Edge(c, o) => o \in Reachable(S)
<1>1. ASSUME NEW c \in Reachable(S), NEW o \in Obj, Edge(c, o)
      PROVE  o \in Reachable(S)
  <2>1. PICK i \in Index : Held(c, i) /\ value[c][i] = o BY <1>1 DEF Edge
  <2>2. ASSUME NEW T \in SUBSET Obj, S \subseteq T, Closed(T) PROVE o \in T
    <3>1. c \in T BY <2>2 DEF Reachable
    <3> QED BY <2>1, <2>2, <3>1 DEF Closed
  <2> QED BY <2>2 DEF Reachable
<1> QED BY <1>1 DEF Reachable

LEMMA ReachableLeast ==
    ASSUME TypeOK, NEW S, NEW T \in SUBSET Obj, S \subseteq T,
           \A c \in T, o \in Obj : Edge(c, o) => o \in T
    PROVE  Reachable(S) \subseteq T
<1>1. ASSUME NEW c \in T, NEW i \in Index, Held(c, i) PROVE value[c][i] \in T
  <2>1. value[c][i] \in Obj BY <1>1 DEF TypeOK, Held
  <2> QED BY <1>1, <2>1 DEF Edge
<1>2. Closed(T) BY <1>1 DEF Closed
<1> QED BY <1>2 DEF Reachable

(* A step that takes references away reaches no more.                       *)
LEMMA EdgesShrink ==
    ASSUME TypeOK, TypeOK', Acyclic,
           \A c, o \in Obj : Edge(c, o)' => Edge(c, o)
    PROVE  /\ Acyclic'
           /\ \A v \in Obj : Reachable({v})' \subseteq Reachable({v})
<1>1. Acyclic' BY DEF Acyclic
<1>2. ASSUME NEW v \in Obj, NEW x \in Reachable({v})'
      PROVE  x \in Reachable({v})
  <2>1. PICK T : T = Reachable({v}) OBVIOUS
  <2>2. v \in T /\ T \in SUBSET Obj
        /\ \A c \in T, o \in Obj : Edge(c, o) => o \in T
    BY <2>1, ReachableCloses
  <2>3. ASSUME NEW c \in T, NEW i \in Index, Held(c, i)'
        PROVE  value'[c][i] \in T
    <3>0. PICK o : o = value'[c][i] OBVIOUS
    <3>1. o \in Obj BY <2>2, <2>3, <3>0 DEF TypeOK, Held
    <3>2. Edge(c, o)' BY <2>3, <3>0 DEF Edge
    <3> QED BY <2>2, <3>0, <3>1, <3>2
  <2>4. Closed(T)' BY <2>3 DEF Closed
  <2> QED BY <2>1, <2>2, <2>4 DEF Reachable
<1> QED BY <1>1, <1>2

(* A reference to what does not lead back closes no cycle. *)
LEMMA EdgeGrows ==
    ASSUME TypeOK, Acyclic, NEW c \in Obj, NEW o \in Obj, c \notin Reachable({o}),
           \A x, y \in Obj : Edge(x, y)' => Edge(x, y) \/ (x = c /\ y = o)
    PROVE  Acyclic'
<1> DEFINE R == Reachable({o})
<1>1. o \in R /\ \A x \in R, y \in Obj : Edge(x, y) => y \in R
  BY ReachableCloses
<1> HIDE DEF R
<1>2. c \notin R BY DEF R
<1>3. ASSUME NEW U \in SUBSET Obj, U # {}
      PROVE  \E u \in U : \A x \in U : ~Edge(x, u)'
  <2>1. CASE U \ R # {}
    <3>1. PICK u \in U \ R : \A x \in U \ R : ~Edge(x, u)
      BY <2>1 DEF Acyclic
    <3>2. \A x \in U : ~Edge(x, u) BY <1>1, <3>1
    <3> QED BY <1>1, <3>1, <3>2
  <2>2. CASE U \subseteq R
    <3>1. PICK u \in U : \A x \in U : ~Edge(x, u) BY <1>3 DEF Acyclic
    <3>2. c \notin U BY <1>2, <2>2
    <3> QED BY <3>1, <3>2
  <2> QED BY <2>1, <2>2
<1> QED BY <1>3 DEF Acyclic

(* Nothing leaks where there are no cycles.                                 *)
LEMMA AcyclicReclaims == IInv /\ LeakInv => NoLeak
<1> SUFFICES ASSUME IInv, LeakInv, Idle,
                    \E o \in Obj : status[o] # "free"
                                  /\ o \notin Reachable(HeldByCaller)
             PROVE  FALSE
  BY DEF NoLeak
<1> DEFINE R == Reachable(HeldByCaller)
           U == {o \in Obj : status[o] # "free" /\ o \notin R}
<1>1. /\ HeldByCaller \cap Obj \subseteq R
      /\ \A c \in R, o \in Obj : Edge(c, o) => o \in R
  BY ReachableCloses DEF IInv
<1>2. PICK u \in U : \A c \in U : ~Edge(c, u)
  <2>1. U # {} /\ U \in SUBSET Obj OBVIOUS
  <2> HIDE DEF U
  <2> QED BY <2>1 DEF LeakInv, Acyclic
<1> HIDE DEF R
<1>3. status[u] = "live"
  <2>1. status[u] # "dying" BY DEF LeakInv, DyingStacked, Idle
  <2> QED BY <2>1 DEF IInv, TypeOK
<1>4. Cardinality(HandleRefs(u)) + Cardinality(ItemRefs(u)) > 0
  BY <1>3 DEF IInv, LiveIsCounted, RefCountExact
<1>5. HandleRefs(u) # {} \/ ItemRefs(u) # {}
  BY <1>4, RefsFinite, FS_EmptySet
<1>6. ASSUME NEW h \in HandleRefs(u) PROVE FALSE
  <2>1. u \in HeldByCaller BY ObjAssumption DEF HandleRefs, HeldByCaller
  <2> QED BY <1>1, <2>1
<1>7. ASSUME NEW p \in ItemRefs(u) PROVE FALSE
  <2>1. PICK c \in Obj, i \in Index : p = <<c, i>> BY DEF ItemRefs
  <2>2. Held(c, i) /\ value[c][i] = u BY <2>1 DEF ItemRefs
  <2>3. Edge(c, u) /\ status[c] # "free" BY <2>2 DEF Edge, Held
  <2>4. c \in R BY <1>2, <2>3
  <2> QED BY <1>1, <2>3, <2>4
<1> QED BY <1>5, <1>6, <1>7

(* What a step may do with the references items hold. *)
Shrinks == \A c, o \in Obj : Edge(c, o)' => Edge(c, o)
Grows(c, o) ==
    /\ c \in Obj /\ o \in Obj
    /\ \A x, y \in Obj : Edge(x, y)' => Edge(x, y) \/ (x = c /\ y = o)

LEMMA FewerHeld ==
    ASSUME \A c \in Obj, i \in Index :
             Held(c, i)' => Held(c, i) /\ value'[c][i] = value[c][i]
    PROVE  Shrinks
BY DEF Shrinks, Edge

(* A release that is called frees nothing yet, and what it destroys is on   *)
(* the stack.                                                               *)
LEMMA DropStacks ==
    ASSUME IInv, DyingStacked, NEW o \in Obj \cup {NoObj},
           o # NoObj => status[o] = "live", Drop(o)
    PROVE  /\ DyingStacked'
           /\ \A c \in Obj : status'[c] # "free" => status[c] # "free"
<1>1. CASE UNCHANGED <<status, stack>> BY <1>1 DEF DyingStacked
<1>2. CASE /\ o # NoObj /\ status' = [status EXCEPT ![o] = "dying"]
           /\ stack' = Append(stack, o)
  <2>1. /\ Len(stack) \in Nat /\ Len(stack') = Len(stack) + 1
        /\ stack'[Len(stack) + 1] = o
        /\ \A k \in 1 .. Len(stack) : stack'[k] = stack[k]
    BY <1>2 DEF IInv, TypeOK
  <2>2. /\ Len(stack) + 1 \in 1 .. Len(stack')
        /\ \A k \in 1 .. Len(stack) : k \in 1 .. Len(stack')
    BY <2>1
  <2>3. \A c \in Obj : status'[c] = IF c = o THEN "dying" ELSE status[c]
    BY <1>2 DEF IInv, TypeOK
  <2> QED BY <1>2, <2>1, <2>2, <2>3 DEF DyingStacked
<1> QED BY <1>1, <1>2 DEF Drop

(* A release takes references away... *)
LEMMA ReleaseItemShrinks ==
    ASSUME IInv, DyingStacked, ReleaseItem
    PROVE  Shrinks /\ DyingStacked'
<1> DEFINE t == Top
           i == cursor[t]
           n == value[t][i]
<1>1. /\ stack # <<>> /\ cursor[t] <= count[t] /\ Drop(n)
      /\ cursor' = [cursor EXCEPT ![t] = @ + 1]
      /\ UNCHANGED <<kind, count, capacity, value, key, torn, pend, handle>>
  BY DEF ReleaseItem, heapVars
<1>2. t \in Obj /\ status[t] = "dying" /\ i \in Index
  <2>1. Len(stack) \in 1 .. Len(stack) /\ t \in Obj
    BY <1>1 DEF IInv, TypeOK, Top
  <2>2. cursor[t] \in 1 .. MaxItems + 1 /\ count[t] \in 0 .. MaxItems
    BY <2>1 DEF IInv, TypeOK
  <2> QED BY <1>1, <2>1, <2>2, BoundAssumption DEF IInv, StackDying, Top, Index
<1>3. pend.map # t BY <1>2, PendIsLive, ObjAssumption
<1>4. n # NoObj => Held(t, i) BY <1>1, <1>2, <1>3 DEF Held, IInv, TypeOK
<1>5. n \in Obj \cup {NoObj} BY <1>2 DEF IInv, TypeOK
<1>6. n # NoObj => status[n] = "live" BY <1>2, <1>4, SlotIsLive
<1>7. /\ DyingStacked'
      /\ \A c \in Obj : status'[c] # "free" => status[c] # "free"
  BY <1>1, <1>5, <1>6, DropStacks
<1>8. \A c \in Obj, j \in Index : cursor'[c] <= j => cursor[c] <= j
  <2>1. \A c \in Obj : cursor[c] \in Nat BY DEF IInv, TypeOK
  <2>2. \A c \in Obj :
          cursor'[c] = IF c = t THEN cursor[c] + 1 ELSE cursor[c]
    BY <1>1, <1>2 DEF IInv, TypeOK
  <2> QED BY <2>1, <2>2 DEF Index
<1>9. \A c \in Obj, j \in Index :
        Held(c, j)' => Held(c, j) /\ value'[c][j] = value[c][j]
  BY <1>1, <1>7, <1>8 DEF Held
<1> QED BY <1>7, <1>9, FewerHeld

(* ... down to the last one of an object that is freed.                     *)
LEMMA FreeShrinks ==
    ASSUME IInv, DyingStacked, Free
    PROVE  Shrinks /\ DyingStacked'
<1>0. PICK t, n : t = Top /\ n = Len(stack) OBVIOUS
<1>1. /\ stack # <<>>
      /\ status' = [status EXCEPT ![t] = "free"]
      /\ count' = [count EXCEPT ![t] = 0]
      /\ value' = [value EXCEPT ![t] = [i \in Index |-> NoObj]]
      /\ cursor' = [cursor EXCEPT ![t] = 1]
      /\ stack' = SubSeq(stack, 1, n - 1)
      /\ pend' = pend
  BY <1>0 DEF Free
<1>2. /\ n \in Nat \ {0} /\ t = stack[n] /\ Len(stack') = n - 1
      /\ \A k \in 1 .. n - 1 : stack'[k] = stack[k]
  <2>1. stack \in Seq(Obj) /\ t = stack[n] BY <1>0 DEF IInv, TypeOK, Top
  <2>2. n \in Nat \ {0} BY <1>0, <1>1, <2>1
  <2>3. PICK m : m = n - 1 OBVIOUS
  <2>4. m \in Nat /\ m <= n BY <2>2, <2>3
  <2>5. /\ Len(SubSeq(stack, 1, m)) = m
        /\ \A k \in 1 .. m : SubSeq(stack, 1, m)[k] = stack[k]
    BY <1>0, <2>1, <2>4
  <2> QED BY <1>1, <2>1, <2>2, <2>3, <2>5
<1>3. \A c \in Obj :
        IF c = t THEN status'[c] = "free"
        ELSE /\ status'[c] = status[c] /\ value'[c] = value[c]
             /\ count'[c] = count[c] /\ cursor'[c] = cursor[c]
  BY <1>1 DEF IInv, TypeOK
<1>4. \A c \in Obj, j \in Index :
        Held(c, j)' => Held(c, j) /\ value'[c][j] = value[c][j]
  BY <1>1, <1>3 DEF Held
<1>5. ASSUME NEW c \in Obj, status'[c] = "dying"
      PROVE  \E k \in 1 .. Len(stack') : stack'[k] = c
  <2>1. c # t /\ status[c] = "dying" BY <1>3, <1>5
  <2>2. PICK k \in 1 .. n : stack[k] = c BY <1>0, <2>1 DEF DyingStacked
  <2>3. k \in 1 .. n - 1 BY <1>2, <2>1, <2>2
  <2> QED BY <1>2, <2>2, <2>3
<1> QED BY <1>4, <1>5, FewerHeld DEF DyingStacked

(* An item stored at the end is the one reference more. *)
LEMMA PutLastGrows ==
    ASSUME IInv, NEW c \in Obj, NEW o \in Obj, count[c] < MaxItems,
           PutLast(c, o), UNCHANGED <<status, cursor, pend>>
    PROVE  Grows(c, o)
<1>1. count[c] \in Nat /\ count[c] + 1 \in Index
  <2>1. count[c] \in 0 .. MaxItems BY DEF IInv, TypeOK
  <2> QED BY <2>1, BoundAssumption DEF Index
<1>2. \A x \in Obj, j \in Index :
        /\ value'[x][j] = IF x = c /\ j = count[c] + 1 THEN o ELSE value[x][j]
        /\ count'[x] = IF x = c THEN count[c] + 1 ELSE count[x]
  BY <1>1 DEF PutLast, IInv, TypeOK
<1>3. \A j \in Index : j <= count[c] + 1 => j <= count[c] \/ j = count[c] + 1
  BY <1>1 DEF Index
<1>4. ASSUME NEW x \in Obj, NEW y \in Obj, NEW j \in Index,
             Held(x, j)', value'[x][j] = y
      PROVE  (Held(x, j) /\ value[x][j] = y) \/ (x = c /\ y = o)
  <2>1. CASE x = c /\ j = count[c] + 1 BY <1>2, <1>4, <2>1
  <2>2. CASE ~(x = c /\ j = count[c] + 1)
    <3>1. value[x][j] = y BY <1>2, <1>4, <2>2
    <3>2. j <= count[x] BY <1>2, <1>3, <1>4, <2>2 DEF Held
    <3> QED BY <1>4, <3>1, <3>2, <1>2, <2>2 DEF Held
  <2> QED BY <2>1, <2>2
<1> QED BY <1>4 DEF Grows, Edge

LEMMA LeakShrinks ==
    ASSUME IInv, IInv', LeakInv, Shrinks, DyingStacked',
           \/ pend' = pend \/ pend'.map = NoObj
           \/ \E v \in Obj : pend'.val = v /\ pend'.map \notin Reachable({v})
    PROVE  LeakInv'
<1>1. /\ Acyclic'
      /\ \A v \in Obj : Reachable({v})' \subseteq Reachable({v})
  BY EdgesShrink DEF IInv, LeakInv, Shrinks
<1>2. ASSUME NEW v \in Obj, pend'.map # NoObj, pend'.val = v
      PROVE  pend'.map \notin Reachable({v})'
  <2>1. pend'.map \notin Reachable({v}) BY <1>2 DEF LeakInv, PendApart
  <2> QED BY <1>1, <2>1
<1> QED BY <1>1, <1>2 DEF LeakInv, PendApart

LEMMA LeakGrows ==
    ASSUME IInv, LeakInv, DyingStacked', pend'.map = NoObj,
           NEW c, NEW o, Grows(c, o), c \notin Reachable({o})
    PROVE  LeakInv'
<1>1. Acyclic' BY EdgeGrows DEF Grows, IInv, LeakInv
<1> QED BY <1>1 DEF LeakInv, PendApart

(* What the caller may put in a container does not lead back to it. *)
LEMMA LeakKept ==
    ASSUME ~AllowCycles, IInv, LeakInv, [Next]_vars
    PROVE  LeakInv'
<1>0. IInv' /\ DyingStacked BY StepKeeps DEF LeakInv
<1>1. ASSUME UNCHANGED <<status, count, value, cursor, stack, pend>>
      PROVE  LeakInv'
  <2>1. Shrinks BY <1>1, FewerHeld DEF Held
  <2>2. DyingStacked' BY <1>0, <1>1 DEF DyingStacked
  <2> QED BY <1>0, <1>1, <2>1, <2>2, LeakShrinks
<1>2. ASSUME NEW h \in Handle, NEW t \in Kind, Create(h, t) PROVE LeakInv'
  <2>1. PICK n \in Obj : /\ status[n] = "free"
                         /\ status' = [status EXCEPT ![n] = "live"]
    BY <1>2 DEF Create
  <2>2. UNCHANGED <<count, value, cursor, stack, pend>> BY <1>2 DEF Create
  <2>3. \A c \in Obj : /\ c # n => status'[c] = status[c]
                       /\ status'[n] = "live"
    BY <2>1 DEF IInv, TypeOK
  <2>4. count[n] = 0 BY <2>1 DEF IInv, CursorsRight
  <2>5. \A c \in Obj, i \in Index :
          Held(c, i)' => Held(c, i) /\ value'[c][i] = value[c][i]
    BY <2>2, <2>3, <2>4 DEF Held, Index
  <2>6. DyingStacked' BY <1>0, <2>2, <2>3 DEF DyingStacked
  <2> QED BY <1>0, <2>2, <2>5, <2>6, FewerHeld, LeakShrinks
<1>3. ASSUME NEW h \in Handle, Release(h) PROVE LeakInv'
  <2>1. PICK n : n = handle[h] OBVIOUS
  <2>2. n \in Obj /\ status[n] = "live" /\ Drop(n)
        /\ UNCHANGED <<count, value, cursor, pend>>
    BY <1>3, <2>1, HandleIsLive DEF Release, heapVars
  <2>3. /\ DyingStacked'
        /\ \A c \in Obj : status'[c] # "free" => status[c] # "free"
    BY <1>0, <2>2, DropStacks
  <2>4. \A c \in Obj, i \in Index :
          Held(c, i)' => Held(c, i) /\ value'[c][i] = value[c][i]
    BY <2>2, <2>3 DEF Held
  <2> QED BY <1>0, <2>2, <2>3, <2>4, FewerHeld, LeakShrinks
<1>4. CASE ReleaseItem
  <2>1. pend' = pend BY <1>4 DEF ReleaseItem
  <2> QED BY <1>0, <1>4, <2>1, ReleaseItemShrinks, LeakShrinks
<1>5. CASE Free
  <2>1. pend' = pend BY <1>5 DEF Free
  <2> QED BY <1>0, <1>5, <2>1, FreeShrinks, LeakShrinks
<1>6. ASSUME NEW h \in Handle, NEW g \in Handle, NEW k \in Key,
             MapInsert(h, k, g)
      PROVE  LeakInv'
  <2>1. PICK c, o : c = handle[h] /\ o = handle[g] OBVIOUS
  <2>2. c \in Obj /\ o \in Obj
    BY <1>6, <2>1, HandleIsLive DEF MapInsert
  <2>3. /\ count[c] < MaxItems /\ PutLast(c, o) /\ MayHold(c, o)
        /\ UNCHANGED <<status, cursor, stack, pend>> /\ pend.map = NoObj
    BY <1>6, <2>1 DEF MapInsert, Idle
  <2>4. c \notin Reachable({o}) BY <2>3 DEF MayHold
  <2>5. DyingStacked' BY <1>0, <2>3 DEF DyingStacked
  <2>6. pend'.map = NoObj BY <2>3
  <2> QED BY <2>2, <2>3, <2>4, <2>5, <2>6, PutLastGrows, LeakGrows
<1>7. ASSUME NEW h \in Handle, NEW g \in Handle, NEW k \in Key,
             MapReplace(h, k, g)
      PROVE  LeakInv'
  <2>1. PICK c, v : c = handle[h] /\ v = handle[g] OBVIOUS
  <2>2. c \in Obj /\ status[c] = "live" /\ v \in Obj
    BY <1>7, <2>1, HandleIsLive DEF MapReplace
  <2>3. PICK i \in Index : /\ i <= count[c] /\ Drop(value[c][i])
                           /\ pend' = [map |-> c, idx |-> i, val |-> v]
    BY <1>7, <2>1 DEF MapReplace, FirstMatch
  <2>4. /\ stack = <<>> /\ pend.map = NoObj
        /\ UNCHANGED <<count, value, cursor>> /\ MayHold(c, v)
    BY <1>7, <2>1 DEF MapReplace, Idle, heapVars
  <2>5. PICK n : n = value[c][i] OBVIOUS
  <2>6. n \in Obj \cup {NoObj} BY <2>2, <2>5 DEF IInv, TypeOK
  <2>7. n # NoObj => status[n] = "live"
    <3>1. cursor[c] = 1 /\ 1 <= i BY <2>2 DEF IInv, CursorsRight, Index
    <3>2. n # NoObj => Held(c, i)
      BY <2>2, <2>3, <2>4, <2>5, <3>1, ObjAssumption DEF Held
    <3> QED BY <2>2, <2>5, <3>2, SlotIsLive
  <2>8. /\ DyingStacked'
        /\ \A b \in Obj : status'[b] # "free" => status[b] # "free"
    BY <1>0, <2>3, <2>5, <2>6, <2>7, DropStacks
  <2>9. \A b \in Obj, j \in Index :
          Held(b, j)' => Held(b, j) /\ value'[b][j] = value[b][j]
    <3>1. \A b \in Obj : pend.map # b BY <2>4, ObjAssumption
    <3> QED BY <2>4, <2>8, <3>1 DEF Held
  <2>10. pend'.val = v /\ pend'.map = c BY <2>3
  <2>11. c \notin Reachable({v}) BY <2>4 DEF MayHold
  <2> QED BY <1>0, <2>2, <2>8, <2>9, <2>10, <2>11, FewerHeld, LeakShrinks
<1>8. CASE MapReplaced
  <2>1. PICK c, i, n : c = pend.map /\ i = pend.idx /\ n = pend.val OBVIOUS
  <2>2. /\ c # NoObj /\ value' = [value EXCEPT ![c][i] = n]
        /\ pend' = NoPend /\ UNCHANGED <<status, count, stack, cursor>>
    BY <1>8, <2>1 DEF MapReplaced
  <2>3. c \in Obj /\ n \in Obj BY <2>1, <2>2, PendIsLive
  <2>4. c \notin Reachable({n})
    BY <2>1, <2>2, <2>3 DEF LeakInv, PendApart
  <2>5. \A x \in Obj, j \in Index :
          IF x = c /\ j = i THEN value'[x][j] = n
          ELSE value'[x][j] = value[x][j] /\ (Held(x, j)' => Held(x, j))
    <3>1. \A x \in Obj, j \in Index :
            value'[x][j] = IF x = c /\ j = i THEN n ELSE value[x][j]
      BY <2>2, <2>3 DEF IInv, TypeOK
    <3> QED BY <2>1, <2>2, <3>1 DEF Held
  <2>6. Grows(c, n) BY <2>3, <2>5 DEF Grows, Edge
  <2>7. DyingStacked' /\ pend'.map = NoObj
    BY <1>0, <2>2 DEF DyingStacked, NoPend
  <2> QED BY <2>4, <2>6, <2>7, LeakGrows
<1>9. ASSUME NEW g \in Handle, NEW h \in Handle,
             \/ Retain(g, h)
             \/ \E i \in Index : RetainItem(g, h, i)
             \/ \E k \in Key : MapInsertNoKey(h, k) \/ MapInsertHalfGrown(h, k)
      PROVE  UNCHANGED <<status, count, value, cursor, stack, pend>>
  BY <1>9 DEF Retain, RetainItem, Keep, MapInsertNoKey, MapInsertHalfGrown,
              heapVars
<1>10. ASSUME NEW h \in Handle, NEW g \in Handle, ArrayAppend(h, g)
       PROVE  LeakInv'
  <2>1. PICK c, o : c = handle[h] /\ o = handle[g] OBVIOUS
  <2>2. c \in Obj /\ o \in Obj
    BY <1>10, <2>1, HandleIsLive DEF ArrayAppend
  <2>3. /\ count[c] < MaxItems /\ PutLast(c, o) /\ MayHold(c, o)
        /\ UNCHANGED <<status, cursor, stack, pend>> /\ pend.map = NoObj
    BY <1>10, <2>1 DEF ArrayAppend, Idle
  <2>4. c \notin Reachable({o}) BY <2>3 DEF MayHold
  <2>5. DyingStacked' BY <1>0, <2>3 DEF DyingStacked
  <2>6. pend'.map = NoObj BY <2>3
  <2> QED BY <2>2, <2>3, <2>4, <2>5, <2>6, PutLastGrows, LeakGrows
<1>11. CASE UNCHANGED vars BY <1>1, <1>11 DEF vars
<1> QED BY <1>1, <1>2, <1>3, <1>4, <1>5, <1>6, <1>7, <1>8, <1>9, <1>10,
           <1>11 DEF Next

(* A container never has more items than room, and a map no key twice, but  *)
(* for keys that are NULL.                                                  *)
THEOREM ContainersFit == Spec => []WellFormed
<1>1. Init => WellFormed BY DEF Init, WellFormed
<1> QED BY <1>1, WellFormedKept, HeapInvariant, PTL DEF Spec

(* Where no container is put below itself, what is not freed can be reached *)
(* from the caller's handles whenever no call runs: nothing leaks.          *)
LEMMA LeakFreeInit == Init => LeakInv
<1> SUFFICES ASSUME Init PROVE LeakInv
  OBVIOUS
<1>1. \A c, o \in Obj : ~Edge(c, o) BY ObjAssumption DEF Init, Held, Edge
<1>2. Acyclic BY <1>1 DEF Acyclic
<1> QED BY <1>2 DEF Init, LeakInv, DyingStacked, PendApart, NoPend

THEOREM NothingLeaks == ASSUME ~AllowCycles PROVE Spec => []NoLeak
<1>1. IInv /\ LeakInv /\ [Next]_vars => LeakInv' BY LeakKept
<1> QED BY <1>1, LeakFreeInit, AcyclicReclaims, HeapInvariant, PTL DEF Spec
=============================================================================
