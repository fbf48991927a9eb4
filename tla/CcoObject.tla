------------------------------ MODULE CcoObject ------------------------------
(***************************************************************************)
(* The object heap of libcco (internal/object.c): objects that carry a     *)
(* non-atomic reference count, arrays and maps that own one reference to   *)
(* every item, and a release that destroys a tree recursively.             *)
(*                                                                         *)
(* One thread runs library calls.  A call is one step, except where the    *)
(* code recurses: a release is a stack of frames, one step per item it     *)
(* visits, and the replacement of a map entry stores the new value only    *)
(* once the release of the old one has returned.  A call whose allocation  *)
(* fails and that leaves the heap as it was is a stuttering step.          *)
(*                                                                         *)
(* Template instances keep their fields in a map and are destroyed the way *)
(* a map is: they are of kind "map" here.                                  *)
(***************************************************************************)
EXTENDS Integers, Sequences, FiniteSets

CONSTANTS
    Obj,          \* addresses calloc may return; a freed one may return again
    NoObj,        \* NULL
    Handle,       \* pointer variables of the caller, each owning a reference
    Key, NoKey,   \* map keys
    InitCap,      \* first capacity of a container, 8 in the code
    MaxItems,     \* bound on the items of one container
    AllowCycles,  \* whether the caller may put a container inside itself
    PartialGrow   \* whether one of a map's two reallocs may fail alone

ASSUME ObjAssumption == IsFiniteSet(Obj) /\ NoObj \notin Obj
ASSUME HandleAssumption == IsFiniteSet(Handle)
ASSUME KeyAssumption == NoKey \notin Key
ASSUME BoundAssumption == InitCap \in Nat \ {0} /\ MaxItems \in Nat \ {0}
ASSUME ModeAssumption == AllowCycles \in BOOLEAN /\ PartialGrow \in BOOLEAN

VARIABLES
    status,    \* "free" memory, "live", or "dying": its release is running
    kind,      \* the object's type
    rc,        \* refcount
    count,     \* array.count or map.count
    capacity,  \* array.capacity or map.capacity
    value,     \* array.items or map.values; an item may be NULL
    key,       \* map.keys; a key may be NULL
    torn,      \* a failed growth freed one of the map's two arrays
    cursor,    \* the index the object's release visits next, 1 before it runs
    stack,     \* the releases in progress, innermost last
    pend,      \* the entry cco_map_insert is replacing, its value not stored yet
    handle     \* what the caller's variables point to

heapVars == <<kind, count, capacity, value, key, torn>>
vars == <<status, kind, rc, count, capacity, value, key, torn, cursor, stack,
          pend, handle>>

Index == 1 .. MaxItems
Kind == {"scalar", "array", "map"}
NoPend == [map |-> NoObj, idx |-> 0, val |-> NoObj]

TypeOK ==
    /\ status \in [Obj -> {"free", "live", "dying"}]
    /\ kind \in [Obj -> Kind]
    /\ rc \in [Obj -> Nat]
    /\ count \in [Obj -> 0 .. MaxItems]
    /\ capacity \in [Obj -> Nat]
    /\ value \in [Obj -> [Index -> Obj \cup {NoObj}]]
    /\ key \in [Obj -> [Index -> Key \cup {NoKey}]]
    /\ torn \in [Obj -> BOOLEAN]
    /\ cursor \in [Obj -> 1 .. MaxItems + 1]
    /\ stack \in Seq(Obj)
    /\ pend \in [map : Obj \cup {NoObj}, idx : 0 .. MaxItems,
                 val : Obj \cup {NoObj}]
    /\ handle \in [Handle -> Obj \cup {NoObj}]

-----------------------------------------------------------------------------
(* The references the program holds, and what can be reached by them.      *)

(* The slot <<c, i>> holds a reference: its container has not been freed,  *)
(* its release has not passed the slot, no replacement has released it and *)
(* it is not one of the NULLs a clone stores when it runs out of memory.   *)
Held(c, i) ==
    /\ status[c] # "free"
    /\ value[c][i] # NoObj
    /\ cursor[c] <= i /\ i <= count[c]
    /\ ~(pend.map = c /\ pend.idx = i)

HandleRefs(o) == {h \in Handle : handle[h] = o}
ItemRefs(o) == {p \in Obj \X Index : Held(p[1], p[2]) /\ value[p[1]][p[2]] = o}

Closed(T) == \A c \in T : \A i \in Index : Held(c, i) => value[c][i] \in T
Reachable(S) ==
    {o \in Obj : \A T \in SUBSET Obj : S \subseteq T /\ Closed(T) => o \in T}
HeldByCaller == {handle[h] : h \in Handle} \ {NoObj}

-----------------------------------------------------------------------------
Init ==
    /\ status = [o \in Obj |-> "free"]
    /\ kind = [o \in Obj |-> "scalar"]
    /\ rc = [o \in Obj |-> 0]
    /\ count = [o \in Obj |-> 0]
    /\ capacity = [o \in Obj |-> 0]
    /\ value = [o \in Obj |-> [i \in Index |-> NoObj]]
    /\ key = [o \in Obj |-> [i \in Index |-> NoKey]]
    /\ torn = [o \in Obj |-> FALSE]
    /\ cursor = [o \in Obj |-> 1]
    /\ stack = <<>>
    /\ pend = NoPend
    /\ handle = [h \in Handle |-> NoObj]

(* No library call is running: the caller may make the next one. *)
Idle == stack = <<>> /\ pend.map = NoObj

(* cco_object_create, its result kept in h. *)
Create(h, t) ==
    /\ Idle
    /\ handle[h] = NoObj
    /\ \E o \in Obj :
        /\ status[o] = "free"
        /\ status' = [status EXCEPT ![o] = "live"]
        /\ kind' = [kind EXCEPT ![o] = t]
        /\ rc' = [rc EXCEPT ![o] = 1]
        /\ handle' = [handle EXCEPT ![h] = o]
    /\ UNCHANGED <<count, capacity, value, key, torn, cursor, stack, pend>>

(* Mutant: the copy is not counted. *)
Retain_uncounted(g, h) ==
    /\ Idle
    /\ handle[g] # NoObj /\ handle[h] = NoObj
    /\ handle' = [handle EXCEPT ![h] = handle[g]]
    /\ UNCHANGED <<status, rc, heapVars, cursor, stack, pend>>

(* The caller keeps a pointer to o in h and retains it. *)
Keep(o, h) ==
    /\ handle[h] = NoObj
    /\ rc' = [rc EXCEPT ![o] = @ + 1]
    /\ handle' = [handle EXCEPT ![h] = o]
    /\ UNCHANGED <<status, heapVars, cursor, stack, pend>>

(* cco_object_retain of what another handle points to. *)
Retain(g, h) ==
    /\ Idle
    /\ handle[g] # NoObj
    /\ Keep(handle[g], h)

(* A getter returns a pointer to an item it does not retain; a caller that *)
(* wants to keep the item retains it.                                      *)
RetainItem(g, h, i) ==
    /\ Idle
    /\ handle[g] # NoObj /\ ~torn[handle[g]]
    /\ i <= count[handle[g]]
    /\ value[handle[g]][i] # NoObj
    /\ Keep(value[handle[g]][i], h)

(* What a call of cco_object_release(o) does before its loop over the items. *)
Drop(o) ==
    IF o = NoObj
    THEN UNCHANGED <<rc, status, stack>>
    ELSE /\ rc' = [rc EXCEPT ![o] = IF @ > 0 THEN @ - 1 ELSE @]
         /\ IF rc[o] <= 1
              THEN /\ status' = [status EXCEPT ![o] = "dying"]
                   /\ stack' = Append(stack, o)
              ELSE UNCHANGED <<status, stack>>

(* The caller gives up the reference in h. *)
Release(h) ==
    /\ Idle
    /\ handle[h] # NoObj
    /\ Drop(handle[h])
    /\ handle' = [handle EXCEPT ![h] = NoObj]
    /\ UNCHANGED <<heapVars, cursor, pend>>

Top == stack[Len(stack)]

(* Mutant: the loop index is not advanced. *)
ReleaseItem_same ==
    /\ stack # <<>> /\ ~torn[Top]
    /\ cursor[Top] <= count[Top]
    /\ Drop(value[Top][cursor[Top]])
    /\ UNCHANGED <<heapVars, cursor, pend, handle>>

(* Mutant: the loop stops one item short. *)
ReleaseItem_short ==
    /\ stack # <<>> /\ ~torn[Top]
    /\ cursor[Top] <= count[Top]
    /\ cursor' = [cursor EXCEPT ![Top] = @ + 1]
    /\ IF cursor[Top] = count[Top]
         THEN UNCHANGED <<status, rc, stack>>
         ELSE Drop(value[Top][cursor[Top]])
    /\ UNCHANGED <<heapVars, pend, handle>>

(* The innermost release calls itself on the next item...  Behaviour is    *)
(* undefined from where it reads an array that was freed, and ends there.  *)
ReleaseItem ==
    /\ stack # <<>> /\ ~torn[Top]
    /\ cursor[Top] <= count[Top]
    /\ Drop(value[Top][cursor[Top]])
    /\ cursor' = [cursor EXCEPT ![Top] = @ + 1]
    /\ UNCHANGED <<heapVars, pend, handle>>

(* ... or frees the object, whose memory is cleared when it is allocated   *)
(* again, and returns to its caller.                                       *)
Free ==
    /\ stack # <<>> /\ ~torn[Top]
    /\ cursor[Top] > count[Top]
    /\ status' = [status EXCEPT ![Top] = "free"]
    /\ kind' = [kind EXCEPT ![Top] = "scalar"]
    /\ count' = [count EXCEPT ![Top] = 0]
    /\ capacity' = [capacity EXCEPT ![Top] = 0]
    /\ value' = [value EXCEPT ![Top] = [i \in Index |-> NoObj]]
    /\ key' = [key EXCEPT ![Top] = [i \in Index |-> NoKey]]
    /\ torn' = [torn EXCEPT ![Top] = FALSE]
    /\ cursor' = [cursor EXCEPT ![Top] = 1]
    /\ stack' = SubSeq(stack, 1, Len(stack) - 1)
    /\ UNCHANGED <<rc, pend, handle>>

-----------------------------------------------------------------------------
(* Mutant: the arrays grow one item late. *)
Full_late(c) == count[c] > capacity[c]

Full(c) == count[c] >= capacity[c]
Grown(c) == IF ~Full(c) THEN capacity[c]
            ELSE IF capacity[c] = 0 THEN InitCap ELSE 2 * capacity[c]

(* The discipline that keeps the heap a forest: no caller in the library   *)
(* puts a container below itself.                                          *)
MayHold(c, o) == AllowCycles \/ c \notin Reachable({o})

(* Mutant: the container does not retain its item. *)
PutLast_unretained(c, o) ==
    /\ value' = [value EXCEPT ![c][count[c] + 1] = o]
    /\ count' = [count EXCEPT ![c] = @ + 1]
    /\ capacity' = [capacity EXCEPT ![c] = Grown(c)]
    /\ UNCHANGED rc

(* The store both cco_array_append and cco_map_insert end with. *)
PutLast(c, o) ==
    /\ value' = [value EXCEPT ![c][count[c] + 1] = o]
    /\ count' = [count EXCEPT ![c] = @ + 1]
    /\ capacity' = [capacity EXCEPT ![c] = Grown(c)]
    /\ rc' = [rc EXCEPT ![o] = @ + 1]

(* cco_array_append *)
ArrayAppend(h, g) ==
    LET arr == handle[h]
        item == handle[g]
    IN  /\ Idle
        /\ arr # NoObj /\ item # NoObj
        /\ kind[arr] = "array"
        /\ count[arr] < MaxItems
        /\ MayHold(arr, item)
        /\ PutLast(arr, item)
        /\ UNCHANGED <<status, kind, key, torn, cursor, stack, pend, handle>>

(* The search compares k with one key after the other.  Behaviour is       *)
(* undefined where it comes to a key that is NULL (a clone may have such   *)
(* keys), and ends there.                                                  *)
FirstMatch(map, i, k) ==
    /\ i <= count[map] /\ key[map][i] = k
    /\ \A j \in Index : j < i => key[map][j] \notin {k, NoKey}

Missing(map, k) ==
    \A i \in Index : i <= count[map] => key[map][i] \notin {k, NoKey}

(* cco_map_insert of a key the map has: the old value is released, and the *)
(* new one is stored and retained after that release has returned.         *)
MapReplace(h, k, g) ==
    LET map == handle[h]
        val == handle[g]
    IN  /\ Idle
        /\ map # NoObj /\ val # NoObj
        /\ kind[map] = "map" /\ ~torn[map]
        /\ MayHold(map, val)
        /\ \E i \in Index :
             /\ FirstMatch(map, i, k)
             /\ Drop(value[map][i])
             /\ pend' = [map |-> map, idx |-> i, val |-> val]
        /\ UNCHANGED <<heapVars, cursor, handle>>

(* Mutant: the new value is stored and not retained. *)
MapReplaced_unretained ==
    /\ stack = <<>> /\ pend.map # NoObj
    /\ value' = [value EXCEPT ![pend.map][pend.idx] = pend.val]
    /\ pend' = NoPend
    /\ UNCHANGED <<status, rc, kind, count, capacity, key, torn, cursor,
                   stack, handle>>

MapReplaced ==
    /\ stack = <<>> /\ pend.map # NoObj
    /\ value' = [value EXCEPT ![pend.map][pend.idx] = pend.val]
    /\ rc' = [rc EXCEPT ![pend.val] = @ + 1]
    /\ pend' = NoPend
    /\ UNCHANGED <<status, kind, count, capacity, key, torn, cursor, stack,
                   handle>>

(* cco_map_insert of a new key. *)
MapInsert(h, k, g) ==
    LET map == handle[h]
        val == handle[g]
    IN  /\ Idle
        /\ map # NoObj /\ val # NoObj
        /\ kind[map] = "map" /\ ~torn[map]
        /\ count[map] < MaxItems
        /\ MayHold(map, val)
        /\ Missing(map, k)
        /\ PutLast(map, val)
        /\ key' = [key EXCEPT ![map][count[map] + 1] = k]
        /\ UNCHANGED <<status, kind, torn, cursor, stack, pend, handle>>

(* Mutant: the failure takes back a count that was not yet made. *)
MapInsertNoKey_undone(h, k) ==
    LET map == handle[h]
    IN  /\ Idle
        /\ map # NoObj
        /\ kind[map] = "map" /\ ~torn[map]
        /\ Missing(map, k) /\ Full(map)
        /\ capacity' = [capacity EXCEPT ![map] = Grown(map)]
        /\ count' = [count EXCEPT ![map] = @ - 1]
        /\ UNCHANGED <<status, kind, rc, value, key, torn, cursor,
                       stack, pend, handle>>

(* The growth succeeds and the copy of the key does not: CCO_ERR_NO_MEMORY *)
(* with the larger arrays in place.                                        *)
MapInsertNoKey(h, k) ==
    LET map == handle[h]
    IN  /\ Idle
        /\ map # NoObj
        /\ kind[map] = "map" /\ ~torn[map]
        /\ Missing(map, k) /\ Full(map)
        /\ capacity' = [capacity EXCEPT ![map] = Grown(map)]
        /\ UNCHANGED <<status, kind, rc, count, value, key, torn, cursor,
                       stack, pend, handle>>

(* One realloc of the pair moves its array and the other fails: the map    *)
(* keeps the pointer to the array that was freed.  Of a first pair, which   *)
(* frees nothing, the map keeps no trace: that failure changes nothing.     *)
MapInsertHalfGrown(h, k) ==
    LET map == handle[h]
    IN  /\ Idle
        /\ PartialGrow
        /\ map # NoObj
        /\ kind[map] = "map" /\ ~torn[map]
        /\ Missing(map, k) /\ Full(map) /\ capacity[map] > 0
        /\ torn' = [torn EXCEPT ![map] = TRUE]
        /\ UNCHANGED <<status, kind, rc, count, capacity, value, key, cursor,
                       stack, pend, handle>>

-----------------------------------------------------------------------------
Next ==
    \/ \E h \in Handle, t \in Kind : Create(h, t)
    \/ \E g, h \in Handle : Retain(g, h)
    \/ \E g, h \in Handle, i \in Index : RetainItem(g, h, i)
    \/ \E h \in Handle : Release(h)
    \/ ReleaseItem
    \/ Free
    \/ \E h, g \in Handle : ArrayAppend(h, g)
    \/ \E h, g \in Handle, k \in Key : MapReplace(h, k, g)
    \/ MapReplaced
    \/ \E h, g \in Handle, k \in Key : MapInsert(h, k, g)
    \/ \E h \in Handle, k \in Key : MapInsertNoKey(h, k)
    \/ \E h \in Handle, k \in Key : MapInsertHalfGrown(h, k)

Spec == Init /\ [][Next]_vars

(* A call that has begun runs on: nothing else can happen on its thread. *)
FairSpec == Spec /\ WF_vars(ReleaseItem \/ Free \/ MapReplaced)

-----------------------------------------------------------------------------
(* Properties                                                              *)

(* The count of an object is the number of references to it, at every step *)
(* of a recursive release and of a replacement: no call forgets a retain   *)
(* or a release.                                                           *)
RefCountExact ==
    \A o \in Obj : rc[o] = Cardinality(HandleRefs(o)) + Cardinality(ItemRefs(o))

(* No reference leads to memory that was freed or is being destroyed, and  *)
(* no object's destruction is entered twice: neither a use after free nor  *)
(* a double free, whatever is shared between containers.                   *)
NoDangling ==
    /\ \A h \in Handle : handle[h] # NoObj => status[handle[h]] = "live"
    /\ \A c \in Obj, i \in Index :
         Held(c, i) => status[value[c][i]] = "live"
    /\ \A i \in 1 .. Len(stack) : status[stack[i]] = "dying"
    /\ \A i, j \in 1 .. Len(stack) : stack[i] = stack[j] => i = j

(* The map and the new value survive the release of the value they replace.*)
ReplaceSafe ==
    pend.map # NoObj => status[pend.map] = "live" /\ status[pend.val] = "live"

(* When no call is running, what is not freed can be reached from a handle *)
(* of the caller: releasing the last handle of a tree reclaims all of it.  *)
NoLeak ==
    Idle => \A o \in Obj : status[o] # "free" => o \in Reachable(HeldByCaller)

(* A container never holds more than it has room for, and a map never has  *)
(* two entries of one key, but those whose key could not be copied.        *)
WellFormed ==
    \A c \in Obj :
        /\ count[c] <= capacity[c]
        /\ kind[c] = "map" =>
             \A i, j \in 1 .. count[c] :
               key[c][i] = key[c][j] => i = j \/ key[c][i] = NoKey

(* A release ends, whatever is shared or cyclic below the object, unless it *)
(* comes to read a freed array.                                            *)
ReleaseEnds == stack # <<>> ~> (stack = <<>> \/ torn[Top])

(* A container's arrays are never freed under it. *)
ArraysOwned == \A c \in Obj : status[c] # "free" => ~torn[c]

=============================================================================
