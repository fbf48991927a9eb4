------------------------------ MODULE CcoClone ------------------------------
(***************************************************************************)
(* cco_object_clone and cco_object_equals on the object heap.              *)
(*                                                                         *)
(* A clone is a stack of frames, one per container it is inside of, and a  *)
(* step per item.  The caller has the copy in h from the start: nobody     *)
(* reads it before the call returns.  The clone of an item that finds no   *)
(* memory returns NULL and the copy keeps the NULL, and so it is with the  *)
(* copy of a key.  The arrays and the text of a copy are written to without *)
(* a look at what malloc returned: where it is NULL the behaviour is       *)
(* undefined and ends.                                                     *)
(***************************************************************************)
EXTENDS CcoObject

VARIABLES
    frames,  \* the calls of cco_object_clone in progress, innermost last
    lost     \* an item or a key of the copy could not be allocated

cloneVars == <<frames, lost>>
allVars == <<vars, frames, lost>>

Ref == Obj \cup {NoObj}

CloneTypeOK ==
    /\ TypeOK
    /\ frames \in Seq([src : Obj, dst : Obj, next : 1 .. MaxItems + 1])
    /\ lost \in BOOLEAN

CloneInit == Init /\ frames = <<>> /\ lost = FALSE

Frame == frames[Len(frames)]
Child == value[Frame.src][Frame.next]
Advanced == [frames EXCEPT ![Len(frames)].next = @ + 1]
Enter(s, d) == [src |-> s, dst |-> d, next |-> 1]

Empty == [i \in Index |-> NoObj]

(* A new object d in place of s: all of s but the items, and but the keys   *)
(* that no memory was found for, which are NULL.                           *)
Copy(s, d) ==
    /\ status[d] = "free" /\ ~torn[s]
    /\ status' = [status EXCEPT ![d] = "live"]
    /\ rc' = [rc EXCEPT ![d] = 1]
    /\ kind' = [kind EXCEPT ![d] = kind[s]]
    /\ count' = [count EXCEPT ![d] = count[s]]
    /\ capacity' = [capacity EXCEPT ![d] = capacity[s]]
    /\ \E gone \in SUBSET {i \in Index : i <= count[s] /\ kind[s] = "map"} :
         key' = [key EXCEPT ![d] = [i \in Index |-> IF i \in gone THEN NoKey
                                                    ELSE key[s][i]]]
    /\ lost' = (lost \/ key'[d] # key[s])
    /\ UNCHANGED <<torn, cursor, stack, pend>>

(* cco_object_clone of what g points to, its result kept in h. *)
Clone(g, h) ==
    /\ Idle /\ frames = <<>>
    /\ handle[g] # NoObj /\ handle[h] = NoObj
    /\ \E d \in Obj :
         /\ Copy(handle[g], d)
         /\ value' = [value EXCEPT ![d] = Empty]
         /\ handle' = [handle EXCEPT ![h] = d]
         /\ frames' = <<Enter(handle[g], d)>>

(* Mutant: the copy shares the item. *)
CloneItem_shared ==
    /\ frames # <<>> /\ Frame.next <= count[Frame.src]
    /\ Child # NoObj
    /\ value' = [value EXCEPT ![Frame.dst][Frame.next] = Child]
    /\ rc' = [rc EXCEPT ![Child] = @ + 1]
    /\ frames' = Advanced
    /\ UNCHANGED <<status, kind, count, capacity, key, torn, cursor, stack,
                   pend, handle, lost>>

(* Mutant: the copy of an item is stored in the first place. *)
CloneItem_first ==
    /\ frames # <<>> /\ Frame.next <= count[Frame.src]
    /\ Child # NoObj
    /\ \E d \in Obj :
         /\ Copy(Child, d)
         /\ value' = [value EXCEPT ![d] = Empty, ![Frame.dst][1] = d]
         /\ frames' = Append(Advanced, Enter(Child, d))
    /\ UNCHANGED handle

(* The clone calls itself for the next item... *)
CloneItem ==
    /\ frames # <<>> /\ Frame.next <= count[Frame.src]
    /\ Child # NoObj
    /\ \E d \in Obj :
         /\ Copy(Child, d)
         /\ value' = [value EXCEPT ![d] = Empty, ![Frame.dst][Frame.next] = d]
         /\ frames' = Append(Advanced, Enter(Child, d))
    /\ UNCHANGED handle

(* ... which may be NULL, or its copy may find no memory ... *)
CloneNothing ==
    /\ frames # <<>> /\ Frame.next <= count[Frame.src]
    /\ frames' = Advanced
    /\ lost' = (lost \/ Child # NoObj)
    /\ UNCHANGED vars

(* ... and returns the copy when it has been through all of them. *)
CloneDone == frames # <<>> /\ Frame.next > count[Frame.src]
CloneReturn ==
    /\ CloneDone
    /\ frames' = SubSeq(frames, 1, Len(frames) - 1)
    /\ lost' = (lost /\ Len(frames) > 1)
    /\ UNCHANGED vars

CloneNext ==
    \/ \E g, h \in Handle : Clone(g, h)
    \/ CloneItem
    \/ CloneNothing
    \/ CloneReturn
    \/ frames = <<>> /\ Next /\ UNCHANGED cloneVars

CloneSpec == CloneInit /\ [][CloneNext]_allVars

-----------------------------------------------------------------------------
(* Mutant: the loop over the items stops one short. *)
Compared_short(a) == 1 .. count[a] - 1
Compared(a) == 1 .. count[a]

(* What cco_object_equals looks at of two objects before it goes below. *)
SameShape(a, b) ==
    /\ a # NoObj /\ b # NoObj
    /\ kind[a] = kind[b] /\ count[a] = count[b]
SameNode(a, b) ==
    /\ SameShape(a, b)
    /\ kind[a] = "map" => \A i \in Compared(a) : key[a][i] = key[b][i]

(* A key of it is NULL: to compare it is undefined. *)
Keyless(o) ==
    kind[o] = "map" /\ \E i \in Index : i <= count[o] /\ key[o][i] = NoKey

(* The pairs cco_object_equals takes for equal when it goes n levels deep. *)
EqualsTo[n \in Nat] ==
    {p \in Ref \X Ref :
        \/ p[1] = p[2]
        \/ /\ SameNode(p[1], p[2])
           /\ n > 0 \/ count[p[1]] = 0
           /\ \A i \in Compared(p[1]) :
                <<value[p[1]][i], value[p[2]][i]>> \in EqualsTo[n - 1]}
Equals(a, b) == <<a, b>> \in EqualsTo[Cardinality(Obj)]

(* The pairs where the second is the first with some of the items and keys  *)
(* below it, down to n levels, left out.                                    *)
PrunedTo[n \in Nat] ==
    {p \in Ref \X Ref :
        \/ p[2] = NoObj
        \/ /\ SameShape(p[1], p[2])
           /\ \A i \in Index : key[p[2]][i] \in {key[p[1]][i], NoKey}
           /\ n > 0 \/ count[p[1]] = 0
           /\ \A i \in 1 .. count[p[1]] :
                <<value[p[1]][i], value[p[2]][i]>> \in PrunedTo[n - 1]}

-----------------------------------------------------------------------------
(* Properties *)

(* A clone has the kinds, the keys and the order of the original at every  *)
(* level, and every item and key but those memory was missing for.         *)
CloneExact ==
    CloneDone => <<Frame.src, Frame.dst>> \in PrunedTo[Cardinality(Obj)]

(* cco_object_clone returns a copy also when it ran out of memory below    *)
(* it: comparing the copy with the original tells the two cases apart,     *)
(* unless a key is missing that the comparison would read.                 *)
EqualsTells ==
    CloneDone /\ Len(frames) = 1 =>
        \/ \E o \in Reachable({Frame.dst}) : Keyless(o)
        \/ Equals(Frame.src, Frame.dst) <=> ~lost

(* A clone is independent: nothing below it is shared, inside the copy or  *)
(* with anything else, also when the original shares items.                *)
CloneApart ==
    CloneDone =>
        \A o \in Reachable({Frame.dst}) : rc[o] = 1 /\ o # Frame.src
=============================================================================
