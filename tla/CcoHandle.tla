------------------------------ MODULE CcoHandle ------------------------------
(***************************************************************************)
(* cnt::cco::Object, the C++ wrapper (include/cnt/cco.hpp): an object that *)
(* owns one reference.  Its copy constructor is Retain and its destructor  *)
(* Release; the assignment releases what the wrapper had, and reads and    *)
(* retains what the other one has when that release has returned.          *)
(***************************************************************************)
EXTENDS CcoClone

CONSTANT NoHandle
ASSUME NoHandleAssumption == NoHandle \notin Handle

VARIABLE assign  \* the assignment in progress, and the pointer it released

handleVars == <<allVars, assign>>
NoAssign == [to |-> NoHandle, from |-> NoHandle, old |-> NoObj]
Assigning == assign.to # NoHandle

HandleTypeOK ==
    /\ CloneTypeOK
    /\ assign \in [to : Handle \cup {NoHandle}, from : Handle \cup {NoHandle},
                   old : Ref]

HandleInit == CloneInit /\ assign = NoAssign

(* What the member m_handle of h holds; while the old value of a wrapper   *)
(* is released it still holds that value and owns no reference by it.      *)
Member(h) == IF h = assign.to THEN assign.old ELSE handle[h]

(* Mutant: an assignment to itself is like any other. *)
NotSelf_unchecked(h, g) == TRUE
NotSelf(h, g) == h # g

(* operator= of h with g, up to the release... *)
Assign(h, g) ==
    /\ Idle /\ frames = <<>> /\ ~Assigning
    /\ NotSelf(h, g)
    /\ Drop(handle[h])
    /\ handle' = [handle EXCEPT ![h] = NoObj]
    /\ assign' = [to |-> h, from |-> g, old |-> handle[h]]
    /\ UNCHANGED <<heapVars, cursor, pend, cloneVars>>

(* ... and from there. *)
Assigned ==
    /\ Assigning /\ stack = <<>>
    /\ handle' = [handle EXCEPT ![assign.to] = Member(assign.from)]
    /\ IF Member(assign.from) # NoObj
         THEN rc' = [rc EXCEPT ![Member(assign.from)] = @ + 1]
         ELSE UNCHANGED rc
    /\ assign' = NoAssign
    /\ UNCHANGED <<status, heapVars, cursor, stack, pend, cloneVars>>

HandleNext ==
    \/ \E h, g \in Handle : Assign(h, g)
    \/ Assigned
    \/ /\ Assigning => stack # <<>>
       /\ CloneNext
       /\ UNCHANGED assign

HandleSpec == HandleInit /\ [][HandleNext]_handleVars

-----------------------------------------------------------------------------
(* Properties *)

(* Whatever the C++ wrapper does is a use of the C functions that keeps    *)
(* the count: every step of it is a step of the heap or none, so all that  *)
(* is true of the heap is true of programs that use the wrapper.           *)
WrapperIsHeap == CloneSpec
=============================================================================
