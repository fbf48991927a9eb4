------------------------------ MODULE Allocator ------------------------------
(***************************************************************************)
(* What an arena promises the code that allocates from it: each extent of  *)
(* memory is apart from all it gave before, their sizes never add up to    *)
(* more than the limit, and they are all taken back at once.               *)
(***************************************************************************)
EXTENDS Integers

CONSTANT Limit       \* the limits an arena may be given; 0 is no limit

VARIABLES
    limit,
    given,           \* extents handed out: [block, from, size]
    spent            \* their sizes together, when there is a limit

Apart(e, f) == \/ e.block # f.block
               \/ e.from + e.size <= f.from
               \/ f.from + f.size <= e.from

Init == limit \in Limit /\ given = {} /\ spent = 0

Give ==
    /\ \E e \in given' \ given :
         /\ given' = given \cup {e}
         /\ \A f \in given : Apart(e, f)
         /\ limit > 0 => spent' = spent + e.size /\ spent' <= limit
    /\ UNCHANGED limit

TakeBack == limit' \in Limit /\ given' = {} /\ spent' = 0

Next == Give \/ TakeBack
Spec == Init /\ [][Next]_<<limit, given, spent>>
=============================================================================
