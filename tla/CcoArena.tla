------------------------------- MODULE CcoArena ------------------------------
(***************************************************************************)
(* The arena (internal/arena.c): memory handed out from the newest of a    *)
(* list of blocks and freed all at once.  Sums are size_t sums: they wrap  *)
(* at SizeMax + 1 where the code does not check them first.                *)
(***************************************************************************)
EXTENDS Integers, Sequences

CONSTANTS
    SizeMax,       \* SIZE_MAX
    Align,         \* the alignment of every size, 8 in the code
    Header,        \* sizeof(cco_arena_block_t)
    BlockSize,     \* ARENA_DEFAULT_BLOCK_SIZE
    Limit,         \* max_allocation_limit; 0 is no limit
    Request,       \* the sizes asked for
    MaxBlocks      \* bound on the blocks of one arena

ASSUME SizeAssumption ==
    /\ SizeMax \in Nat /\ Align \in Nat \ {0}
    /\ Header \in Nat /\ Align <= Header /\ Header <= SizeMax
    /\ BlockSize \in Nat \ {0} /\ BlockSize <= SizeMax
ASSUME InputAssumption == /\ Limit \subseteq 0 .. SizeMax
                          /\ Request \subseteq 0 .. SizeMax
ASSUME BoundAssumption == MaxBlocks \in Nat

VARIABLES
    limit,     \* max_allocation_limit
    blocks,    \* capacity and used of each block, the head of the list last
    total,     \* total_allocated
    given      \* what the callers were given: [block, from, size]

arenaVars == <<limit, blocks, total, given>>

Wrap(x) == x % (SizeMax + 1)

TypeOK ==
    /\ limit \in Limit
    /\ blocks \in Seq([capacity : 0 .. SizeMax, used : 0 .. SizeMax])
    /\ total \in 0 .. SizeMax
    /\ given \subseteq [block : Nat, from : Nat, size : Nat]
    /\ \A b \in DOMAIN blocks : blocks[b].used <= blocks[b].capacity

-----------------------------------------------------------------------------
(* cco_arena_init *)
Init == limit \in Limit /\ blocks = <<>> /\ total = 0 /\ given = {}

Padding(n) == (Align - (n % Align)) % Align
Aligned(n) == n + Padding(n)

(* Mutant: the sum is compared with the limit without asking if it wraps. *)
Allowed_wrapping(n) ==
    /\ n > 0 /\ SizeMax - Padding(n) >= n
    /\ limit > 0 => Wrap(total + Aligned(n)) <= limit

(* The checks before a block is looked for. *)
Allowed(n) ==
    /\ n > 0 /\ SizeMax - Padding(n) >= n
    /\ limit > 0 => /\ SizeMax - total >= Aligned(n)
                    /\ Wrap(total + Aligned(n)) <= limit

Top == blocks[Len(blocks)]

Room(a) == blocks # <<>> /\ Wrap(Top.used + a) <= Top.capacity

(* Mutant: no block is larger than the default. *)
Block_default(a) == [capacity |-> BlockSize, used |-> 0]
Block(a) == [capacity |-> IF a > BlockSize THEN a ELSE BlockSize, used |-> 0]

(* cco_arena_alloc_block: malloc serves no object over half of SIZE_MAX. *)
BlockExists(a) ==
    /\ SizeMax - Header >= Block(a).capacity
    /\ Header + Block(a).capacity <= SizeMax \div 2

(* The head block gives its next a bytes. *)
Take(bs, a) ==
    LET b == Len(bs)
    IN  /\ blocks' = [bs EXCEPT ![b].used = Wrap(@ + a)]
        /\ given' = given \cup {[block |-> b, from |-> bs[b].used, size |-> a]}
        /\ total' = Wrap(total + a)

(* cco_arena_alloc returns memory. *)
Alloc(n) ==
    LET a == Aligned(n)
    IN  /\ Allowed(n)
        /\ \/ Room(a) /\ Take(blocks, a)
           \/ /\ ~Room(a) /\ BlockExists(a)
              /\ Len(blocks) < MaxBlocks
              /\ Take(Append(blocks, Block(a)), a)
        /\ UNCHANGED limit

(* cco_arena_destroy, and the next call's cco_arena_init. *)
Destroy == limit' \in Limit /\ blocks' = <<>> /\ total' = 0 /\ given' = {}

Next == (\E n \in Request : Alloc(n)) \/ Destroy

Spec == Init /\ [][Next]_arenaVars

-----------------------------------------------------------------------------
(* Properties *)

Apart(e, f) == \/ e.block # f.block
               \/ e.from + e.size <= f.from
               \/ f.from + f.size <= e.from

(* Only with a limit is the sum of used and the request looked at before   *)
(* it is made (arena.c:59, 70): without one it may wrap for a request over *)
(* half of SIZE_MAX.  An arena is modest as long as it has granted none.   *)
Modest == limit = 0 => \A e \in given : e.size <= Aligned(SizeMax \div 2)

(* Every extent a modest arena has handed out lies in a block and shares no *)
(* byte with another: no sum that decides where the next one goes wraps.    *)
ExtentsApart ==
    Modest =>
      /\ \A e \in given : /\ e.block \in 1 .. Len(blocks)
                          /\ e.from + e.size <= blocks[e.block].capacity
      /\ \A e, f \in given : e # f => Apart(e, f)

(* The arena is an allocator, as long as it is modest, and again once it   *)
(* has been destroyed: its total is what it has spent of its limit.        *)
A == INSTANCE Allocator WITH spent <- IF limit > 0 THEN total ELSE 0
Allocates == A!Init /\ [][Modest' => A!Next]_<<arenaVars>>
=============================================================================
