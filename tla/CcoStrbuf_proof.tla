--------------------------- MODULE CcoStrbuf_proof ---------------------------
(***************************************************************************)
(* The arena implements the allocator and hands out extents that are apart,*)
(* for any word size, block size and limit; the string buffer implements   *)
(* the abstract buffer and writes inside what the arena gave it, for any   *)
(* first capacity and pieces.                                              *)
(*                                                                         *)
(* The sums of arena.c are modular.  With a limit they decide right because *)
(* none of them wraps: what a block has used is at most the total, and the *)
(* total plus the request was compared with the limit.  Without one, no    *)
(* block is over half of SIZE_MAX, and none wraps but for a request over   *)
(* half of SIZE_MAX; if that one is granted, the arena is no longer modest. *)
(*                                                                         *)
(* The steps of a buffer are steps of its arena, so that what is proved of *)
(* the arena is true below it.  The buffer's own sums do not wrap because  *)
(* its capacity is at most half of SIZE_MAX and its text is shorter.       *)
(***************************************************************************)
EXTENDS CcoStrbuf, SequenceTheorems, TLAPS

-----------------------------------------------------------------------------
(* The arena *)

(* Blocks are objects malloc can serve. *)
BlocksSmall ==
    \A b \in DOMAIN blocks : Header + blocks[b].capacity <= SizeMax \div 2

(* With a limit, the total is within it and covers every block. *)
TotalCovers ==
    limit > 0 => /\ total <= limit
                 /\ \A b \in DOMAIN blocks : blocks[b].used <= total

(* The extents given lie in the used part of a block, apart. *)
ExtentsUsed ==
    /\ \A e \in given : /\ e.block \in DOMAIN blocks
                        /\ e.from + e.size <= blocks[e.block].used
    /\ \A e, f \in given : e # f => Apart(e, f)

IInv == TypeOK /\ BlocksSmall /\ TotalCovers /\ (Modest => ExtentsUsed)

-----------------------------------------------------------------------------
(* A sum that fits in a word does not wrap. *)
LEMMA NoWrap == ASSUME NEW x \in 0 .. SizeMax PROVE Wrap(x) = x
  BY SizeAssumption DEF Wrap

(* Padding is less than the alignment. *)
LEMMA AlignedSize ==
    ASSUME NEW n \in Nat
    PROVE  Aligned(n) \in Nat /\ n <= Aligned(n) /\ Aligned(n) < n + Align
  BY SizeAssumption DEF Aligned, Padding

(* What Take does to the head of a list of blocks that has room for it. *)
LEMMA TakeKeeps ==
    ASSUME IInv, Modest,
           NEW bs \in Seq([capacity : 0 .. SizeMax, used : 0 .. SizeMax]),
           bs # <<>>,
           \A b \in DOMAIN bs : /\ Header + bs[b].capacity <= SizeMax \div 2
                                /\ bs[b].used <= bs[b].capacity
                                /\ limit > 0 => bs[b].used <= total,
           \A e \in given : /\ e.block \in DOMAIN bs
                            /\ e.from + e.size <= bs[e.block].used,
           NEW a \in Nat,
           bs[Len(bs)].used + a <= bs[Len(bs)].capacity,
           limit > 0 => total + a <= limit,
           Take(bs, a), UNCHANGED limit
    PROVE  IInv'
<1> DEFINE h == Len(bs)
           u == bs[h].used
           e0 == [block |-> h, from |-> u, size |-> a]
<1>1. /\ h \in DOMAIN bs /\ DOMAIN bs = 1 .. Len(bs)
      /\ bs[h] \in [capacity : 0 .. SizeMax, used : 0 .. SizeMax]
  <2> DEFINE R == [capacity : 0 .. SizeMax, used : 0 .. SizeMax]
  <2> HIDE DEF R
  <2>1. bs \in Seq(R) BY DEF R
  <2>2. h \in DOMAIN bs /\ DOMAIN bs = 1 .. Len(bs) /\ bs[h] \in R BY <2>1
  <2> QED BY <2>2 DEF R
<1>2. /\ u \in Nat /\ u + a <= bs[h].capacity
      /\ u + a \in 0 .. SizeMax
  BY <1>1, SizeAssumption
<1>3. blocks' = [bs EXCEPT ![h].used = u + a]
  BY <1>2, NoWrap DEF Take
<1> HIDE DEF h, u
<1>4. /\ blocks' \in Seq([capacity : 0 .. SizeMax, used : 0 .. SizeMax])
      /\ DOMAIN blocks' = DOMAIN bs
      /\ \A b \in DOMAIN bs :
           /\ blocks'[b].capacity = bs[b].capacity
           /\ b # h => blocks'[b].used = bs[b].used
      /\ blocks'[h].used = u + a
  BY <1>1, <1>2, <1>3
<1>5. \A b \in DOMAIN bs : bs[b].used \in Nat /\ bs[b].capacity \in Nat
  <2> DEFINE R == [capacity : 0 .. SizeMax, used : 0 .. SizeMax]
  <2>1. \A r \in R : r.used \in Nat /\ r.capacity \in Nat
    BY SizeAssumption
  <2> HIDE DEF R
  <2>2. bs \in Seq(R) BY DEF R
  <2>3. \A b \in DOMAIN bs : bs[b] \in R BY <2>2
  <2> QED BY <2>1, <2>3
<1>6. given' = given \cup {e0} BY DEF Take, h, u
<1>7. e0 \in [block : Nat, from : Nat, size : Nat] BY <1>1, <1>2
<1>8. total' \in 0 .. SizeMax /\ (limit > 0 => total' = total + a)
  <2>1. total' = Wrap(total + a) BY DEF Take
  <2>2. total \in Nat /\ limit \in 0 .. SizeMax
    BY InputAssumption DEF IInv, TypeOK
  <2>3. limit > 0 => total + a \in 0 .. SizeMax
    BY <2>2, SizeAssumption
  <2>4. Wrap(total + a) \in 0 .. SizeMax
    BY <2>2, SizeAssumption DEF Wrap
  <2> QED BY <2>1, <2>3, <2>4, NoWrap
<1>9. TypeOK'
  BY <1>2, <1>4, <1>6, <1>7, <1>8 DEF IInv, TypeOK
<1>10. BlocksSmall' BY <1>4 DEF BlocksSmall
<1>11. TotalCovers'
  <2> SUFFICES ASSUME limit > 0
               PROVE  /\ total' <= limit
                      /\ \A b \in DOMAIN bs : blocks'[b].used <= total'
    BY <1>4 DEF TotalCovers
  <2>1. total \in Nat /\ total' = total + a /\ total + a <= limit
    BY <1>8, SizeAssumption DEF IInv, TypeOK
  <2>2. u <= total BY <1>1 DEF u
  <2>3. u + a <= total + a BY <1>2, <2>1, <2>2
  <2>4. \A b \in DOMAIN bs : bs[b].used <= total + a BY <1>5, <2>1
  <2> QED BY <1>4, <2>1, <2>3, <2>4
<1>12. ExtentsUsed'
  <2>1. \A e \in given : /\ e.block \in Nat /\ e.from \in Nat /\ e.size \in Nat
                         /\ e.block \in DOMAIN bs
                         /\ e.from + e.size <= bs[e.block].used
    BY DEF IInv, TypeOK
  <2>2. \A e \in given : /\ e.from + e.size <= blocks'[e.block].used
                         /\ Apart(e, e0) /\ Apart(e0, e)
    <3> SUFFICES ASSUME NEW e \in given
                 PROVE  /\ e.from + e.size <= blocks'[e.block].used
                        /\ Apart(e, e0) /\ Apart(e0, e)
      OBVIOUS
    <3>1. CASE e.block = h
      <4>1. e.from + e.size <= u BY <2>1, <3>1 DEF u
      <4>2. e.from + e.size \in Int BY <2>1
      <4>3. e.from + e.size <= u + a BY <1>2, <4>1, <4>2
      <4> QED BY <1>4, <3>1, <4>1, <4>3 DEF Apart
    <3>2. CASE e.block # h
      BY <1>4, <2>1, <3>2 DEF Apart
    <3> QED BY <3>1, <3>2
  <2>3. e0.block \in DOMAIN bs /\ e0.from + e0.size <= blocks'[e0.block].used
    BY <1>1, <1>2, <1>4
  <2>4. \A e, f \in given : e # f => Apart(e, f) BY DEF IInv, ExtentsUsed
  <2> QED BY <1>4, <1>6, <2>1, <2>2, <2>3, <2>4 DEF ExtentsUsed
<1> QED BY <1>9, <1>10, <1>11, <1>12 DEF IInv

(* Once an arena is not modest, no allocation makes it so. *)
LEMMA ModestBefore ==
    ASSUME NEW n \in Request, Alloc(n), Modest'
    PROVE  Modest
<1>1. given \subseteq given' /\ limit' = limit BY DEF Alloc, Take
<1> QED BY <1>1 DEF Modest

(* An allocation that leaves the arena modest takes its extent from a block *)
(* that has room for it.                                                    *)
LEMMA AllocTakes ==
    ASSUME IInv, NEW n \in Request, Alloc(n), Modest'
    PROVE  \E bs, a :
              /\ bs \in Seq([capacity : 0 .. SizeMax, used : 0 .. SizeMax])
              /\ bs # <<>>
              /\ \A b \in DOMAIN bs : /\ Header + bs[b].capacity <= SizeMax \div 2
                                      /\ bs[b].used <= bs[b].capacity
                                      /\ limit > 0 => bs[b].used <= total
              /\ \A e \in given : /\ e.block \in DOMAIN bs
                                  /\ e.from + e.size <= bs[e.block].used
              /\ a \in Nat \ {0}
              /\ bs[Len(bs)].used + a <= bs[Len(bs)].capacity
              /\ limit > 0 => total + a <= limit
              /\ Take(bs, a)
<1> DEFINE a == Aligned(n)
           R == [capacity : 0 .. SizeMax, used : 0 .. SizeMax]
<1>1. n \in Nat /\ limit \in 0 .. SizeMax /\ total \in 0 .. SizeMax
  BY InputAssumption DEF IInv, TypeOK
<1>2. a \in Nat \ {0} /\ n <= a /\ a < n + Align /\ a <= SizeMax
  <2>1. Padding(n) \in Nat BY <1>1, SizeAssumption DEF Padding
  <2>2. SizeMax - Padding(n) >= n /\ n > 0 BY DEF Alloc, Allowed
  <2> QED BY <1>1, <2>1, <2>2, AlignedSize, SizeAssumption DEF Aligned
<1>e. ExtentsUsed BY ModestBefore DEF IInv
<1> HIDE DEF a, R
<1>3. limit > 0 => total + a <= limit
  <2> SUFFICES ASSUME limit > 0 PROVE total + a <= limit OBVIOUS
  <2>1. SizeMax - total >= a /\ Wrap(total + a) <= limit
    BY DEF Alloc, Allowed, a
  <2>2. total + a \in 0 .. SizeMax BY <1>1, <1>2, <2>1, SizeAssumption
  <2> QED BY <2>1, <2>2, NoWrap
<1>4. blocks \in Seq(R) BY DEF IInv, TypeOK, R
<1>5. \A b \in DOMAIN blocks : /\ blocks[b] \in R
                               /\ Header + blocks[b].capacity <= SizeMax \div 2
                               /\ blocks[b].used <= blocks[b].capacity
                               /\ limit > 0 => blocks[b].used <= total
  BY <1>4 DEF IInv, TypeOK, BlocksSmall, TotalCovers
<1>6. CASE Room(a) /\ Take(blocks, a)
  <2>1. blocks # <<>> /\ Wrap(Top.used + a) <= Top.capacity
    BY <1>6 DEF Room
  <2>2. Len(blocks) \in DOMAIN blocks BY <1>4, <2>1
  <2>3. Top \in R /\ Header + Top.capacity <= SizeMax \div 2
        /\ Top.used <= Top.capacity /\ (limit > 0 => Top.used <= total)
    BY <1>5, <2>2 DEF Top
  <2>4. Top.used \in Nat /\ Top.capacity \in Nat
    BY <2>3, SizeAssumption DEF R
  <2>5. Top.used + a \in 0 .. SizeMax
    <3>1. CASE limit > 0
      <4>1. Top.used + a <= total + a BY <1>1, <1>2, <2>3, <2>4, <3>1
      <4> QED BY <1>1, <1>2, <1>3, <2>4, <3>1, <4>1, SizeAssumption
    <3>2. CASE ~(limit > 0)
      <4>1. \E e \in given' : e.size = a
        <5> DEFINE e0 == [block |-> Len(blocks), from |-> Top.used, size |-> a]
        <5>1. e0 \in given' BY <1>6 DEF Take, Top
        <5>2. e0.size = a OBVIOUS
        <5> QED BY <5>1, <5>2
      <4>2. a <= Aligned(SizeMax \div 2)
        BY <1>1, <3>2, <4>1 DEF Modest, Alloc
      <4>3. a <= SizeMax \div 2 + Align
        <5>1. SizeMax \div 2 \in Nat BY SizeAssumption
        <5> QED BY <1>2, <4>2, <5>1, AlignedSize, SizeAssumption
      <4>4. Top.used <= SizeMax \div 2 - Header
        BY <2>3, <2>4, SizeAssumption
      <4>5. Top.used + a <= 2 * (SizeMax \div 2)
        BY <1>2, <2>4, <4>3, <4>4, SizeAssumption
      <4> QED BY <1>2, <2>4, <4>5, SizeAssumption
    <3> QED BY <3>1, <3>2
  <2>6. Top.used + a <= Top.capacity BY <2>1, <2>5, NoWrap
  <2>7. \A e \in given : /\ e.block \in DOMAIN blocks
                         /\ e.from + e.size <= blocks[e.block].used
    BY <1>e DEF ExtentsUsed
  <2> WITNESS blocks, a
  <2> QED BY <1>2, <1>3, <1>4, <1>5, <1>6, <2>1, <2>6, <2>7 DEF Top, R
<1>7. CASE BlockExists(a) /\ Take(Append(blocks, Block(a)), a)
  <2> DEFINE bs == Append(blocks, Block(a))
  <2>1. /\ Block(a) \in R /\ Block(a).used = 0 /\ a <= Block(a).capacity
        /\ Header + Block(a).capacity <= SizeMax \div 2
    BY <1>2, <1>7, SizeAssumption DEF Block, BlockExists, R
  <2>2. /\ bs \in Seq(R) /\ bs # <<>> /\ Len(bs) = Len(blocks) + 1
        /\ DOMAIN bs = 1 .. Len(blocks) + 1
        /\ DOMAIN blocks = 1 .. Len(blocks) /\ Len(blocks) \in Nat
        /\ \A b \in DOMAIN blocks : b \in DOMAIN bs /\ bs[b] = blocks[b]
        /\ bs[Len(bs)] = Block(a)
    BY <1>4, <2>1
  <2> HIDE DEF bs
  <2>3. \A b \in DOMAIN bs : b \in DOMAIN blocks \/ bs[b] = Block(a)
    BY <2>2
  <2>4. \A b \in DOMAIN bs : /\ Header + bs[b].capacity <= SizeMax \div 2
                             /\ bs[b].used <= bs[b].capacity
                             /\ limit > 0 => bs[b].used <= total
    <3> SUFFICES ASSUME NEW b \in DOMAIN bs
                 PROVE  /\ Header + bs[b].capacity <= SizeMax \div 2
                        /\ bs[b].used <= bs[b].capacity
                        /\ limit > 0 => bs[b].used <= total
      OBVIOUS
    <3>1. CASE b \in DOMAIN blocks BY <1>5, <2>2, <3>1
    <3>2. CASE bs[b] = Block(a)
      <4>1. Block(a).capacity \in Nat BY <2>1, SizeAssumption DEF R
      <4> QED BY <1>1, <1>2, <2>1, <3>2, <4>1
    <3> QED BY <2>3, <3>1, <3>2
  <2>5. \A e \in given : /\ e.block \in DOMAIN bs
                         /\ e.from + e.size <= bs[e.block].used
    BY <1>e, <2>2 DEF ExtentsUsed
  <2>6. bs[Len(bs)].used + a <= bs[Len(bs)].capacity
    BY <1>2, <2>1, <2>2
  <2>7. Take(bs, a) BY <1>7 DEF bs
  <2> WITNESS bs, a
  <2> QED BY <1>2, <1>3, <2>2, <2>4, <2>5, <2>6, <2>7 DEF R
<1> QED BY <1>6, <1>7 DEF Alloc, a

(* Whatever an allocation does to the extents, the blocks stay blocks. *)
LEMMA AllocWraps ==
    ASSUME IInv, NEW n \in Request, Alloc(n), ~Modest'
    PROVE  IInv'
<1> DEFINE a == Aligned(n)
           R == [capacity : 0 .. SizeMax, used : 0 .. SizeMax]
<1>1. n \in Nat /\ limit \in 0 .. SizeMax /\ total \in 0 .. SizeMax
  BY InputAssumption DEF IInv, TypeOK
<1>2. a \in Nat /\ limit' = limit /\ limit = 0
  <2>1. a \in Nat BY <1>1, AlignedSize
  <2> QED BY <2>1 DEF Modest, Alloc
<1>3. \A x \in Nat : Wrap(x) \in 0 .. SizeMax /\ Wrap(x) <= x
  BY SizeAssumption DEF Wrap
<1> HIDE DEF a, R
<1>4. blocks \in Seq(R) BY DEF IInv, TypeOK, R
<1>5. \A b \in DOMAIN blocks : /\ blocks[b] \in R
                               /\ Header + blocks[b].capacity <= SizeMax \div 2
                               /\ blocks[b].used <= blocks[b].capacity
  BY <1>4 DEF IInv, TypeOK, BlocksSmall
<1>6. PICK bs \in Seq(R) :
        /\ bs # <<>> /\ Take(bs, a)
        /\ Wrap(bs[Len(bs)].used + a) <= bs[Len(bs)].capacity
        /\ \A b \in DOMAIN bs : /\ Header + bs[b].capacity <= SizeMax \div 2
                                /\ bs[b].used <= bs[b].capacity
  <2>1. CASE Room(a) /\ Take(blocks, a)
    BY <1>4, <1>5, <2>1 DEF Room, Top
  <2>2. CASE BlockExists(a) /\ Take(Append(blocks, Block(a)), a)
    <3> DEFINE bs == Append(blocks, Block(a))
    <3>1. /\ Block(a) \in R /\ Block(a).used = 0 /\ a <= Block(a).capacity
          /\ Block(a).capacity \in Nat
          /\ Header + Block(a).capacity <= SizeMax \div 2
      BY <1>2, <2>2, SizeAssumption DEF Block, BlockExists, R
    <3>2. /\ bs \in Seq(R) /\ bs # <<>> /\ Len(bs) = Len(blocks) + 1
          /\ DOMAIN bs = 1 .. Len(blocks) + 1
          /\ DOMAIN blocks = 1 .. Len(blocks) /\ Len(blocks) \in Nat
          /\ bs[Len(bs)] = Block(a)
          /\ \A b \in DOMAIN blocks : b \in DOMAIN bs /\ bs[b] = blocks[b]
      BY <1>4, <3>1
    <3> HIDE DEF bs
    <3>6. \A b \in DOMAIN bs :
             bs[b] = Block(a) \/ (b \in DOMAIN blocks /\ bs[b] = blocks[b])
      BY <3>2
    <3>3. Wrap(Block(a).used + a) <= Block(a).capacity
      <4>1. Wrap(a) <= a /\ Wrap(a) \in Nat BY <1>2, <1>3, SizeAssumption
      <4>2. Wrap(a) <= Block(a).capacity BY <1>2, <3>1, <4>1
      <4>3. 0 + a = a BY <1>2
      <4> QED BY <3>1, <4>2, <4>3
    <3>4. \A b \in DOMAIN bs : /\ Header + bs[b].capacity <= SizeMax \div 2
                               /\ bs[b].used <= bs[b].capacity
      BY <1>2, <1>5, <3>1, <3>6
    <3>5. Take(bs, a) BY <2>2 DEF bs
    <3> QED BY <3>2, <3>3, <3>4, <3>5
  <2> QED BY <2>1, <2>2 DEF Alloc, a
<1> DEFINE h == Len(bs)
           u == Wrap(bs[h].used + a)
<1>7. h \in DOMAIN bs /\ bs[h] \in R /\ DOMAIN bs = 1 .. Len(bs) BY <1>6
<1>8. u \in 0 .. SizeMax /\ u <= bs[h].capacity
  <2>1. bs[h].used \in Nat BY <1>7, SizeAssumption DEF R
  <2>2. bs[h].used + a \in Nat BY <1>2, <2>1
  <2> QED BY <1>3, <1>6, <2>2
<1>9. blocks' = [bs EXCEPT ![h].used = u] BY <1>6 DEF Take
<1> HIDE DEF h, u
<1>10. /\ blocks' \in Seq(R) /\ DOMAIN blocks' = DOMAIN bs
       /\ \A b \in DOMAIN bs : /\ blocks'[b].capacity = bs[b].capacity
                               /\ b # h => blocks'[b].used = bs[b].used
       /\ blocks'[h].used = u
  BY <1>6, <1>7, <1>8, <1>9 DEF R
<1>11. /\ given' = given \cup {[block |-> h, from |-> bs[h].used, size |-> a]}
       /\ total' = Wrap(total + a)
  BY <1>6 DEF Take, h
<1>12. TypeOK'
  <2>1. h \in Nat /\ bs[h].used \in Nat BY <1>7, SizeAssumption DEF R, h
  <2>2. given' \subseteq [block : Nat, from : Nat, size : Nat]
    BY <1>2, <1>11, <2>1 DEF IInv, TypeOK
  <2>3. total' \in 0 .. SizeMax
    <3>1. total + a \in Nat BY <1>1, <1>2
    <3> QED BY <1>3, <1>11, <3>1
  <2>4. \A b \in DOMAIN blocks' : blocks'[b].used <= blocks'[b].capacity
    BY <1>6, <1>7, <1>8, <1>10
  <2>5. limit' \in Limit BY <1>2 DEF IInv, TypeOK
  <2> QED BY <1>10, <2>2, <2>3, <2>4, <2>5 DEF TypeOK, R
<1>13. BlocksSmall' BY <1>6, <1>10 DEF BlocksSmall
<1>14. TotalCovers' BY <1>2 DEF TotalCovers
<1> QED BY <1>12, <1>13, <1>14 DEF IInv

-----------------------------------------------------------------------------
LEMMA ArenaBegins == Init => IInv
BY SizeAssumption, InputAssumption
DEF Init, IInv, TypeOK, BlocksSmall, TotalCovers, ExtentsUsed

LEMMA ArenaStep == IInv /\ [Next]_arenaVars => IInv'
<1> SUFFICES ASSUME IInv, [Next]_arenaVars PROVE IInv'
  OBVIOUS
<1>1. CASE \E n \in Request : Alloc(n)
  <2>1. PICK n \in Request : Alloc(n) BY <1>1
  <2>2. UNCHANGED limit BY <2>1 DEF Alloc
  <2>3. CASE Modest'
    BY <2>1, <2>2, <2>3, AllocTakes, ModestBefore, TakeKeeps
  <2>4. CASE ~Modest' BY <2>1, <2>4, AllocWraps
  <2> QED BY <2>3, <2>4
<1>2. CASE Destroy
  BY <1>2, SizeAssumption, InputAssumption
  DEF Destroy, IInv, TypeOK, BlocksSmall, TotalCovers, ExtentsUsed
<1>3. CASE UNCHANGED arenaVars
  BY <1>3 DEF arenaVars, IInv, TypeOK, BlocksSmall, TotalCovers,
              ExtentsUsed, Apart, Modest
<1> QED BY <1>1, <1>2, <1>3 DEF Next

(* The invariant of the arena. *)
THEOREM ArenaInvariant == Spec => []IInv
BY ArenaBegins, ArenaStep, PTL DEF Spec

(* No two extents the arena hands out overlap and none leaves its block:   *)
(* with a limit whatever sizes cco_arena_alloc is asked for, without one   *)
(* until it has granted more than half of SIZE_MAX.                        *)
THEOREM ArenaApart == Spec => []ExtentsApart
<1>1. IInv => ExtentsApart
  <2> SUFFICES ASSUME IInv, Modest, NEW e \in given
               PROVE  /\ e.block \in 1 .. Len(blocks)
                      /\ e.from + e.size <= blocks[e.block].capacity
    BY DEF IInv, ExtentsUsed, ExtentsApart
  <2> DEFINE R == [capacity : 0 .. SizeMax, used : 0 .. SizeMax]
  <2>1. \A r \in R : r.used \in Nat /\ r.capacity \in Nat
    BY SizeAssumption
  <2>2. /\ e.block \in DOMAIN blocks /\ e.from + e.size <= blocks[e.block].used
        /\ e.from + e.size \in Int /\ blocks \in Seq(R)
        /\ blocks[e.block].used <= blocks[e.block].capacity
    BY DEF IInv, TypeOK, ExtentsUsed
  <2> HIDE DEF R
  <2>3. e.block \in 1 .. Len(blocks) /\ blocks[e.block] \in R BY <2>2
  <2> QED BY <2>1, <2>2, <2>3
<1> QED BY <1>1, ArenaInvariant, PTL

(* The arena is an allocator, for every request if it has a limit, and      *)
(* without one until it has granted more than half of SIZE_MAX.             *)
THEOREM ArenaAllocates == Spec => Allocates
<1> DEFINE spent == IF limit > 0 THEN total ELSE 0
<1>1. Init => A!Init BY DEF Init, A!Init
<1>2. ASSUME IInv, [Next]_arenaVars
      PROVE  [Modest' => A!Next]_<<arenaVars>>
  <2>1. CASE Modest' /\ \E n \in Request : Alloc(n)
    <3>1. PICK n \in Request : Alloc(n) /\ Modest' BY <2>1
    <3>2. PICK bs, a :
            /\ bs \in Seq([capacity : 0 .. SizeMax, used : 0 .. SizeMax])
            /\ bs # <<>>
            /\ \A b \in DOMAIN bs : /\ Header + bs[b].capacity <= SizeMax \div 2
                                    /\ bs[b].used <= bs[b].capacity
                                    /\ limit > 0 => bs[b].used <= total
            /\ \A e \in given : /\ e.block \in DOMAIN bs
                                /\ e.from + e.size <= bs[e.block].used
            /\ a \in Nat \ {0}
            /\ bs[Len(bs)].used + a <= bs[Len(bs)].capacity
            /\ limit > 0 => total + a <= limit
            /\ Take(bs, a)
      BY <1>2, <3>1, AllocTakes
    <3>3. UNCHANGED limit BY <3>1 DEF Alloc
    <3>4. IInv' /\ Modest' BY <1>2, <3>1, <3>2, <3>3, ModestBefore, TakeKeeps
    <3> DEFINE h == Len(bs)
               e0 == [block |-> h, from |-> bs[h].used, size |-> a]
    <3>5. given' = given \cup {e0} /\ total' = Wrap(total + a)
      BY <3>2 DEF Take
    <3>6. e0 \notin given
      <4>1. e0 \in given => bs[h].used + a <= bs[h].used BY <3>2
      <4>2. e0 \in given => bs[h].used \in Nat BY <1>2 DEF IInv, TypeOK
      <4> QED BY <3>2, <4>1, <4>2
    <3>7. \A f \in given : A!Apart(e0, f)
      <4>1. \A f \in given : Apart(e0, f)
        BY <3>4, <3>5, <3>6 DEF IInv, ExtentsUsed
      <4> QED BY <4>1 DEF Apart, A!Apart
    <3>8. limit > 0 => spent' = spent + e0.size /\ spent' <= limit
      <4> SUFFICES ASSUME limit > 0
                   PROVE  total' = total + a /\ total + a <= limit
        BY <3>3
      <4>1. /\ limit \in 0 .. SizeMax /\ total \in 0 .. SizeMax
            /\ total + a <= limit
        BY <1>2, <3>2, InputAssumption DEF IInv, TypeOK
      <4>2. total + a \in 0 .. SizeMax BY <3>2, <4>1, SizeAssumption
      <4> QED BY <3>5, <4>1, <4>2, NoWrap
    <3> HIDE DEF e0
    <3>9. A!Give BY <3>3, <3>5, <3>6, <3>7, <3>8 DEF A!Give
    <3> QED BY <3>9 DEF A!Next
  <2>2. CASE Destroy
    BY <2>2 DEF Destroy, A!Next, A!TakeBack
  <2>3. CASE UNCHANGED arenaVars BY <2>3
  <2> QED BY <1>2, <2>1, <2>2, <2>3 DEF Next
<1> QED BY <1>1, <1>2, ArenaInvariant, PTL DEF Spec, Allocates

-----------------------------------------------------------------------------
(* The string buffer *)

Cell == Char \cup {Junk}

BufInv == IInv /\ BufTypeOK /\ Inside

-----------------------------------------------------------------------------
(* The room a piece needs is a sum that does not wrap. *)
LEMMA PieceFits ==
    ASSUME BufInv, NEW s \in Piece, Add(s)
    PROVE  /\ s \in Seq(Char) /\ Len(s) \in Nat \ {0}
           /\ length \in Nat /\ Needed(s) = length + Len(s) + 1
<1>1. s \in Seq(Char) /\ Len(s) \in Nat \ {0} /\ Len(s) + 1 \in 0 .. SizeMax
  <2>1. s \in Seq(Char) /\ Len(s) < SizeMax /\ s # <<>>
    BY PieceAssumption DEF Add
  <2> QED BY <2>1, SizeAssumption
<1>2. length \in Nat BY SizeAssumption DEF BufInv, BufTypeOK
<1>3. SizeMax - length >= Len(s) + 1 BY <1>1, NoWrap DEF Add
<1>4. length + Len(s) + 1 \in 0 .. SizeMax
  BY <1>1, <1>2, <1>3, SizeAssumption
<1>5. Needed(s) = length + Len(s) + 1 BY <1>4, NoWrap DEF Needed
<1> QED BY <1>1, <1>2, <1>5

(* Growth gives the buffer a new extent that is large enough. *)
LEMMA GrowGives ==
    ASSUME BufInv, NEW cap \in Nat, cap > 0, Grow(cap)
    PROVE  /\ data' \in given' /\ cap <= data'.size
           /\ capacity' = cap /\ cap <= SizeMax \div 2
           /\ cap \in Request /\ Alloc(cap)
<1>1. cap \in Request /\ cap <= SizeMax \div 2
  BY CapacityAssumption, SizeAssumption DEF Grow
<1>2. Alloc(cap) /\ data' \in given' \ given /\ capacity' = cap BY DEF Grow
<1>3. PICK e : given' = given \cup {e} /\ e.size = Aligned(cap)
  BY <1>2 DEF Alloc, Take
<1>4. cap <= Aligned(cap) BY AlignedSize
<1> QED BY <1>1, <1>2, <1>3, <1>4

(* An append makes the room it needs, and keeps the text there was. *)
LEMMA AddMakesRoom ==
    ASSUME BufInv, NEW s \in Piece, Add(s)
    PROVE  /\ length' = length + Len(s)
           /\ capacity' \in 0 .. SizeMax \div 2 /\ length' < capacity'
           /\ data' \in given' /\ capacity' <= data'.size
           /\ [Next]_arenaVars
           /\ \E c \in [1 .. capacity' -> Cell] :
                /\ \A i \in 1 .. length : c[i] = cells[i]
                /\ \E p \in Printed(s) : cells' = Written(c, p)
<1>1. /\ s \in Seq(Char) /\ Len(s) \in Nat \ {0}
      /\ length \in Nat /\ Needed(s) = length + Len(s) + 1
  BY PieceFits
<1>2. /\ capacity \in Nat /\ capacity <= SizeMax \div 2
      /\ cells \in [1 .. capacity -> Cell] /\ length <= capacity
      /\ capacity > 0 => data \in given /\ capacity <= data.size
  BY SizeAssumption DEF BufInv, BufTypeOK, Inside, Cell
<1>3. length' = length + Len(s) BY DEF Add
<1>4. CASE /\ capacity >= Needed(s)
           /\ \E p \in Printed(s) : cells' = Written(cells, p)
           /\ UNCHANGED <<data, capacity, arenaVars>>
  <2>1. capacity > 0 /\ length + Len(s) < capacity BY <1>1, <1>2, <1>4
  <2>2. given' = given BY <1>4 DEF arenaVars
  <2> QED BY <1>2, <1>3, <1>4, <2>1, <2>2
<1>5. CASE /\ capacity < Needed(s) /\ Grow(NewCapacity(Needed(s)))
           /\ \E p \in Printed(s) :
                cells' = Written(Copied(NewCapacity(Needed(s))), p)
  <2>1. PICK cap : cap = NewCapacity(Needed(s)) OBVIOUS
  <2>2. cap \in Nat /\ cap > length + Len(s) /\ cap > 0
    BY <1>1, <1>2, <2>1, CapacityAssumption, SizeAssumption DEF NewCapacity
  <2>3. /\ data' \in given' /\ cap <= data'.size
        /\ capacity' = cap /\ cap <= SizeMax \div 2
        /\ cap \in Request /\ Alloc(cap)
    BY <1>5, <2>1, <2>2, GrowGives
  <2>4. Copied(cap) \in [1 .. cap -> Cell]
    <3>1. \A i \in 1 .. cap : i <= length => i \in 1 .. capacity
      BY <1>1, <1>2
    <3>2. \A i \in 1 .. cap : i <= length => cells[i] \in Cell BY <1>2, <3>1
    <3> QED BY <3>2 DEF Copied, Cell
  <2>5. \A i \in 1 .. length : Copied(cap)[i] = cells[i]
    BY <1>1, <2>2 DEF Copied
  <2>6. Next BY <2>3 DEF Next
  <2> QED BY <1>3, <1>5, <2>1, <2>2, <2>3, <2>4, <2>5, <2>6
<1> QED BY <1>4, <1>5 DEF Add

(* What is printed of a piece is a beginning of it; of one whose length an *)
(* int can tell, all, but for a NUL.                                       *)
LEMMA PrintedIs ==
    ASSUME NEW s \in Piece, s \in Seq(Char), NEW p \in Printed(s)
    PROVE  /\ p \in Seq(Char) /\ Len(p) <= Len(s)
           /\ Len(s) <= IntMax /\ s # <<NUL>> => p = s
<1>1. CASE s = <<NUL>>
  BY <1>1 DEF Printed
<1>2. CASE s # <<NUL>>
  <2>1. PICK k \in 0 .. Len(s) :
          /\ p = SubSeq(s, 1, k)
          /\ Precision(Len(s)) >= 0 => k = Precision(Len(s))
    BY <1>2 DEF Printed
  <2>2. Len(s) \in Nat /\ \A i \in 1 .. k : s[i] \in Char OBVIOUS
  <2>3. 1 \in Int /\ k \in Int /\ (~(1 <= k) => k = 0)
    BY <2>2
  <2>4. /\ p \in Seq(Char)
        /\ Len(p) = IF 1 <= k THEN k - 1 + 1 ELSE 0
        /\ \A i \in 1 .. k - 1 + 1 : p[i] = s[1 + i - 1]
    BY <2>1, <2>2, <2>3, SubSeqProperties
  <2>5. Len(p) = k /\ \A i \in 1 .. k : p[i] = s[i]
    <3>1. \A i \in 1 .. k : 1 + i - 1 = i OBVIOUS
    <3> QED BY <2>3, <2>4, <3>1
  <2>6. ASSUME Len(s) <= IntMax PROVE p = s
    <3>1. Precision(Len(s)) = Len(s)
      <4>1. IntMax \in Nat BY PieceAssumption
      <4>2. PICK m : m = 2 * (IntMax + 1) OBVIOUS
      <4>3. m \in Nat \ {0} /\ Len(s) < m BY <2>2, <2>6, <4>1, <4>2
      <4>4. Len(s) % m = Len(s) BY <2>2, <4>3
      <4> QED BY <2>6, <4>2, <4>4 DEF Precision
    <3>2. k = Len(s) BY <2>1, <2>2, <3>1
    <3> QED BY <2>4, <2>5, <3>2, SeqEqual
  <2> QED BY <2>2, <2>4, <2>5, <2>6
<1> QED BY <1>1, <1>2

(* What an append leaves in memory: the text, what was printed and its NUL. *)
LEMMA WrittenHolds ==
    ASSUME NEW s \in Piece, NEW m \in Nat, NEW c \in [1 .. m -> Cell],
           length \in Nat, length + Len(s) < m, Len(s) \in Nat \ {0},
           s \in Seq(Char), NEW p \in Printed(s)
    PROVE  /\ Written(c, p) \in [1 .. m -> Cell]
           /\ \A i \in 1 .. length : Written(c, p)[i] = c[i]
           /\ Len(s) <= IntMax =>
                \A i \in 1 .. Len(s) : Written(c, p)[length + i] = s[i]
<1>1. NUL \in Char BY PieceAssumption
<1>2. /\ p \in Seq(Char) /\ Len(p) \in Nat /\ Len(p) <= Len(s)
      /\ Len(s) <= IntMax /\ s # <<NUL>> => p = s
  BY PrintedIs
<1>3. Written(c, p) =
        [i \in 1 .. m |-> IF i \in length + 1 .. length + Len(p)
                          THEN p[i - length]
                          ELSE IF i = length + Len(p) + 1 THEN NUL ELSE c[i]]
  BY DEF Written
<1>4. \A i \in 1 .. Len(p) : p[i] \in Char BY <1>2
<1>5. \A i \in length + 1 .. length + Len(p) : i - length \in 1 .. Len(p)
  BY <1>2
<1>6. Written(c, p) \in [1 .. m -> Cell]
  BY <1>1, <1>3, <1>4, <1>5 DEF Cell
<1>7. \A i \in 1 .. length : Written(c, p)[i] = c[i]
  <2>1. \A i \in 1 .. length :
           i \in 1 .. m /\ ~(i >= length + 1) /\ i # length + Len(p) + 1
    BY <1>2
  <2> QED BY <1>3, <2>1
<1>8. ASSUME Len(s) <= IntMax, NEW i \in 1 .. Len(s)
      PROVE  Written(c, p)[length + i] = s[i]
  <2>1. length + i \in 1 .. m /\ length + i - length = i OBVIOUS
  <2>2. CASE s = <<NUL>>
    <3>1. p = <<>> /\ s[i] = NUL /\ i = 1 BY <2>2 DEF Printed
    <3> QED BY <1>3, <2>1, <3>1
  <2>3. CASE s # <<NUL>>
    <3>1. p = s BY <1>2, <1>8, <2>3
    <3>2. length + i \in length + 1 .. length + Len(p) BY <3>1
    <3> QED BY <1>3, <2>1, <3>1, <3>2
  <2> QED BY <2>2, <2>3
<1> QED BY <1>6, <1>7, <1>8

-----------------------------------------------------------------------------
(* A buffer does with its arena what the arena allows. *)
LEMMA BufStep == BufInv /\ [BufNext]_allVars => BufInv' /\ [Next]_arenaVars
<1> SUFFICES ASSUME BufInv, [BufNext]_allVars
             PROVE  BufInv' /\ [Next]_arenaVars
  OBVIOUS
<1>1. [Next]_arenaVars => IInv' BY ArenaStep DEF BufInv
<1>2. CASE \E s \in Piece : Add(s)
  <2>1. PICK s \in Piece : Add(s) BY <1>2
  <2>2. /\ s \in Seq(Char) /\ Len(s) \in Nat \ {0} /\ length \in Nat
    BY <2>1, PieceFits
  <2>3. /\ length' = length + Len(s)
        /\ capacity' \in 0 .. SizeMax \div 2 /\ length' < capacity'
        /\ data' \in given' /\ capacity' <= data'.size
        /\ [Next]_arenaVars
    BY <2>1, AddMakesRoom
  <2>4. PICK c \in [1 .. capacity' -> Cell], p \in Printed(s) :
          cells' = Written(c, p)
    BY <2>1, AddMakesRoom
  <2>5. capacity' \in Nat /\ length' \in 0 .. SizeMax \div 2 /\ capacity' # 0
    BY <2>2, <2>3, SizeAssumption
  <2>6. cells' \in [1 .. capacity' -> Cell]
    BY <2>2, <2>3, <2>4, <2>5, WrittenHolds
  <2>7. BufTypeOK' /\ Inside'
    BY <1>1, <2>3, <2>5, <2>6 DEF BufTypeOK, Inside, Cell, IInv
  <2> QED BY <1>1, <2>3, <2>7 DEF BufInv
<1>3. CASE Reset
  <2>1. [Next]_arenaVars BY <1>3 DEF Reset
  <2>2. 0 \in 0 .. SizeMax \div 2 /\ (capacity \in Nat => ~(capacity < 0))
    BY SizeAssumption
  <2>3. capacity \in Nat BY SizeAssumption DEF BufInv, BufTypeOK
  <2>4. Inside'
    BY <1>3, <2>3 DEF Reset, arenaVars, BufInv, Inside
  <2>5. BufTypeOK' BY <1>1, <1>3, <2>1, <2>2 DEF Reset, BufInv, BufTypeOK, IInv
  <2> QED BY <1>1, <2>1, <2>4, <2>5 DEF BufInv
<1>4. CASE Restart
  <2>1. Destroy /\ data' = NoData /\ length' = 0 /\ capacity' = 0 /\ cells' = <<>>
    BY <1>4 DEF Restart, Empty
  <2>2. [Next]_arenaVars BY <2>1 DEF Next
  <2>3. 0 \in 0 .. SizeMax \div 2 /\ <<>> \in [1 .. 0 -> Cell]
    BY SizeAssumption
  <2>4. BufTypeOK' /\ Inside'
    BY <1>1, <2>1, <2>2, <2>3 DEF BufTypeOK, Inside, Cell, IInv
  <2> QED BY <1>1, <2>2, <2>4 DEF BufInv
<1>6. CASE OtherTakes
  <2>1. PICK n \in Other : Alloc(n) BY <1>6 DEF OtherTakes
  <2>2. n \in Request BY CapacityAssumption
  <2>3. [Next]_arenaVars BY <2>1, <2>2 DEF Next
  <2>4. given \subseteq given' BY <2>1 DEF Alloc, Take
  <2>5. UNCHANGED <<data, length, capacity>>
        /\ (cells' = cells \/ cells' = [i \in DOMAIN cells |-> Junk])
    BY <1>6 DEF OtherTakes
  <2>6. cells' \in [1 .. capacity -> Cell]
    BY <2>5 DEF BufInv, BufTypeOK, Cell
  <2>7. BufTypeOK'
    BY <1>1, <2>3, <2>5, <2>6 DEF BufInv, BufTypeOK, Cell, IInv
  <2>8. Inside' BY <2>4, <2>5 DEF BufInv, Inside
  <2> QED BY <1>1, <2>3, <2>7, <2>8 DEF BufInv
<1>5. CASE UNCHANGED allVars
  <2>1. UNCHANGED arenaVars /\ UNCHANGED bufVars
    BY <1>5 DEF allVars, arenaVars, bufVars
  <2>2. BufTypeOK' /\ Inside'
    BY <1>1, <2>1 DEF BufInv, BufTypeOK, Inside, IInv, arenaVars, bufVars
  <2> QED BY <1>1, <2>1, <2>2 DEF BufInv
<1> QED BY <1>2, <1>3, <1>4, <1>5, <1>6 DEF BufNext

LEMMA BufBegins == BufInit => BufInv
<1> SUFFICES ASSUME BufInit PROVE BufInv OBVIOUS
<1>1. IInv BY ArenaBegins DEF BufInit
<1>2. 0 \in 0 .. SizeMax \div 2 /\ <<>> \in [1 .. 0 -> Cell]
  BY SizeAssumption
<1> QED BY <1>1, <1>2 DEF BufInit, BufInv, BufTypeOK, Inside, IInv, Cell

LEMMA BufInvariant == BufSpec => []BufInv
BY BufBegins, BufStep, PTL DEF BufSpec

(* Whatever is appended to a buffer and others take, the arena below does   *)
(* what an arena does: the steps of both are steps of the arena, or none.   *)
THEOREM BufferIsClient == BufSpec => Spec
<1>1. BufInit => Init BY DEF BufInit
<1> QED BY <1>1, BufInvariant, BufStep, PTL DEF BufSpec, Spec

(* The variables of a string buffer keep their types. *)
THEOREM BufferTyped == BufSpec => []BufTypeOK
BY BufInvariant, PTL DEF BufInv

(* cco_strbuf_append writes inside the extent the arena gave it last, and   *)
(* leaves room for the NUL, whatever lengths it is asked to append.         *)
THEOREM BufferInside == BufSpec => []Inside
BY BufInvariant, PTL DEF BufInv

-----------------------------------------------------------------------------
(* The text of a buffer, character by character. *)
LEMMA TextCells ==
    ASSUME BufInv
    PROVE  /\ Text \in Seq(Cell) /\ Len(Text) = length
           /\ \A i \in 1 .. length : Text[i] = cells[i]
<1>1. length \in Nat /\ capacity \in Nat /\ length <= capacity
      /\ cells \in [1 .. capacity -> Cell]
  BY SizeAssumption DEF BufInv, BufTypeOK, Inside, Cell
<1>2. \A i \in 1 .. length : cells[i] \in Cell BY <1>1
<1>3. length \in Int /\ 1 \in Int /\ length - 1 + 1 = length
      /\ (~(1 <= length) => length = 0)
      /\ \A i \in 1 .. length : 1 + i - 1 = i
  BY <1>1
<1>4. /\ Text \in Seq(Cell)
      /\ Len(Text) = IF 1 <= length THEN length - 1 + 1 ELSE 0
      /\ \A i \in 1 .. length - 1 + 1 : Text[i] = cells[1 + i - 1]
  BY <1>2, <1>3, SubSeqProperties DEF Text
<1> QED BY <1>3, <1>4

(* The arena below a buffer hands out extents that are apart, and is an     *)
(* allocator, as any arena is.                                              *)
THEOREM BufferApart == BufSpec => []ExtentsApart /\ Allocates
BY BufferIsClient, ArenaApart, ArenaAllocates

(* A buffer holds what was appended to it, in order and each piece whole or *)
(* not at all, if its length is one an int can tell: no growth loses or     *)
(* changes a character, nor does what others take of a modest arena.        *)
THEOREM BufferHolds == BufSpec => HoldsText
<1>1. BufInit => B!Init
  <2> SUFFICES ASSUME BufInit PROVE Text = <<>> BY DEF B!Init
  <2>1. BufInv BY BufBegins
  <2>2. Text \in Seq(Cell) /\ Len(Text) = 0 BY <2>1, TextCells DEF BufInit
  <2> QED BY <2>2
<1>2. ASSUME BufInv, BufInv', [BufNext]_allVars
      PROVE  [Modest' /\ Tellable => B!Next]_<<Text>>
  <2>1. /\ Text \in Seq(Cell) /\ Len(Text) = length
        /\ \A i \in 1 .. length : Text[i] = cells[i]
    BY <1>2, TextCells
  <2>2. (/\ Text \in Seq(Cell) /\ Len(Text) = length
         /\ \A i \in 1 .. length : Text[i] = cells[i])'
    BY <1>2, TextCells, PTL
  <2>3. CASE \E s \in Piece : Add(s)
    <3>1. PICK s \in Piece : Add(s) BY <2>3
    <3>2. s \in Seq(Char) /\ Len(s) \in Nat \ {0} /\ length \in Nat
      BY <1>2, <3>1, PieceFits
    <3>3. /\ length' = length + Len(s) /\ length' < capacity'
          /\ capacity' \in Nat
      BY <1>2, <3>1, AddMakesRoom, SizeAssumption
    <3>. SUFFICES ASSUME Tellable PROVE B!Add BY DEF B!Next
    <3>a. Len(s) <= IntMax
      <4>1. length' - length = Len(s) BY <3>2, <3>3
      <4> QED BY <4>1 DEF Tellable
    <3>4. PICK c \in [1 .. capacity' -> Cell], p \in Printed(s) :
            /\ \A i \in 1 .. length : c[i] = cells[i]
            /\ cells' = Written(c, p)
      BY <1>2, <3>1, AddMakesRoom
    <3>5. /\ \A i \in 1 .. length : cells'[i] = cells[i]
          /\ \A i \in 1 .. Len(s) : cells'[length + i] = s[i]
      BY <3>2, <3>3, <3>4, <3>a, WrittenHolds
    <3>6. s \in Seq(Cell) BY <3>2 DEF Cell
    <3>7. PICK t, u : t = Text /\ u = Text' OBVIOUS
    <3>8. /\ t \o s \in Seq(Cell) /\ Len(t \o s) = length + Len(s)
          /\ \A i \in 1 .. length + Len(s) :
               (t \o s)[i] = IF i <= length THEN t[i] ELSE s[i - length]
      BY <2>1, <3>6, <3>7, ConcatProperties
    <3>9. \A i \in 1 .. length + Len(s) : u[i] = (t \o s)[i]
      <4>1. ASSUME NEW i \in 1 .. length + Len(s) PROVE u[i] = (t \o s)[i]
        <5>1. u[i] = cells'[i] BY <2>2, <3>3, <3>7
        <5>2. CASE i <= length
          <6>1. i \in 1 .. length BY <3>2, <5>2
          <6> QED BY <2>1, <3>5, <3>7, <3>8, <5>1, <5>2, <6>1
        <5>3. CASE ~(i <= length)
          <6>1. i - length \in 1 .. Len(s) /\ length + (i - length) = i
            BY <3>2, <5>3
          <6>2. cells'[i] = s[i - length] BY <3>5, <6>1
          <6> QED BY <3>8, <5>1, <5>3, <6>2
        <5> QED BY <5>2, <5>3
      <4> QED BY <4>1
    <3>10. u = t \o s
      <4>1. u \in Seq(Cell) /\ Len(u) = length + Len(s) BY <2>2, <3>3, <3>7
      <4> QED BY <3>8, <3>9, <4>1, SeqEqual
    <3>11. B!Add BY <3>7, <3>10 DEF B!Add
    <3> QED BY <3>11
  <2>4. CASE Reset \/ Restart
    <3>1. length' = 0 BY <2>4 DEF Reset, Restart, Empty
    <3>2. Text' = <<>> BY <2>2, <3>1
    <3> QED BY <3>2 DEF B!Clear, B!Next
  <2>6. CASE OtherTakes
    <3>1. CASE Modest'
      <4>1. cells' = cells /\ length' = length BY <2>6, <3>1 DEF OtherTakes
      <4> QED BY <4>1 DEF Text
    <3>2. CASE ~Modest' BY <3>2
    <3> QED BY <3>1, <3>2
  <2>5. CASE UNCHANGED allVars
    <3>1. Text' = Text BY <2>5 DEF allVars, Text
    <3> QED BY <3>1
  <2> QED BY <1>2, <2>3, <2>4, <2>5, <2>6 DEF BufNext
<1> QED BY <1>1, <1>2, BufInvariant, PTL DEF BufSpec, HoldsText
=============================================================================
