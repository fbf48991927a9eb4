------------------------------ MODULE CcoStrbuf ------------------------------
(***************************************************************************)
(* A string buffer (internal/strbuf.c) over an arena: it doubles, copies   *)
(* what it holds to a new extent and never gives the old one back.  The    *)
(* lexer empties its buffer for every string and keeps its memory.         *)
(***************************************************************************)
EXTENDS CcoArena

CONSTANTS
    InitCapacity,  \* STRBUF_INIT_CAPACITY, 64 in the code
    Char,          \* the characters
    Piece,         \* what may be appended
    IntMax,        \* INT_MAX
    Other,         \* sizes that others ask of the same arena
    NUL,           \* the character '\0'
    Junk,          \* what memory holds before it is written
    NoData         \* the NULL pointer

(* A piece and its NUL are an object of C, so no larger than SIZE_MAX.     *)
ASSUME PieceAssumption ==
    /\ NUL \in Char
    /\ \A s \in Piece : /\ s \in Seq(Char) /\ Len(s) < SizeMax
                        /\ s = <<NUL>> \/ \A i \in DOMAIN s : s[i] # NUL
    /\ IntMax \in Nat \ {0}
ASSUME CapacityAssumption == /\ InitCapacity \in 1 .. SizeMax \div 2
                             /\ 0 .. SizeMax \div 2 \subseteq Request
                             /\ Other \subseteq Request

VARIABLES
    data,              \* the extent the buffer writes to
    length, capacity,
    cells              \* what that extent holds, capacity bytes

bufVars == <<data, length, capacity, cells>>
allVars == <<limit, blocks, total, given, data, length, capacity, cells>>

-----------------------------------------------------------------------------
Empty == data' = NoData /\ length' = 0 /\ capacity' = 0 /\ cells' = <<>>

(* cco_strbuf_init *)
BufInit ==
    /\ Init
    /\ data = NoData /\ length = 0 /\ capacity = 0 /\ cells = <<>>

(* (int)len: the length keeps its lowest bits.                             *)
Precision(len) ==
    LET low == len % (2 * (IntMax + 1))
    IN  IF low <= IntMax THEN low ELSE low - 2 * (IntMax + 1)

(* What snprintf prints of s: as much as the precision says, up to a NUL.  *)
(* A negative one counts as none; the whole is then more than an int can   *)
(* tell, and any beginning of it may have been printed when that is found. *)
Printed(s) ==
    IF s = <<NUL>> THEN {<<>>}
    ELSE {SubSeq(s, 1, k) : k \in {k \in 0 .. Len(s) :
             Precision(Len(s)) >= 0 => k = Precision(Len(s))}}

(* It goes to the end of the text, and a NUL behind it. *)
Written(c, p) ==
    [i \in DOMAIN c |->
       IF i \in length + 1 .. length + Len(p) THEN p[i - length]
       ELSE IF i = length + Len(p) + 1 THEN NUL ELSE c[i]]

(* Mutant: no room for the NUL that snprintf writes. *)
Needed_short(s) == Wrap(length + Len(s))
Needed(s) == Wrap(length + Len(s) + 1)

NewCapacity(needed) ==
    LET doubled == IF capacity = 0 THEN InitCapacity ELSE 2 * capacity
    IN  IF doubled < needed THEN needed ELSE doubled

(* Mutant: the text is not copied when the buffer grows. *)
Copied_not(cap) == [i \in 1 .. cap |-> Junk]
Copied(cap) == [i \in 1 .. cap |-> IF i <= length THEN cells[i] ELSE Junk]

(* cco_strbuf_ensure_capacity when it has to grow. *)
Grow(cap) ==
    /\ cap <= SizeMax \div 2
    /\ Alloc(cap)
    /\ data' \in given' \ given
    /\ capacity' = cap

(* cco_strbuf_append and cco_strbuf_appendf; an append that fails, for the *)
(* guard, the capacity or the arena, leaves the buffer as it was.          *)
Add(s) ==
    /\ s # <<>>
    /\ SizeMax - length >= Wrap(Len(s) + 1)
    /\ \/ /\ capacity >= Needed(s)
          /\ \E p \in Printed(s) : cells' = Written(cells, p)
          /\ UNCHANGED <<data, capacity, arenaVars>>
       \/ /\ capacity < Needed(s)
          /\ Grow(NewCapacity(Needed(s)))
          /\ \E p \in Printed(s) :
               cells' = Written(Copied(NewCapacity(Needed(s))), p)
    /\ length' = length + Len(s)

(* The lexer starts another string. *)
Reset == length' = 0 /\ UNCHANGED <<data, capacity, cells, arenaVars>>

(* The call ends and the next one begins. *)
Restart == Destroy /\ Empty

(* Who shares the arena (the parser has a pointer to the lexer's) takes    *)
(* memory from it, and writes to it, where it may lie over the buffer's if *)
(* the arena is not modest.                                                *)
OtherTakes ==
    /\ \E n \in Other : Alloc(n)
    /\ cells' \in IF Modest' THEN {cells} ELSE {[i \in DOMAIN cells |-> Junk]}
    /\ UNCHANGED <<data, length, capacity>>

BufNext == (\E s \in Piece : Add(s)) \/ Reset \/ OtherTakes \/ Restart

BufSpec == BufInit /\ [][BufNext]_allVars

-----------------------------------------------------------------------------
(* Properties *)

BufTypeOK ==
    /\ TypeOK
    /\ length \in 0 .. SizeMax \div 2
    /\ capacity \in 0 .. SizeMax \div 2
    /\ cells \in [1 .. capacity -> Char \cup {Junk}]

(* The buffer writes inside memory the arena gave it and that is no older  *)
(* text's, and always has room for the NUL.                                *)
Inside ==
    IF capacity = 0
      THEN data = NoData /\ length = 0
      ELSE /\ data \in given /\ capacity <= data.size
           /\ length < capacity

Text == SubSeq(cells, 1, length)

(* The buffer holds what was appended to it, whatever growth has moved and  *)
(* others take: each step appends a piece to all that was there, or empties *)
(* it.  Of a piece longer than an int can tell this is not so, and it is    *)
(* not promised.                                                            *)
Tellable == length' - length <= IntMax
B == INSTANCE Buffer WITH text <- Text
HoldsText == B!Init /\ [][Modest' /\ Tellable => B!Next]_<<Text>>
=============================================================================
