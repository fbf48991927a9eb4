------------------------------ MODULE CcoIntern ------------------------------
(***************************************************************************)
(* The intern tables (internal/hash.c): open addressing with linear        *)
(* probing, growth to twice the size at three quarters, strings kept in an *)
(* arena the tables share.                                                 *)
(*                                                                         *)
(* One thread runs one call at a time.  A call is a step for its check of  *)
(* the load, one per entry it moves to larger tables and one for the probe *)
(* and the insertion; any of its two allocations may fail.  An address is  *)
(* the place of the copy among the strings of the arena; 0 is NULL.  No    *)
(* string has a NUL inside: the callers pass strlen.                       *)
(***************************************************************************)
EXTENDS Integers, Sequences, FiniteSets

CONSTANTS
    Table,      \* the tables that share the arena
    Str,        \* strings
    Hash,       \* cco_hash_fnv1a
    InitCap,    \* HASH_INIT_CAPACITY
    MaxCap,     \* bound on the capacity of a table
    MaxCopies   \* bound on the strings in the arena

ASSUME HashAssumption == Hash \in [Str -> Nat]
ASSUME CapAssumption == /\ InitCap \in Nat /\ InitCap >= 2
                        /\ MaxCap \in Nat /\ MaxCopies \in Nat

VARIABLES
    entries,   \* the keys of each table
    capacity,
    count,
    copies,    \* the strings in the arena
    pc,        \* what the running call does: "idle", "rehash" or "probe"
    call,      \* its table and its string
    fresh,     \* new_entries
    next,      \* the entry it moves next
    answer     \* what the last call returned

tables == <<entries, capacity, count, copies>>
internVars == <<tables, pc, call, fresh, next, answer>>

Null == 0
NoCall == <<>>
tab == call[1]
str == call[2]
Address == 1 .. MaxCopies

Keys(e, c) == {e[i] : i \in 0 .. c - 1} \ {Null}
Known(t) == Keys(entries[t], capacity[t])

TypeOK ==
    /\ capacity \in [Table -> Nat]
    /\ DOMAIN entries = Table
    /\ \A t \in Table :
         entries[t] \in [0 .. capacity[t] - 1 -> 0 .. Len(copies)]
    /\ count \in [Table -> Nat]
    /\ copies \in Seq(Str) /\ Len(copies) <= MaxCopies
    /\ pc \in {"idle", "rehash", "probe"}
    /\ IF pc = "idle" THEN call = NoCall ELSE call \in Table \X Str
    /\ next \in Nat /\ (pc # "rehash" => next = 0)
    /\ answer \in 0 .. Len(copies)

(* cco_intern_table_init of every table *)
Init ==
    /\ entries = [t \in Table |-> <<>>]
    /\ capacity = [t \in Table |-> 0]
    /\ count = [t \in Table |-> 0]
    /\ copies = <<>>
    /\ pc = "idle"
    /\ call = NoCall
    /\ fresh = <<>>
    /\ next = 0
    /\ answer = Null

-----------------------------------------------------------------------------
(* The slot a probe for s looks at after d others, in a table of size c. *)
Slot(s, d, c) == (Hash[s] + d) % c

(* Mutant: the bytes past len are not looked at. *)
Matches_prefix(a, s) ==
    Len(s) <= Len(copies[a]) /\ s = SubSeq(copies[a], 1, Len(s))
Matches(a, s) == copies[a] = s

(* The probe for s in e stops after d occupied slots with other strings. *)
Passed(e, c, s, d) ==
    \A j \in 0 .. d - 1 :
        e[Slot(s, j, c)] # Null /\ ~Matches(e[Slot(s, j, c)], s)

(* The first free slot of e for s, where the rehash puts it. *)
Free(e, c, s, d) ==
    /\ e[Slot(s, d, c)] = Null
    /\ \A j \in 0 .. d - 1 : e[Slot(s, j, c)] # Null

(* Mutant: the table grows one string late. *)
Crowded_late(t) == count[t] > (capacity[t] * 3) \div 4
Crowded(t) == count[t] >= (capacity[t] * 3) \div 4
NewCap(t) == IF capacity[t] = 0 THEN InitCap ELSE 2 * capacity[t]

(* cco_intern_string: the load is looked at before the string is.          *)
Begin(t, s) ==
    /\ pc = "idle"
    /\ call' = <<t, s>>
    /\ IF Crowded(t)
         THEN /\ NewCap(t) <= MaxCap
              /\ pc' = "rehash"
              /\ fresh' = [i \in 0 .. NewCap(t) - 1 |-> Null]
         ELSE /\ pc' = "probe"
              /\ UNCHANGED fresh
    /\ UNCHANGED <<tables, next, answer>>

(* Mutant: a key is moved to the slot it had. *)
Rehash_kept ==
    /\ pc = "rehash" /\ next < capacity[tab]
    /\ fresh' = [fresh EXCEPT ![next] = entries[tab][next]]
    /\ next' = next + 1
    /\ UNCHANGED <<tables, pc, call, answer>>

(* cco_intern_table_resize moves one entry after the other...              *)
Rehash ==
    /\ pc = "rehash" /\ next < capacity[tab]
    /\ LET a == entries[tab][next]
       IN  \/ a = Null /\ UNCHANGED fresh
           \/ /\ a # Null
              /\ \E d \in 0 .. NewCap(tab) - 1 :
                   /\ Free(fresh, NewCap(tab), copies[a], d)
                   /\ fresh' = [fresh EXCEPT
                                  ![Slot(copies[a], d, NewCap(tab))] = a]
    /\ next' = next + 1
    /\ UNCHANGED <<tables, pc, call, answer>>

(* Mutant: the capacity is not updated. *)
Grown_blind ==
    /\ pc = "rehash" /\ next = capacity[tab]
    /\ entries' = [entries EXCEPT ![tab] = fresh]
    /\ fresh' = <<>>
    /\ pc' = "probe"
    /\ next' = 0
    /\ UNCHANGED <<capacity, count, copies, call, answer>>

(* ... and frees the old array.                                            *)
Grown ==
    /\ pc = "rehash" /\ next = capacity[tab]
    /\ entries' = [entries EXCEPT ![tab] = fresh]
    /\ capacity' = [capacity EXCEPT ![tab] = NewCap(tab)]
    /\ fresh' = <<>>
    /\ pc' = "probe"
    /\ next' = 0
    /\ UNCHANGED <<count, copies, call, answer>>

(* The larger array cannot be had: NULL, also for a string the table has.  *)
GrowFails ==
    /\ pc = "rehash" /\ next = 0
    /\ answer' = Null
    /\ fresh' = <<>>
    /\ pc' = "idle" /\ call' = NoCall
    /\ UNCHANGED <<tables, next>>

(* The probe comes to the string... *)
Found ==
    /\ pc = "probe"
    /\ \E d \in 0 .. capacity[tab] - 1 :
         LET a == entries[tab][Slot(str, d, capacity[tab])]
         IN  /\ Passed(entries[tab], capacity[tab], str, d)
             /\ a # Null /\ Matches(a, str)
             /\ answer' = a
    /\ pc' = "idle" /\ call' = NoCall
    /\ UNCHANGED <<tables, fresh, next>>

(* ... or to a free slot, and the string is copied to the arena, or cannot. *)
Absent ==
    /\ pc = "probe"
    /\ \E d \in 0 .. capacity[tab] - 1 :
         LET c == capacity[tab]
         IN  /\ Passed(entries[tab], c, str, d)
             /\ entries[tab][Slot(str, d, c)] = Null
             /\ \/ /\ Len(copies) < MaxCopies
                   /\ copies' = Append(copies, str)
                   /\ entries' = [entries EXCEPT
                                    ![tab][Slot(str, d, c)] = Len(copies')]
                   /\ count' = [count EXCEPT ![tab] = @ + 1]
                   /\ answer' = Len(copies')
                \/ answer' = Null /\ UNCHANGED <<entries, count, copies>>
    /\ pc' = "idle" /\ call' = NoCall
    /\ UNCHANGED <<capacity, fresh, next>>

(* cco_intern_table_destroy: the strings stay in the arena. *)
Destroy(t) ==
    /\ pc = "idle"
    /\ entries' = [entries EXCEPT ![t] = <<>>]
    /\ capacity' = [capacity EXCEPT ![t] = 0]
    /\ count' = [count EXCEPT ![t] = 0]
    /\ UNCHANGED <<copies, pc, call, fresh, next, answer>>

Running == Rehash \/ Grown \/ GrowFails \/ Found \/ Absent
Next == \/ \E t \in Table, s \in Str : Begin(t, s)
        \/ Running
        \/ \E t \in Table : Destroy(t)

Spec == Init /\ [][Next]_internVars

-----------------------------------------------------------------------------
(* Properties *)

(* Every key of a table can be found: no slot between the one its hash     *)
(* names and the one it is in is free, whatever order the keys came in,    *)
(* were moved in or collided in, and however probes wrap around.           *)
Findable ==
    \A t \in Table : \A i \in 0 .. capacity[t] - 1 :
        LET e == entries[t]
            s == copies[e[i]]
        IN  e[i] # Null =>
              \E d \in 0 .. capacity[t] - 1 :
                 /\ Slot(s, d, capacity[t]) = i
                 /\ \A j \in 0 .. d - 1 : e[Slot(s, j, capacity[t])] # Null

(* A probe ends: the array it walks has a free slot, also while the table  *)
(* is being moved, and after allocations that failed.                      *)
ProbeEnds ==
    /\ pc = "probe" =>
         \E i \in 0 .. capacity[tab] - 1 : entries[tab][i] = Null
    /\ pc = "rehash" => \E i \in DOMAIN fresh : fresh[i] = Null

(* The tables keep what hash.h promises of them. *)
Names == [t \in Table |-> {<<copies[a], a>> : a \in Known(t)}]
Abstract == INSTANCE Interner WITH Addr <- Address, names <- Names
Interns == Abstract!Spec
=============================================================================
