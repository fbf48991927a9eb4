------------------------------- MODULE Interner ------------------------------
(***************************************************************************)
(* What a set of intern tables promises (hash.h): equal strings get the    *)
(* same pointer from a table, different ones never do, a pointer stays     *)
(* good until the table is destroyed, and a call may fail and change       *)
(* nothing.                                                                *)
(***************************************************************************)
CONSTANTS Table, Str, Addr, Null, NoCall

VARIABLES
    names,   \* for each table the strings it has, with their addresses
    call,    \* the table and the string of the call that is running
    answer   \* what the last call returned

Used == {p[2] : p \in UNION {names[t] : t \in Table}}

Init == names = [t \in Table |-> {}] /\ call = NoCall /\ answer = Null

Ask == /\ call = NoCall
       /\ call' \in Table \X Str
       /\ UNCHANGED <<names, answer>>

Known == /\ <<call[2], answer'>> \in names[call[1]]
         /\ UNCHANGED names

New == /\ \A a \in Addr : <<call[2], a>> \notin names[call[1]]
       /\ answer' \in Addr \ Used
       /\ names' = [names EXCEPT ![call[1]] = @ \cup {<<call[2], answer'>>}]

Failed == answer' = Null /\ UNCHANGED names

Tell == call # NoCall /\ call' = NoCall /\ (Known \/ New \/ Failed)

Forget == /\ call = NoCall
          /\ \E t \in Table : names' = [names EXCEPT ![t] = {}]
          /\ UNCHANGED <<call, answer>>

Next == Ask \/ Tell \/ Forget
Spec == Init /\ [][Next]_<<names, call, answer>>
=============================================================================
