------------------------------- MODULE CcoDiag -------------------------------
(***************************************************************************)
(* The diagnostics (internal/diag.c) of each thread: a list of a fixed     *)
(* length and the first error, cleared when a parse begins or the caller   *)
(* asks.  Of an entry only its code is kept here; CCO_OK is a warning.     *)
(***************************************************************************)
EXTENDS Integers, Sequences

CONSTANTS
    Thread,
    Code,          \* the codes recorded, OK among them
    OK,            \* CCO_OK
    MaxCount,      \* CCO_DIAG_MAX_COUNT, 64 in the code
    MaxRecords     \* bound on the records between two clears

ASSUME CodeAssumption == OK \in Code
ASSUME CountAssumption == MaxCount \in Nat /\ MaxRecords \in Nat

VARIABLES
    diags,         \* t_diags
    count,         \* t_diag_count
    first,         \* t_first_error
    log            \* all that was recorded since the last clear

vars == <<diags, count, first, log>>

TypeOK ==
    /\ diags \in [Thread -> [1 .. MaxCount -> Code]]
    /\ count \in [Thread -> 0 .. MaxCount]
    /\ first \in [Thread -> Code]
    /\ log \in [Thread -> Seq(Code)]

(* Thread-local storage starts as zeroes, and CCO_OK is zero. *)
Init ==
    /\ diags = [t \in Thread |-> [i \in 1 .. MaxCount |-> OK]]
    /\ count = [t \in Thread |-> 0]
    /\ first = [t \in Thread |-> OK]
    /\ log = [t \in Thread |-> <<>>]

(* cco_diag_clear *)
Clear(t) ==
    /\ count' = [count EXCEPT ![t] = 0]
    /\ first' = [first EXCEPT ![t] = OK]
    /\ log' = [log EXCEPT ![t] = <<>>]
    /\ UNCHANGED diags

Stores(t) == count[t] < MaxCount

(* Mutant: the last error is kept instead of the first. *)
FirstError_last(t, code) == IF code # OK THEN code ELSE first[t]
FirstError(t, code) == IF first[t] = OK /\ code # OK THEN code ELSE first[t]

(* Mutant: a full list starts again from its beginning. *)
Store_ring(t, code) ==
    IF Stores(t)
      THEN /\ diags' = [diags EXCEPT ![t][count[t] + 1] = code]
           /\ count' = [count EXCEPT ![t] = @ + 1]
      ELSE /\ diags' = [diags EXCEPT ![t][1] = code]
           /\ UNCHANGED count
Store(t, code) ==
    IF Stores(t)
      THEN /\ diags' = [diags EXCEPT ![t][count[t] + 1] = code]
           /\ count' = [count EXCEPT ![t] = @ + 1]
      ELSE UNCHANGED <<diags, count>>

(* cco_diag_record *)
Record(t, code) ==
    /\ Len(log[t]) < MaxRecords
    /\ first' = [first EXCEPT ![t] = FirstError(t, code)]
    /\ Store(t, code)
    /\ log' = [log EXCEPT ![t] = Append(@, code)]

Next == \E t \in Thread : Clear(t) \/ \E code \in Code : Record(t, code)

Spec == Init /\ [][Next]_vars

-----------------------------------------------------------------------------
(* Properties *)

(* cco_get_last_error answers with the first error since the list was      *)
(* cleared, also when warnings came before it or filled the list.          *)
FirstErrorKept ==
    \A t \in Thread :
        \/ first[t] = OK /\ \A i \in DOMAIN log[t] : log[t][i] = OK
        \/ /\ first[t] # OK
           /\ \E i \in DOMAIN log[t] :
                /\ log[t][i] = first[t]
                /\ \A j \in DOMAIN log[t] : j < i => log[t][j] = OK

(* The list holds the first records, in order, up to its length; what an   *)
(* earlier parse left in the array is not part of it.                      *)
ListHoldsFirst ==
    \A t \in Thread :
        /\ count[t] = IF Len(log[t]) < MaxCount THEN Len(log[t]) ELSE MaxCount
        /\ \A i \in 1 .. count[t] : diags[t][i] = log[t][i]
=============================================================================
