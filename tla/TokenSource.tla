----------------------------- MODULE TokenSource -----------------------------
(***************************************************************************)
(* What the parser may take for granted of the calls of cco_lexer_next,    *)
(* and CcoParser does: each takes something of the text, up to the end or  *)
(* to a '$', which it gives an empty identifier for again and again; after *)
(* a string that never ends only the end is left.                          *)
(***************************************************************************)
EXTENDS Naturals, Sequences

VARIABLES
    read,   \* what the calls gave, by kind
    left    \* how much of the text is left

Last == IF read = <<>> THEN "none" ELSE read[Len(read)]
Gives(kind) == read' = Append(read, kind)

Init == read = <<>> /\ left \in Nat

(* A text that was just written is there to be read. *)
Written == read = <<>> /\ left' \in Nat /\ UNCHANGED read

Takes == /\ Last \notin {"eof", "dollar", "unended"}
         /\ \E kind \in {"token", "error", "unended"} : Gives(kind)
         /\ left' \in Nat /\ left' < left
Sticks == /\ Last \notin {"eof", "unended"}
          /\ Gives("dollar")
          /\ IF Last = "dollar" THEN UNCHANGED left ELSE left' <= left
Ends == /\ Last \notin {"eof", "dollar"}
        /\ Gives("eof")
        /\ left' <= left

Next == Written \/ Takes \/ Sticks \/ Ends
Spec == Init /\ [][Next]_<<read, left>>
=============================================================================
