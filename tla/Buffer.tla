-------------------------------- MODULE Buffer -------------------------------
(* What a string buffer promises: its text is what was appended to it, in  *)
(* order, each piece whole or not at all.                                  *)
EXTENDS Sequences

CONSTANT Piece
VARIABLE text

Init == text = <<>>
Add == \E s \in Piece : text' = text \o s
Clear == text' = <<>>

Next == Add \/ Clear
Spec == Init /\ [][Next]_text
=============================================================================
