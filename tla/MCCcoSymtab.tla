----------------------------- MODULE MCCcoSymtab -----------------------------
(* The symbol table for TLC: three names, one the beginning of another; two *)
(* collide at the end of every array, the third is where they wrap around. *)
EXTENDS CcoSymtab

MCTable == {"aliases", "enums", "templates"}
MCStr == {<<1>>, <<1, 2>>, <<2>>}
MCHash == [s \in MCStr |-> CASE s = <<1>> -> 7 [] s = <<1, 2>> -> 7
                             [] s = <<2>> -> 8]
=============================================================================
