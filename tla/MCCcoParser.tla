----------------------------- MODULE MCCcoParser -----------------------------
(* CcoParser for TLC: the options the runs pass. *)
EXTENDS CcoParser

Opt(d, s, l, b) ==
    [max_depth |-> d, max_steps |-> s, lenient |-> l, tooBig |-> b]

NoLimits == {Opt(0, 0, TRUE, FALSE)}

(* A limit of depth, of steps, of both and of neither, both bracket modes, *)
(* a document that is too big.                                             *)
MCOptions == {Opt(2, 0, TRUE, FALSE), Opt(0, 3, FALSE, FALSE),
              Opt(1, 1, FALSE, FALSE), Opt(0, 0, FALSE, FALSE),
              Opt(0, 0, TRUE, TRUE)}
=============================================================================
