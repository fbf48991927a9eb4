---------------------------- MODULE MCCcoStrbuf ------------------------------
(* CcoStrbuf for TLC: sizes below 24, a first capacity of two, integers up  *)
(* to two: of a piece of three any beginning is printed, of seven one.      *)
EXTENDS CcoStrbuf

MCChar == {"a", "b", NUL}
MCPiece == {<<"a">>, <<NUL>>, <<"b", "a">>, <<"a", "a", "a">>,
            [i \in 1 .. 7 |-> "a"]}
MCRequest == 0 .. 23
MCOther == {9, 21}
MCLimit == {0, 8, 23}
=============================================================================
