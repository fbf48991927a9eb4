------------------------------ MODULE MCCcoEval ------------------------------
(* The values TLC runs CcoEval with. *)
EXTENDS CcoEval

Codes == {"ok", "syntax", "range", "forbidden"}
Paths == {<<"/">>, <<"/", "a">>, <<"/", "a", "b">>, <<"/", "a", "/", "b">>,
          <<"/", "b", "/", "a">>, <<"/", "a", "\\">>,
          <<"/", "a", "\\", "b">>}
Characters == {"/", "a", "b", "\\"}
Unresolved == <<>>
Arguments == {<<>>, <<"x", "x", "y">>}

Everything == Feature \ {"eval"}
Choices ==
    {[allow |-> Feature, max_instantiations |-> 2,
      restrict |-> TRUE, base |-> <<"/", "a">>],
     [allow |-> {"calls"}, max_instantiations |-> 0,
      restrict |-> TRUE, base |-> <<"/">>],
     [allow |-> {}, max_instantiations |-> 1,
      restrict |-> TRUE, base |-> <<"/", "a", "\\">>],
     [allow |-> {}, max_instantiations |-> 1,
      restrict |-> TRUE, base |-> Unresolved],
     [allow |-> {"format"}, max_instantiations |-> 1,
      restrict |-> FALSE, base |-> Unresolved]}
=============================================================================
