------------------------------ MODULE MCCcoText ------------------------------
(* Texts for TLC: every one of up to four characters, and longer ones with   *)
(* comments, escapes and keywords.                                          *)
EXTENDS CcoText

MCLetter == {"a", "e", "f", "l", "n", "N", "o", "r", "s", "t", "u", "x"}
MCDigit == {"0", "1"}
MCControl == {"CTRL"}

Alphabet == {" ", NL, "/", "*", Quote, Backslash, "n", "0", "(", "=", "$",
             "-", "&", FF}
MCSource ==
    UNION {[1 .. k -> Alphabet] : k \in 0 .. 4}
    \cup {<<Quote>> \o s \o <<Quote>> : s \in [1 .. 3 -> {Backslash, "n", NL, Quote}]}
    \cup {<<"/", "*">> \o s : s \in [1 .. 4 -> {"/", "*", NL, "0"}]}
    \cup {w \o <<"&", "&">> \o v :
            w, v \in {<<"N", "o", "n", "e">>, <<"n", "_", "-", "0">>,
                      <<"t", "r", "u", "e", "0">>, <<"0", ".", "a">>}}

Leaf(type, t) == Node(type, t, <<>>, <<>>)
Strings == {Leaf("string", s) :
              s \in {<<>>, <<Backslash, "n">>, <<NL, Quote>>, <<"\t", "\r">>,
                     <<"*", "/">>, <<"a", FF>>, <<"CTRL">>}}
Leaves == {Leaf("none", <<>>), Leaf("true", <<>>), Leaf("false", <<>>),
           Leaf("integer", <<"0">>), Leaf("integer", <<"-", "1">>),
           Leaf("float", <<"0", ".", "1">>), Leaf("float", <<"-", "1">>),
           Leaf("map", <<>>), Leaf("array", <<>>),
           Leaf("instance", <<"a">>), Leaf("instance", <<>>), NoTree}
Some == {Leaf("true", <<>>), Leaf("string", <<Backslash, "n">>), NoTree,
         Leaf("array", <<>>)}
Array(items) == Node("array", <<>>, <<>>, items)
With(type, t, items) ==   \* a map or an instance, with keys
    Node(type, t, [i \in DOMAIN items |-> <<"a", "x">>], items)
MCTrees == Leaves \cup Strings
           \cup {Array(<<o>>) : o \in Leaves \cup Strings}
           \cup {Array(<<o, p>>) : o, p \in Some}
           \cup {With("map", <<>>, <<o>>) : o \in Some}
           \cup {With("instance", <<"a">>, <<o>>) : o \in Some}
           \cup {Array(<<With("map", <<>>, <<o>>), o>>) : o \in Some}
           \cup {Array(<<Array(<<o>>), p>>) : o, p \in Some}
MCHeight[o \in MCTrees] ==
    IF o.items = <<>> THEN 0
    ELSE 1 + Max({MCHeight[o.items[i]] : i \in DOMAIN o.items})
=============================================================================
