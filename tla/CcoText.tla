------------------------------- MODULE CcoText -------------------------------
(***************************************************************************)
(* Texts: what cco_serialize_to_string writes (internal/cco.c,             *)
(* internal/serializer.c), read again by the lexer, or any text a caller   *)
(* has.                                                                    *)
(*                                                                         *)
(* The serializer walks over a tree by calling itself; what the calls that *)
(* have begun still have to do is a sequence of steps.  A step appends to  *)
(* the buffer, and may fail, or is a call or a round of a loop.            *)
(* A tree is a record: its type, its text (of a string, what is printed of *)
(* a number, the name of a template), its items, and of a map the keys or  *)
(* of an instance the names of the fields they belong to.                  *)
(***************************************************************************)
EXTENDS CcoLexer, SequencesExt

CONSTANTS
    Trees,          \* objects that are serialized, and all below them
    Height,         \* of these, as none is below itself
    IndentSpaces,   \* indent_spaces, 4 in the code
    Control         \* the characters written as \xNN

VARIABLES
    tree,      \* the object being written, and
    pretty,    \* whether with newlines
    todo,      \* the steps that are left
    out,       \* the text in the buffer
    outcome    \* "given", or of the writing: "writing", "ok", "failed"

serVars == <<tree, pretty, todo, out, outcome>>
textVars == <<lexVars, serVars>>

Node(type, t, keys, items) ==
    [type |-> type, text |-> t, keys |-> keys, items |-> items]
Types == {"null", "none", "true", "false", "integer", "float", "string",
          "array", "map", "instance"}
NoTree == Node("null", <<>>, <<>>, <<>>)   \* NULL

None == <<"N", "o", "n", "e">>
True == <<"t", "r", "u", "e">>
False == <<"f", "a", "l", "s", "e">>

(* The names the lexer reads, and what is printed of a number that needs   *)
(* no exponent, but for its sign.                                          *)
Name(t) ==
    /\ t # <<>> /\ t[1] \in Letter \cup {"_"}
    /\ \A i \in DOMAIN t : t[i] \in Letter \cup Digit \cup {"_", "-"}
Numeral(t) ==
    /\ t # <<>> /\ t[1] \in Digit
    /\ \A i \in DOMAIN t : t[i] \in Digit \cup {"."}

ASSUME TextAssumption ==
    /\ IndentSpaces \in Nat
    /\ \A w \in {None, True, False} : \A i \in DOMAIN w : w[i] \in Letter
    /\ Letter \cap Digit = {}
    /\ (Letter \cup Digit) \cap {"(", ")", ",", "#"} = {}
    /\ Control \cap (Letter \cup Digit \cup {"(", ")", ",", "#", "-", "_", ".", NL,
                                            "\t", "\r", Quote, Backslash}) = {}
ASSUME TreeAssumption ==
    /\ Height \in [Trees -> Nat]
    /\ \A o \in Trees :
         /\ o.type \in Types
         /\ o.text \in Seq(STRING \ {End}) /\ o.items \in Seq(Trees)
         /\ \A i \in DOMAIN o.items : Height[o.items[i]] < Height[o]
         /\ o.type \in {"integer", "float"} =>
              /\ o.text # <<>>
              /\ Numeral(IF Head(o.text) = "-" THEN Tail(o.text) ELSE o.text)
         /\ o.type = "integer" => \A i \in DOMAIN o.text : o.text[i] # "."
         /\ o.type \in {"map", "instance"} =>
              o.keys \in [DOMAIN o.items -> Seq(STRING \ {End})]
         /\ o.type = "instance" /\ o.text # <<>> =>
              Name(o.text) /\ o.text \notin {None, True, False}

-----------------------------------------------------------------------------
(* The steps of serialize_recursive *)

Piece(s) == [do |-> "append", text |-> s, checked |-> TRUE]
Loose(s) == [do |-> "append", text |-> s, checked |-> FALSE]
Call(o, indent) == [do |-> "object", of |-> o, indent |-> indent]
ItemsFrom(o, i, indent) ==
    [do |-> "items", of |-> o, from |-> i, indent |-> indent]

Hex == <<Backslash, "x", "0", "1">>   \* any two digits

(* Mutant: a backslash is written as it is. *)
Written_bare(c) ==
    CASE c = NL -> <<Backslash, "n">>
      [] c = "\t" -> <<Backslash, "t">>
      [] c = "\r" -> <<Backslash, "r">>
      [] c = Quote -> <<Backslash, c>>
      [] c \in Control -> Hex
      [] OTHER -> <<c>>

(* serialize_string, of a character; 0xFF is no control character. *)
Written(c) ==
    CASE c = NL -> <<Backslash, "n">>
      [] c = "\t" -> <<Backslash, "t">>
      [] c = "\r" -> <<Backslash, "r">>
      [] c \in {Backslash, Quote} -> <<Backslash, c>>
      [] c \in Control -> Hex
      [] OTHER -> <<c>>

(* Its appends are all looked at, so that it is written whole or fails.    *)
Quoted(s) ==
    <<Quote>> \o FlattenSeq([i \in DOMAIN s |-> Written(s[i])]) \o <<Quote>>

(* print_indent: nobody looks at what becomes of white space. *)
Indent(k) == [i \in 1 .. k |-> Loose(<<" ">>)]

(* serialize_recursive, up to the loop over the items, which a map and the  *)
(* fields of an instance do not have.                                      *)
Begin(o, indent) ==
    CASE o.type = "none" -> <<Piece(None)>>
      [] o.type = "true" -> <<Piece(True)>>
      [] o.type = "false" -> <<Piece(False)>>
      [] o.type \in {"integer", "float"} -> <<Piece(o.text)>>
      [] o.type = "string" -> <<Piece(Quoted(o.text))>>
      [] o.type = "array" ->
           <<Piece(<<"(">>)>>
           \o (IF pretty /\ o.items # <<>> THEN <<Loose(<<NL>>)>> ELSE <<>>)
           \o <<ItemsFrom(o, 1, indent + IndentSpaces)>>
      [] o.type = "map" -> <<Piece(<<"(", ")">>)>>
      [] o.type = "instance" ->
           <<Piece(<<"#">>)>>
           \o (IF o.text = <<>> THEN <<>> ELSE <<Piece(o.text)>>)
           \o <<Piece(<<"(", ")">>)>>

(* A round of the loop, or what comes behind it *)
Round(o, i, indent) ==
    LET n == Len(o.items)
    IN  IF i <= n
          THEN (IF pretty THEN Indent(indent) ELSE <<>>)
               \o <<Call(o.items[i], indent)>>
               \o (IF i < n THEN <<Piece(IF pretty THEN <<",", NL>> ELSE <<",">>)>>
                   ELSE IF pretty THEN <<Loose(<<NL>>)>> ELSE <<>>)
               \o <<ItemsFrom(o, i + 1, indent)>>
          ELSE (IF pretty /\ n > 0 THEN Indent(indent - IndentSpaces) ELSE <<>>)
               \o <<Piece(<<")">>)>>

-----------------------------------------------------------------------------
(* cco_serialize_to_string *)

TextInit ==
    \/ /\ \E s \in Source : LexInit(s)
       /\ outcome = "given" /\ tree = NoTree /\ pretty = FALSE
       /\ todo = <<>> /\ out = <<>>
    \/ /\ LexInit(<<>>)
       /\ outcome = "writing" /\ tree \in Trees /\ pretty \in BOOLEAN
       /\ todo = <<Call(tree, 0)>> /\ out = <<>>

Writing ==
    outcome = "writing" /\ todo # <<>> /\ UNCHANGED <<lexVars, tree, pretty>>

Appends == Writing /\ Head(todo).do = "append"

AppendDone ==
    /\ Appends
    /\ out' = out \o Head(todo).text
    /\ todo' = Tail(todo)
    /\ UNCHANGED outcome

LooseFails ==
    /\ Appends /\ ~Head(todo).checked
    /\ todo' = Tail(todo)
    /\ UNCHANGED <<out, outcome>>

(* Mutant: no append is looked at. *)
PieceFails_ignored ==
    /\ Appends /\ Head(todo).checked
    /\ todo' = Tail(todo)
    /\ UNCHANGED <<out, outcome>>

PieceFails ==
    /\ Appends /\ Head(todo).checked
    /\ outcome' = "failed" /\ todo' = <<>>
    /\ UNCHANGED out

(* NULL is refused, wherever it is in the tree. *)
CallRefused ==
    /\ Writing /\ Head(todo).do = "object" /\ Head(todo).of.type = "null"
    /\ outcome' = "failed" /\ todo' = <<>>
    /\ UNCHANGED out

CallBegins ==
    /\ Writing /\ Head(todo).do = "object" /\ Head(todo).of.type # "null"
    /\ todo' = Begin(Head(todo).of, Head(todo).indent) \o Tail(todo)
    /\ UNCHANGED <<out, outcome>>

LoopGoesOn ==
    /\ Writing /\ Head(todo).do = "items"
    /\ todo' = Round(Head(todo).of, Head(todo).from, Head(todo).indent)
                 \o Tail(todo)
    /\ UNCHANGED <<out, outcome>>

(* The text is copied for the caller, or there is no memory for it; the     *)
(* caller has it read.                                                      *)
Returned ==
    /\ outcome = "writing" /\ todo = <<>>
    /\ \/ outcome' = "ok" /\ src' = out
       \/ outcome' = "failed" /\ UNCHANGED src
    /\ UNCHANGED <<tree, pretty, todo, out>>
    /\ UNCHANGED <<at, mode, start, text, lost, reads>>

Lexes == outcome \in {"given", "ok"} /\ LexNext /\ UNCHANGED serVars

(* The text is read, the calls are used up or there is no text. *)
Rests ==
    /\ mode = "done" \/ outcome = "failed" \/ Len(reads) = MaxReads
    /\ UNCHANGED textVars

TextNext ==
    \/ AppendDone \/ LooseFails \/ PieceFails
    \/ CallRefused \/ CallBegins \/ LoopGoesOn
    \/ Returned \/ Lexes \/ Rests

TextSpec == TextInit /\ [][TextNext]_textVars

-----------------------------------------------------------------------------
(* Properties *)

TextTypeOK ==
    /\ LexTypeOK
    /\ outcome \in {"given", "writing", "ok", "failed"}
    /\ outcome \in {"writing", "failed"} => reads = <<>> /\ src = <<>>
    /\ outcome # "writing" => todo = <<>>

(* The tokens an object is in the language, as its items are ms; none of    *)
(* NULL.  A float is a token of its own, though the lexer makes none.      *)
Comma == <<"comma", <<",">>>>
Colon == <<"colon", <<":">>>>
Parens == <<<<"lparen", <<"(">>>>, <<"rparen", <<")">>>>>>
Listed(ms) ==
    LET Rest[i \in 1 .. Len(ms) + 1] ==
          IF i > Len(ms) THEN <<Parens[2]>>
          ELSE ms[i] \o (IF i < Len(ms) THEN <<Comma>> ELSE <<>>) \o Rest[i + 1]
    IN  Rest
Keyed(o, ms) == [i \in DOMAIN ms |-> <<<<"ident", o.keys[i]>>, Colon>> \o ms[i]]
Stands(o, ms) ==
    CASE o.type = "none" -> <<<<"none", None>>>>
      [] o.type = "true" -> <<<<"true", True>>>>
      [] o.type = "false" -> <<<<"false", False>>>>
      [] o.type = "integer" ->
           IF Head(o.text) = "-"
             THEN <<<<"minus", <<"-">>>>, <<"integer", Tail(o.text)>>>>
             ELSE <<<<"integer", o.text>>>>
      [] o.type = "float" -> <<<<"float", o.text>>>>
      [] o.type = "string" -> <<<<"string", o.text>>>>
      [] o.type = "array" -> <<Parens[1]>> \o Listed(ms)[1]
      [] o.type = "map" -> <<Parens[1]>> \o Listed(Keyed(o, ms))[1]
      [] o.type = "instance" ->
           <<<<"hash", <<"#">>>>>>
           \o (IF o.text = <<>> THEN <<>> ELSE <<<<"ident", o.text>>>>)
           \o (<<Parens[1]>> \o Listed(Keyed(o, ms))[1])
      [] OTHER -> <<>>
Meaning[o \in Trees] == Stands(o, [i \in DOMAIN o.items |-> Meaning[o.items[i]]])

(* The entries of a map and the fields of an instance are not written, and *)
(* a float is written as what the lexer takes for integers.                *)
Kept(m) == \A i \in DOMAIN m : m[i][1] \notin {"colon", "float"}

(* Of two of their characters no literal can be read again. *)
Readable(m) ==
    \A i \in DOMAIN m : \A j \in DOMAIN m[i][2] :
        m[i][2][j] \notin Control \cup {FF}

(* A text that was written reads as the tokens of its object, whatever     *)
(* became of its white space, for every object without entries, fields and *)
(* floats; if a string in it cannot be read again, an error is told.       *)
WrittenReads ==
    outcome = "ok" /\ mode = "done" /\ Kept(Meaning[tree]) =>
        LET m == Append(Meaning[tree], <<"eof", <<>>>>)
        IN  /\ Readable(m) <=> \A i \in DOMAIN reads : reads[i].type # "error"
            /\ Readable(m) =>
                 /\ Len(reads) = Len(m)
                 /\ \A i \in DOMAIN m :
                      /\ reads[i].type = m[i][1]
                      /\ reads[i].whole => reads[i].text = m[i][2]
=============================================================================
