------------------------------- MODULE CcoLexer -------------------------------
(***************************************************************************)
(* The lexer (internal/lexer.c) on a text, character by character: calls   *)
(* of cco_lexer_next one after the other, each of them one step per round  *)
(* of its loops and one step per token it returns or error it records.     *)
(*                                                                         *)
(* A byte is its character; FF is the byte 0xFF, which a signed char makes *)
(* the -1 that peek returns at the end of the text.  Positions count from  *)
(* 1.  What is appended to the scratch buffer may be lost, as appends fail *)
(* and nobody looks.                                                       *)
(***************************************************************************)
EXTENDS Integers, Sequences, FiniteSets

CONSTANTS
    Letter, Digit,   \* isalpha, isdigit
    Preserve,        \* preserve_comments, in a build that has it
    MaxReads,        \* bound on the calls of cco_lexer_next
    Source           \* texts of callers

ASSUME LexerAssumption == Preserve \in BOOLEAN /\ MaxReads \in Nat

VARIABLES
    src,     \* the text
    at,      \* pos, line and col of the lexer
    mode,    \* the loop it is in: "skip", "comment", "string", "word" or
             \* "number"; "done" after the last call
    start,   \* where the token began
    text,    \* scratch_buf
    lost,    \* an append to it has failed
    reads    \* what the calls have returned or recorded

lexVars == <<src, at, mode, start, text, lost, reads>>

NL == "\n"
FF == "FF"
End == "end"
Quote == "\""
Backslash == "\\"
Blank == {" ", "\t", "\r", NL}

(* isalpha and isdigit are true of no other character the lexer looks for. *)
ASSUME ClassAssumption ==
    (Letter \cup Digit) \cap
        ({End, FF, Quote, Backslash, "$", "_", "-", "/", "*"} \cup Blank) = {}
ASSUME SourceAssumption == \A s \in Source : s \in Seq(STRING \ {End})

Place == [pos : Nat, line : Nat, col : Nat]

(* cco_lexer_init *)
LexInit(s) ==
    /\ src = s
    /\ at = [pos |-> 1, line |-> 1, col |-> 1]
    /\ mode = "skip"
    /\ start = at
    /\ text = <<>> /\ lost = FALSE
    /\ reads = <<>>

(* peek *)
Peek(p) == IF p > Len(src) \/ src[p] = FF THEN End ELSE src[p]
Ahead == Peek(at.pos)
Followed(c) == at.pos < Len(src) /\ src[at.pos + 1] = c

(* Mutant: the column goes on at a new line. *)
Step_flat(p) ==
    IF Peek(p.pos) = End THEN p
    ELSE [pos |-> p.pos + 1,
          line |-> p.line + (IF src[p.pos] = NL THEN 1 ELSE 0),
          col |-> p.col + 1]

(* advance *)
Step(p) ==
    IF Peek(p.pos) = End THEN p
    ELSE IF src[p.pos] = NL
      THEN [pos |-> p.pos + 1, line |-> p.line + 1, col |-> 1]
      ELSE [pos |-> p.pos + 1, line |-> p.line, col |-> p.col + 1]

-----------------------------------------------------------------------------
(* skip_whitespace *)

Scanning == UNCHANGED <<src, start, text, lost, reads>>

SkipBlank ==
    /\ mode = "skip" /\ Ahead \in Blank
    /\ at' = Step(at)
    /\ UNCHANGED mode /\ Scanning

CommentAhead == Ahead = "/" /\ Followed("*") /\ ~Preserve
CommentOpens ==
    /\ mode = "skip" /\ CommentAhead
    /\ at' = Step(Step(at))
    /\ mode' = "comment" /\ Scanning

(* Mutant: the slash that ends a comment is left. *)
CommentCloses_short ==
    /\ mode = "comment" /\ Ahead = "*" /\ Followed("/")
    /\ at' = Step(at)
    /\ mode' = "skip" /\ Scanning

CommentCloses ==
    /\ mode = "comment" /\ Ahead = "*" /\ Followed("/")
    /\ at' = Step(Step(at))
    /\ mode' = "skip" /\ Scanning

CommentGoesOn ==
    /\ mode = "comment" /\ Ahead # End /\ ~(Ahead = "*" /\ Followed("/"))
    /\ at' = Step(at)
    /\ UNCHANGED mode /\ Scanning

(* A comment may end with the text: nobody is told. *)
CommentNeverCloses ==
    /\ mode = "comment" /\ Ahead = End
    /\ mode' = "skip"
    /\ UNCHANGED at /\ Scanning

-----------------------------------------------------------------------------
(* What a call of cco_lexer_next ends with *)

Between(p, q) == SubSeq(src, p, q - 1)

Read(type, from, to, told, t) ==
    [type |-> type, from |-> from, to |-> to,
     line |-> told.line, col |-> told.col, at |-> told.pos, text |-> t,
     whole |-> type = "string" => ~lost]

Returns(type, from, to, t) ==
    /\ reads' = Append(reads, Read(type, from.pos, to.pos, from, t))
    /\ at' = to /\ start' = from
    /\ mode' = IF type = "eof" THEN "done" ELSE "skip"
    /\ UNCHANGED src

(* cco_diag_record with the position told, and an error code *)
Fails(from, to, told) ==
    /\ reads' = Append(reads, Read("error", from.pos, to.pos, told, <<>>))
    /\ at' = to /\ start' = from
    /\ mode' = "skip"
    /\ UNCHANGED <<src, text, lost>>

TokenAhead ==
    /\ mode = "skip" /\ Len(reads) < MaxReads
    /\ Ahead \notin Blank /\ ~CommentAhead

Enter(m) == start' = at /\ mode' = m /\ UNCHANGED <<src, reads>>

ReadsEnd ==
    /\ TokenAhead /\ Ahead = End
    /\ Returns("eof", at, at, <<>>) /\ UNCHANGED <<text, lost>>

(* Mutant: the buffer keeps the text of the last string. *)
StringOpens_unreset ==
    /\ TokenAhead /\ Ahead = Quote
    /\ at' = Step(at)
    /\ lost' = FALSE
    /\ Enter("string") /\ UNCHANGED text

StringOpens ==
    /\ TokenAhead /\ Ahead = Quote
    /\ at' = Step(at)
    /\ text' = <<>> /\ lost' = FALSE
    /\ Enter("string")

(* A '$' begins a word and is no part of it. *)
WordStarts ==
    /\ TokenAhead /\ Ahead \in Letter \cup {"_", "$"}
    /\ Enter("word") /\ UNCHANGED <<at, text, lost>>

NumberStarts ==
    /\ TokenAhead /\ Ahead \in Digit
    /\ Enter("number") /\ UNCHANGED <<at, text, lost>>

-----------------------------------------------------------------------------
(* parse_string *)

Unescaped ==
    [c \in {"n", "t", "r", Quote, Backslash} |->
       CASE c = "n" -> NL [] c = "t" -> "\t" [] c = "r" -> "\r" [] OTHER -> c]

(* An append to the scratch buffer, whose result is not looked at. *)
Keeps(c) == \/ text' = Append(text, c) /\ UNCHANGED lost
            \/ lost' = TRUE /\ UNCHANGED text

Escaped == Peek(at.pos + 1)

StringChar ==
    /\ mode = "string" /\ Ahead \notin {End, Quote, Backslash}
    /\ at' = Step(at)
    /\ Keeps(Ahead)
    /\ UNCHANGED <<src, mode, start, reads>>

(* Mutant: the character is kept as it is written. *)
StringEscape_raw ==
    /\ mode = "string" /\ Ahead = Backslash /\ Escaped \in DOMAIN Unescaped
    /\ at' = Step(Step(at))
    /\ Keeps(Escaped)
    /\ UNCHANGED <<src, mode, start, reads>>

StringEscape ==
    /\ mode = "string" /\ Ahead = Backslash /\ Escaped \in DOMAIN Unescaped
    /\ at' = Step(Step(at))
    /\ Keeps(Unescaped[Escaped])
    /\ UNCHANGED <<src, mode, start, reads>>

BadEscape ==
    /\ mode = "string" /\ Ahead = Backslash /\ Escaped \notin DOMAIN Unescaped
    /\ LET to == Step(Step(at)) IN Fails(start, to, to)

StringEnds ==
    /\ mode = "string" /\ Ahead = Quote
    /\ Returns("string", start, Step(at), text) /\ UNCHANGED <<text, lost>>

(* Mutant: after the error the string is read again. *)
StringNeverEnds_again ==
    /\ mode = "string" /\ Ahead = End
    /\ Fails(start, start, start)

StringNeverEnds ==
    /\ mode = "string" /\ Ahead = End
    /\ Fails(start, at, start)

-----------------------------------------------------------------------------
(* Words, numbers and symbols *)

InWord == Ahead \in Letter \cup Digit \cup {"_", "-"}
InNumber == Ahead \in Letter \cup Digit \cup {"_", "."}

GoesOn ==
    /\ \/ mode = "word" /\ InWord
       \/ mode = "number" /\ InNumber
    /\ at' = Step(at)
    /\ UNCHANGED mode /\ Scanning

WordType(w) ==
    CASE w = <<"N", "o", "n", "e">> -> "none"
      [] w = <<"t", "r", "u", "e">> -> "true"
      [] w = <<"f", "a", "l", "s", "e">> -> "false"
      [] OTHER -> "ident"

WordEnds ==
    /\ mode = "word" /\ ~InWord
    /\ LET w == Between(start.pos, at.pos)
       IN  Returns(WordType(w), start, at, w)
    /\ UNCHANGED <<text, lost>>

NumberEnds ==
    /\ mode = "number" /\ ~InNumber
    /\ Returns("integer", start, at, Between(start.pos, at.pos))
    /\ UNCHANGED <<text, lost>>

(* The symbols of one character, and what a second one makes of them. *)
Single ==
    [c \in {"(", ")", "{", "}", "[", "]", ":", ",", "+", "-", "*", "/", "=",
            "!", "<", ">", "|", ".", "#"} |->
       CASE c = "(" -> "lparen" [] c = ")" -> "rparen" [] c = "{" -> "lbrace"
         [] c = "}" -> "rbrace" [] c = "[" -> "lbracket"
         [] c = "]" -> "rbracket" [] c = ":" -> "colon" [] c = "," -> "comma"
         [] c = "+" -> "plus" [] c = "-" -> "minus" [] c = "*" -> "star"
         [] c = "/" -> "slash" [] c = "=" -> "eq" [] c = "!" -> "not"
         [] c = "<" -> "lt" [] c = ">" -> "gt" [] c = "|" -> "pipe"
         [] c = "." -> "dot" [] c = "#" -> "hash"]
Second == [c \in {"=", "!", "<", ">", "&", "|"} |->
             IF c \in {"&", "|"} THEN c ELSE "="]
Double ==
    [c \in DOMAIN Second |->
       CASE c = "=" -> "eqeq" [] c = "!" -> "neq" [] c = "<" -> "lte"
         [] c = ">" -> "gte" [] c = "&" -> "and" [] c = "|" -> "or"]

IsDouble == Ahead \in DOMAIN Second /\ Peek(at.pos + 1) = Second[Ahead]
SymbolAhead ==
    TokenAhead /\ Ahead \notin {End, Quote, "_", "$"} \cup Letter \cup Digit

Symbol ==
    /\ SymbolAhead
    /\ \/ /\ IsDouble
          /\ LET to == Step(Step(at))
             IN  Returns(Double[Ahead], at, to, Between(at.pos, to.pos))
       \/ /\ ~IsDouble /\ Ahead \in DOMAIN Single
          /\ Returns(Single[Ahead], at, Step(at), <<Ahead>>)
    /\ UNCHANGED <<text, lost>>

(* Mutant: what is no token is told and left where it is. *)
BadSymbol_left ==
    /\ SymbolAhead /\ ~IsDouble /\ Ahead \notin DOMAIN Single
    /\ Fails(at, at, Step(at))

BadSymbol ==
    /\ SymbolAhead /\ ~IsDouble /\ Ahead \notin DOMAIN Single
    /\ Fails(at, Step(at), Step(at))

LexNext ==
    \/ SkipBlank \/ CommentOpens \/ CommentCloses \/ CommentGoesOn
    \/ CommentNeverCloses
    \/ ReadsEnd \/ StringOpens \/ WordStarts \/ NumberStarts
    \/ StringChar \/ StringEscape \/ BadEscape \/ StringEnds \/ StringNeverEnds
    \/ GoesOn \/ WordEnds \/ NumberEnds \/ Symbol \/ BadSymbol

LexSpec == (\E s \in Source : LexInit(s)) /\ [][LexNext]_lexVars

-----------------------------------------------------------------------------
(* Properties *)

LexTypeOK ==
    /\ at \in Place /\ start \in Place
    /\ start.pos <= at.pos /\ at.pos <= Len(src) + 1
    /\ mode \in {"skip", "comment", "string", "word", "number", "done"}
    /\ lost \in BOOLEAN
    /\ Len(reads) <= MaxReads

(* The line and the column told of every token and of every error are      *)
(* those a reader counts, whatever was skipped, escaped or refused before. *)
LineStart(p, k) ==
    /\ k \in 0 .. p - 1
    /\ k > 0 => src[k] = NL
    /\ \A i \in k + 1 .. p - 1 : src[i] # NL
Counted(p, line, col) ==
    /\ line = 1 + Cardinality({i \in 1 .. p - 1 : src[i] = NL})
    /\ LineStart(p, p - col)
LinesExact ==
    \A i \in DOMAIN reads : Counted(reads[i].at, reads[i].line, reads[i].col)

(* Where a call that begins at p may begin its token: a comment ends at the *)
(* first end it has, or with the text.                                     *)
CommentEnds(p, q) == {e \in p + 4 .. q : src[e - 2] = "*" /\ src[e - 1] = "/"}
Skipped(p, q) ==
    LET s[k \in 1 .. q] ==
          \/ k = q
          \/ src[k] \in Blank /\ s[k + 1]
          \/ /\ k + 1 < q /\ src[k] = "/" /\ src[k + 1] = "*" /\ ~Preserve
             /\ LET ends == CommentEnds(k, q)
                IN  IF ends = {} THEN Peek(q) = End
                    ELSE \E e \in ends : (\A f \in ends : e <= f) /\ s[e]
    IN  p \in 1 .. q /\ s[p]

(* The tokens cover the text: between two of them is only white space and  *)
(* comments, none overlap, every call takes something but the one at a     *)
(* '$', and the end is told where the text ends and nowhere before.        *)
Covers ==
    \A i \in DOMAIN reads :
        LET r == reads[i]
        IN  /\ Skipped(IF i = 1 THEN 1 ELSE reads[i - 1].to, r.from)
            /\ r.type # "eof" =>
                 /\ src[r.from] \notin Blank
                 /\ r.from < r.to \/ src[r.from] = "$"
            /\ r.type = "eof" => Peek(r.from) = End

(* What the escapes of a string literal stand for. *)
Decoded(raw) ==
    LET d[i \in 1 .. Len(raw) + 2] ==
          IF i > Len(raw) THEN <<>>
          ELSE IF raw[i] = Backslash
            THEN <<Unescaped[raw[i + 1]]>> \o d[i + 2]
            ELSE <<raw[i]>> \o d[i + 1]
    IN  d[1]

(* s is t with some characters taken out. *)
PartOf(s, t) ==
    \E f \in [DOMAIN s -> DOMAIN t] :
        /\ \A i, j \in DOMAIN s : i < j => f[i] < f[j]
        /\ \A i \in DOMAIN s : s[i] = t[f[i]]

(* The text of a string is what its literal stands for, of this literal    *)
(* and no other.  Of one that lost an append (StringsWhole says none does) *)
(* characters are missing, and none is changed or moved.                   *)
TextExact ==
    \A i \in DOMAIN reads :
        LET r == reads[i]
            literal == Decoded(Between(r.from + 1, r.to - 1))
        IN  CASE r.type = "string" ->
                   /\ r.whole => r.text = literal
                   /\ PartOf(r.text, literal)
              [] r.type \in {"eof", "error"} -> r.text = <<>>
              [] OTHER -> r.text = Between(r.from, r.to)

(* "When the arena cannot serve the next request, the allocation returns   *)
(* `NULL` and the parse unwinds." (docs/options.md:50-52): no string is    *)
(* returned that lacks a character of its literal.                         *)
StringsWhole ==
    \A i \in DOMAIN reads :
        reads[i].type = "string" =>
            reads[i].text = Decoded(Between(reads[i].from + 1, reads[i].to - 1))

(* What the parser is written against: the calls come to the end of the    *)
(* text, or to a '$', in as many steps as it has characters, whatever is   *)
(* in it, and a string without an end is the last thing there is.          *)
Kind(r) ==
    CASE r.type = "eof" -> "eof"
      [] r.type = "ident" /\ r.text = <<>> -> "dollar"
      [] r.type = "error" /\ Peek(r.to) = End /\ r.at = r.from -> "unended"
      [] r.type = "error" /\ ~(Peek(r.to) = End /\ r.at = r.from) -> "error"
      [] OTHER -> "token"
Kinds == [i \in DOMAIN reads |-> Kind(reads[i])]
Left == Len(src) + 1 - (IF reads = <<>> THEN 1 ELSE reads[Len(reads)].to)
Tokens == INSTANCE TokenSource WITH read <- Kinds, left <- Left
FeedsParser == Tokens!Spec
=============================================================================
