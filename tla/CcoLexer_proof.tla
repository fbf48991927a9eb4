---------------------------- MODULE CcoLexer_proof ----------------------------
(***************************************************************************)
(* The lexer on any text, of any characters and any length: what it tells  *)
(* of lines and columns, that its tokens cover the text and have the text  *)
(* they should, and that its calls are a TokenSource, which is all that    *)
(* the parser takes of it.                                                 *)
(***************************************************************************)
EXTENDS CcoLexer, FiniteSetTheorems, SequenceTheorems, NaturalsInduction,
        WellFoundedInduction, TLAPS

-----------------------------------------------------------------------------
(* Sequences that grow *)

IsSeq(s) == \E S : s \in Seq(S)

LEMMA Grown ==
    ASSUME NEW s, IsSeq(s), NEW e
    PROVE  /\ IsSeq(Append(s, e)) /\ Append(s, e) # <<>>
           /\ Len(s) \in Nat /\ DOMAIN s = 1 .. Len(s)
           /\ Len(Append(s, e)) = Len(s) + 1
           /\ DOMAIN Append(s, e) = 1 .. Len(s) + 1
           /\ \A i \in 1 .. Len(s) : Append(s, e)[i] = s[i]
           /\ Append(s, e)[Len(s) + 1] = e
<1>1. PICK S : s \in Seq(S) BY DEF IsSeq
<1>2. PICK T : T = S \cup {e} OBVIOUS
<1>3. s \in Seq(T) /\ e \in T BY <1>1, <1>2
<1>4. Append(s, e) \in Seq(T) BY <1>3
<1>5. IsSeq(Append(s, e)) BY <1>4 DEF IsSeq
<1>6. /\ Append(s, e) # <<>>
      /\ Len(s) \in Nat /\ DOMAIN s = 1 .. Len(s)
      /\ Len(Append(s, e)) = Len(s) + 1
      /\ DOMAIN Append(s, e) = 1 .. Len(s) + 1
  BY <1>3, <1>4
<1>7. \A i \in 1 .. Len(s) : Append(s, e)[i] = s[i] BY <1>3
<1>8. Append(s, e)[Len(s) + 1] = e BY <1>3
<1> QED BY <1>5, <1>6, <1>7, <1>8

-----------------------------------------------------------------------------
(* Places *)

Text == \E S : src \in Seq(S) /\ End \notin S

(* A place of the text, with the line and the column a reader counts. *)
Good(p) ==
    /\ p \in Place /\ 1 <= p.pos /\ p.pos <= Len(src) + 1
    /\ Counted(p.pos, p.line, p.col)

Breaks(n) == {i \in 1 .. n - 1 : src[i] = NL}

LEMMA BreaksCount ==
    ASSUME Text, NEW n \in 1 .. Len(src)
    PROVE  /\ Cardinality(Breaks(n)) \in Nat
           /\ src[n] = NL => Cardinality(Breaks(n + 1)) = Cardinality(Breaks(n)) + 1
           /\ src[n] # NL => Cardinality(Breaks(n + 1)) = Cardinality(Breaks(n))
<1>1. n \in Nat /\ n + 1 - 1 = n OBVIOUS
<1>2. IsFiniteSet(Breaks(n))
  <2>1. IsFiniteSet(1 .. n - 1) BY <1>1, FS_Interval
  <2>2. Breaks(n) \subseteq 1 .. n - 1 BY DEF Breaks
  <2> QED BY <2>1, <2>2, FS_Subset
<1>3. n \notin Breaks(n) BY <1>1 DEF Breaks
<1>4. \A i : i \in 1 .. n + 1 - 1 <=> i \in 1 .. n - 1 \/ i = n BY <1>1
<1>5. src[n] = NL => Breaks(n + 1) = Breaks(n) \cup {n} BY <1>4 DEF Breaks
<1>6. src[n] # NL => Breaks(n + 1) = Breaks(n) BY <1>4 DEF Breaks
<1> QED BY <1>2, <1>3, <1>5, <1>6, FS_AddElement, FS_CardinalityType

LEMMA StepGoes ==
    ASSUME Text, NEW p, Good(p)
    PROVE  /\ Good(Step(p))
           /\ Peek(p.pos) = End => Step(p) = p
           /\ Peek(p.pos) # End => Step(p).pos = p.pos + 1
<1>1. Len(src) \in Nat BY DEF Text
<1>2. p \in Place /\ 1 <= p.pos /\ p.pos <= Len(src) + 1 BY DEF Good
<1>3. CASE Peek(p.pos) = End BY <1>3 DEF Step
<1>4. CASE Peek(p.pos) # End
  <2>1. PICK n, l, c, q : n = p.pos /\ l = p.line /\ c = p.col /\ q = Step(p)
    OBVIOUS
  <2>2. n \in Nat /\ l \in Nat /\ c \in Nat BY <1>2, <2>1 DEF Place
  <2>3. ~(n > Len(src)) BY <1>4, <2>1 DEF Peek
  <2>4. n \in 1 .. Len(src) BY <1>1, <1>2, <2>1, <2>2, <2>3
  <2>5. /\ l = 1 + Cardinality(Breaks(n)) /\ LineStart(n, n - c)
    BY <2>1 DEF Good, Counted, Breaks
  <2>6. PICK k : k = n - c OBVIOUS
  <2>7. LineStart(n, k) BY <2>5, <2>6
  <2>8. k \in 0 .. n - 1 /\ k \in Int BY <2>2, <2>7 DEF LineStart
  <2>9. \A i \in k + 1 .. n - 1 : src[i] # NL BY <2>7 DEF LineStart
  <2>10. k > 0 => src[k] = NL BY <2>7 DEF LineStart
  <2>11. CASE src[n] = NL
    <3>1. q = [pos |-> n + 1, line |-> l + 1, col |-> 1]
      BY <1>4, <2>1, <2>11 DEF Step
    <3>2. q.pos = n + 1 /\ q.line = l + 1 /\ q.col = 1 BY <3>1
    <3>3. q.line = 1 + Cardinality(Breaks(n + 1))
      BY <2>4, <2>5, <2>11, <3>2, BreaksCount
    <3>4. n + 1 - 1 = n /\ LineStart(n + 1, n)
      BY <2>2, <2>4, <2>11 DEF LineStart
    <3>5. Counted(q.pos, q.line, q.col)
      <4>1. q.pos - q.col = n BY <2>2, <3>2
      <4> QED BY <3>2, <3>3, <3>4, <4>1 DEF Counted, Breaks
    <3>6. q \in Place /\ 1 <= q.pos /\ q.pos <= Len(src) + 1
      BY <1>1, <2>2, <2>4, <3>1 DEF Place
    <3> QED BY <1>4, <2>1, <3>2, <3>5, <3>6 DEF Good
  <2>12. CASE src[n] # NL
    <3>1. q = [pos |-> n + 1, line |-> l, col |-> c + 1]
      BY <1>4, <2>1, <2>12 DEF Step
    <3>2. q.pos = n + 1 /\ q.line = l /\ q.col = c + 1 BY <3>1
    <3>3. q.line = 1 + Cardinality(Breaks(n + 1))
      BY <2>4, <2>5, <2>12, <3>2, BreaksCount
    <3>4. LineStart(n + 1, k)
      <4>1. PICK m : m = n + 1 OBVIOUS
      <4>2. m - 1 = n /\ k \in 0 .. m - 1 BY <2>2, <2>8, <4>1
      <4>3. ASSUME NEW i \in k + 1 .. m - 1 PROVE src[i] # NL
        <5>1. i = n \/ i \in k + 1 .. n - 1 BY <2>2, <2>8, <4>2
        <5> QED BY <2>12, <2>9, <5>1
      <4> QED BY <2>10, <4>1, <4>2, <4>3, Zenon DEF LineStart
    <3>5. Counted(q.pos, q.line, q.col)
      <4>1. q.pos - q.col = k BY <2>2, <2>6, <3>2
      <4> QED BY <3>2, <3>3, <3>4, <4>1 DEF Counted, Breaks
    <3>6. q \in Place /\ 1 <= q.pos /\ q.pos <= Len(src) + 1
      BY <1>1, <2>2, <2>4, <3>1 DEF Place
    <3> QED BY <1>4, <2>1, <3>2, <3>5, <3>6 DEF Good
  <2> QED BY <2>11, <2>12
<1> QED BY <1>3, <1>4

(* Two steps, as over an escape or the end of a comment. *)
LEMMA TwoSteps ==
    ASSUME Text, NEW p, Good(p), Peek(p.pos) # End
    PROVE  /\ Good(Step(p)) /\ Good(Step(Step(p)))
           /\ Step(p).pos = p.pos + 1
           /\ p.pos < Step(Step(p)).pos
<1>1. Good(Step(p)) /\ Step(p).pos = p.pos + 1 BY StepGoes
<1>2. PICK q : q = Step(p) OBVIOUS
<1>3. Good(q) /\ q.pos = p.pos + 1 BY <1>1, <1>2
<1>4. /\ Good(Step(q))
      /\ Peek(q.pos) = End => Step(q) = q
      /\ Peek(q.pos) # End => Step(q).pos = q.pos + 1
  BY <1>3, StepGoes
<1>5. p.pos \in Nat BY DEF Good, Place
<1>6. p.pos < Step(q).pos
  <2>1. CASE Step(q) = q BY <1>3, <1>5, <2>1
  <2>2. CASE Step(q).pos = q.pos + 1 BY <1>3, <1>5, <2>2
  <2> QED BY <1>4, <2>1, <2>2
<1> QED BY <1>1, <1>2, <1>4, <1>6

-----------------------------------------------------------------------------
(* Lines and columns *)

LInv ==
    /\ Text /\ IsSeq(reads)
    /\ Good(at) /\ Good(start)
    /\ LinesExact

(* Lines and columns do not change under the lexer. *)
LEMMA LinesStay ==
    ASSUME src' = src,
           \A i \in DOMAIN reads' :
             Counted(reads'[i].at, reads'[i].line, reads'[i].col)
    PROVE  LinesExact'
<1> SUFFICES ASSUME NEW i \in DOMAIN reads'
             PROVE  Counted(reads[i].at, reads[i].line, reads[i].col)'
  BY DEF LinesExact
<1>1. PICK r : r = reads'[i] OBVIOUS
<1>2. Counted(r.at, r.line, r.col) BY <1>1
<1>3. PICK n, l, c : n = r.at /\ l = r.line /\ c = r.col OBVIOUS
<1>4. Counted(n, l, c) BY <1>2, <1>3
<1>5. Counted(n, l, c)' BY <1>4 DEF Counted, LineStart
<1> QED BY <1>1, <1>3, <1>5

(* Where a step goes, and what it adds to the reads. *)
LEMMA GoodMove ==
    ASSUME LInv, NEW q, Good(q), at' = q, NEW b, Good(b), start' = b,
           src' = src, reads' = reads
    PROVE  LInv'
<1>1. Text' /\ IsSeq(reads)' BY DEF LInv, Text, IsSeq
<1>2. Good(at)' BY DEF Good, Counted, LineStart
<1>3. Good(start)' BY DEF Good, Counted, LineStart
<1>4. LinesExact' BY LinesStay DEF LInv, LinesExact
<1> QED BY <1>1, <1>2, <1>3, <1>4 DEF LInv

LEMMA GoodRead ==
    ASSUME LInv, NEW q, Good(q), at' = q, NEW b, Good(b), start' = b,
           src' = src, NEW told, Good(told), NEW type, NEW from, NEW to, NEW t,
           reads' = Append(reads, Read(type, from, to, told, t))
    PROVE  LInv'
<1>1. Text' BY DEF LInv, Text
<1>2. Good(at)' BY DEF Good, Counted, LineStart
<1>3. Good(start)' BY DEF Good, Counted, LineStart
<1>4. PICK r : r = Read(type, from, to, told, t) OBVIOUS
<1>5. r.at = told.pos /\ r.line = told.line /\ r.col = told.col
  BY <1>4 DEF Read
<1>6. Counted(r.at, r.line, r.col) BY <1>5 DEF Good
<1>7. reads' = Append(reads, r) /\ IsSeq(reads) BY <1>4 DEF LInv
<1>8. /\ IsSeq(reads') /\ Len(reads) \in Nat /\ DOMAIN reads = 1 .. Len(reads)
      /\ DOMAIN reads' = 1 .. Len(reads) + 1
      /\ \A i \in 1 .. Len(reads) : reads'[i] = reads[i]
      /\ reads'[Len(reads) + 1] = r
  BY <1>7, Grown
<1>9. ASSUME NEW i \in DOMAIN reads'
      PROVE  Counted(reads'[i].at, reads'[i].line, reads'[i].col)
  <2>1. i \in 1 .. Len(reads) \/ i = Len(reads) + 1 BY <1>8
  <2>2. CASE i \in 1 .. Len(reads)
    BY <1>8, <2>2 DEF LInv, LinesExact
  <2>3. CASE i = Len(reads) + 1 BY <1>6, <1>8, <2>3
  <2> QED BY <2>1, <2>2, <2>3
<1>10. LinesExact' BY <1>9, LinesStay
<1>11. IsSeq(reads)' BY <1>8 DEF IsSeq
<1> QED BY <1>1, <1>2, <1>3, <1>10, <1>11 DEF LInv

LEMMA LexKeepsLines ==
    ASSUME LInv, LexNext PROVE LInv'
<1> USE DEF Scanning, Enter
<1>1. Text /\ Good(at) /\ Good(start) BY DEF LInv
<1>2. PICK p, q : p = Step(at) /\ q = Step(p) OBVIOUS
<1>3. Good(p) BY <1>1, <1>2, StepGoes
<1>4. Good(q) BY <1>1, <1>2, <1>3, StepGoes
<1>5. CASE SkipBlank \/ CommentGoesOn \/ GoesOn
  BY <1>1, <1>2, <1>3, <1>5, GoodMove DEF SkipBlank, CommentGoesOn, GoesOn
<1>6. CASE CommentOpens \/ CommentCloses
  BY <1>1, <1>2, <1>4, <1>6, GoodMove DEF CommentOpens, CommentCloses
<1>7. CASE CommentNeverCloses
  BY <1>1, <1>7, GoodMove DEF CommentNeverCloses
<1>8. CASE StringOpens BY <1>1, <1>2, <1>3, <1>8, GoodMove DEF StringOpens
<1>9. CASE WordStarts \/ NumberStarts
  BY <1>1, <1>9, GoodMove DEF WordStarts, NumberStarts
<1>10. CASE StringChar BY <1>1, <1>2, <1>3, <1>10, GoodMove DEF StringChar
<1>11. CASE StringEscape
  BY <1>1, <1>2, <1>4, <1>11, GoodMove DEF StringEscape
<1>12. ASSUME NEW type, NEW from, Good(from), NEW to, Good(to), NEW t,
              Returns(type, from, to, t)
       PROVE  LInv'
  BY <1>12, GoodRead DEF Returns
<1>13. ASSUME NEW from, Good(from), NEW to, Good(to), NEW told, Good(told),
              Fails(from, to, told)
       PROVE  LInv'
  BY <1>13, GoodRead DEF Fails
<1>14. CASE ReadsEnd BY <1>1, <1>12, <1>14 DEF ReadsEnd
<1>15. CASE StringEnds BY <1>1, <1>2, <1>3, <1>12, <1>15 DEF StringEnds
<1>16. CASE WordEnds \/ NumberEnds
  BY <1>1, <1>12, <1>16 DEF WordEnds, NumberEnds
<1>17. CASE Symbol BY <1>1, <1>2, <1>3, <1>4, <1>12, <1>17 DEF Symbol
<1>18. CASE BadEscape BY <1>1, <1>2, <1>4, <1>13, <1>18 DEF BadEscape
<1>19. CASE StringNeverEnds BY <1>1, <1>13, <1>19 DEF StringNeverEnds
<1>20. CASE BadSymbol BY <1>1, <1>2, <1>3, <1>13, <1>20 DEF BadSymbol
<1> QED
  BY <1>5, <1>6, <1>7, <1>8, <1>9, <1>10, <1>11, <1>14, <1>15, <1>16, <1>17,
     <1>18, <1>19, <1>20
  DEF LexNext

LEMMA LinesBegin ==
    ASSUME NEW s \in Source, LexInit(s) PROVE LInv
<1>1. src = s /\ reads = <<>> /\ start = at
      /\ at = [pos |-> 1, line |-> 1, col |-> 1]
  BY DEF LexInit
<1>2. Text BY <1>1, SourceAssumption DEF Text
<1>3. Len(src) \in Nat BY <1>2 DEF Text
<1>4. {i \in 1 .. 1 - 1 : src[i] = NL} = {} OBVIOUS
<1>5. Counted(1, 1, 1) BY <1>4, FS_EmptySet DEF Counted, LineStart
<1>6. Good(at) BY <1>1, <1>3, <1>5 DEF Good, Place
<1>7. IsSeq(reads) /\ DOMAIN reads = {}
  <2>1. reads \in Seq({}) /\ DOMAIN reads = {} BY <1>1
  <2> QED BY <2>1 DEF IsSeq
<1> QED BY <1>1, <1>2, <1>6, <1>7 DEF LInv, LinesExact

(* The line and the column told of every token and every error are those a *)
(* reader counts: for a text of any characters and any length, with any    *)
(* comments, escapes and errors on the way.                                *)
THEOREM LinesAreCounted == LexSpec => []LinesExact
<1>1. (\E s \in Source : LexInit(s)) => LInv BY LinesBegin
<1>2. ASSUME LInv, [LexNext]_lexVars PROVE LInv'
  <2>1. CASE LexNext BY <1>2, <2>1, LexKeepsLines
  <2>2. CASE UNCHANGED lexVars
    <3>1. Good(at) /\ Good(start) BY <1>2 DEF LInv
    <3> QED BY <1>2, <2>2, <3>1, GoodMove DEF lexVars
  <2> QED BY <1>2, <2>1, <2>2
<1>3. LInv => LinesExact BY DEF LInv
<1> QED BY <1>1, <1>2, <1>3, PTL DEF LexSpec

-----------------------------------------------------------------------------
(* The types of the symbols, and the kinds of reads *)

LEMMA SymbolTypes ==
    /\ \A c \in DOMAIN Single : Single[c] \notin {"eof", "error", "string", "ident"}
    /\ \A c \in DOMAIN Double : Double[c] \notin {"eof", "error", "string", "ident"}
<1>1. ASSUME NEW c \in DOMAIN Single
      PROVE  Single[c] \notin {"eof", "error", "string", "ident"}
  <2>1. DOMAIN Single = {"(", ")", "{", "}", "[", "]", ":", ",", "+", "-", "*",
                         "/", "=", "!", "<", ">", "|", ".", "#"}
    BY DEF Single
  <2>2. Single[c] =
          CASE c = "(" -> "lparen" [] c = ")" -> "rparen" [] c = "{" -> "lbrace"
            [] c = "}" -> "rbrace" [] c = "[" -> "lbracket"
            [] c = "]" -> "rbracket" [] c = ":" -> "colon" [] c = "," -> "comma"
            [] c = "+" -> "plus" [] c = "-" -> "minus" [] c = "*" -> "star"
            [] c = "/" -> "slash" [] c = "=" -> "eq" [] c = "!" -> "not"
            [] c = "<" -> "lt" [] c = ">" -> "gt" [] c = "|" -> "pipe"
            [] c = "." -> "dot" [] c = "#" -> "hash"
    BY DEF Single
  <2> QED BY <2>1, <2>2
<1>2. ASSUME NEW c \in DOMAIN Double
      PROVE  Double[c] \notin {"eof", "error", "string", "ident"}
  <2>1. DOMAIN Double = {"=", "!", "<", ">", "&", "|"} BY DEF Double, Second
  <2>2. Double[c] =
          CASE c = "=" -> "eqeq" [] c = "!" -> "neq" [] c = "<" -> "lte"
            [] c = ">" -> "gte" [] c = "&" -> "and" [] c = "|" -> "or"
    BY DEF Double
  <2> QED BY <2>1, <2>2
<1> QED BY <1>1, <1>2

LEMMA KindOf ==
    ASSUME NEW r
    PROVE  /\ r.type = "eof" => Kind(r) = "eof"
           /\ r.type = "ident" /\ r.text = <<>> => Kind(r) = "dollar"
           /\ r.type = "error" =>
                Kind(r) = IF Peek(r.to) = End /\ r.at = r.from
                            THEN "unended" ELSE "error"
           /\ /\ r.type \notin {"eof", "error"}
              /\ ~(r.type = "ident" /\ r.text = <<>>)
              => Kind(r) = "token"
BY DEF Kind

LEMMA WordTypes ==
    ASSUME NEW w
    PROVE  /\ WordType(w) \notin {"eof", "error", "string"}
           /\ w = <<>> => WordType(w) = "ident"
<1>1. WordType(w) \notin {"eof", "error", "string"} BY DEF WordType
<1>2. ASSUME w = <<>> PROVE WordType(w) = "ident"
  <2>1. /\ w # <<"N", "o", "n", "e">> /\ w # <<"t", "r", "u", "e">>
        /\ w # <<"f", "a", "l", "s", "e">>
    BY <1>2
  <2> QED BY <2>1 DEF WordType
<1> QED BY <1>1, <1>2

-----------------------------------------------------------------------------
(* What the loops have taken of the text *)

Taken == IF reads = <<>> THEN 1 ELSE reads[Len(reads)].to
Newest == IF reads = <<>> THEN "none" ELSE Kind(reads[Len(reads)])

(* With the lexer at p, the token begun at b, in loop m, tk taken by the   *)
(* calls before and lk the kind of the newest read: a token that is being  *)
(* read takes something unless it is a '$', and after a '$' or a string    *)
(* without an end the lexer is where that left it.                         *)
Shape(p, b, m, tk, lk) ==
    /\ tk \in Nat /\ 1 <= tk /\ tk <= p.pos /\ b.pos <= p.pos
    /\ m \in {"string", "word", "number"} => tk <= b.pos
    /\ m = "string" => b.pos < p.pos
    /\ m = "number" => b.pos < p.pos \/ Peek(p.pos) \in Digit
    /\ m = "word" => \/ b.pos < p.pos
                     \/ Peek(p.pos) \in Letter \cup {"_", "$"}
    /\ lk = "eof" => m = "done"
    /\ lk = "dollar" => /\ m \in {"skip", "word"} /\ Peek(p.pos) = "$"
                        /\ p.pos = tk
                        /\ m = "word" => b.pos = p.pos
    /\ lk = "unended" => m = "skip" /\ Peek(p.pos) = End

FInv == LInv /\ Shape(at, start, mode, Taken, Newest)

LEMMA ShapeMoves ==
    ASSUME src' = src, NEW p, NEW b, NEW m, NEW tk, NEW lk,
           Shape(p, b, m, tk, lk), at' = p, start' = b, mode' = m,
           Taken' = tk, Newest' = lk
    PROVE  Shape(at, start, mode, Taken, Newest)'
BY DEF Shape, Peek

LEMMA ShapePlain ==
    ASSUME NEW p, NEW b, NEW m \in {"skip", "comment"}, NEW tk \in Nat,
           1 <= tk, tk <= p.pos, b.pos <= p.pos,
           NEW lk, lk \notin {"eof", "dollar", "unended"}
    PROVE  Shape(p, b, m, tk, lk)
BY DEF Shape

LEMMA QuietMove ==
    ASSUME FInv, LInv', src' = src, reads' = reads, NEW p, NEW b, NEW m,
           at' = p, start' = b, mode' = m, Shape(p, b, m, Taken, Newest)
    PROVE  FInv' /\ UNCHANGED <<Kinds, Left>>
<1>1. Taken' = Taken BY DEF Taken
<1>2. Newest' = Newest BY DEF Newest, Kind, Peek
<1>3. FInv' BY <1>1, <1>2, ShapeMoves DEF FInv
<1>4. Kinds' = Kinds BY DEF Kinds, Kind, Peek
<1>5. Left' = Left BY DEF Left
<1> QED BY <1>3, <1>4, <1>5

LEMMA LastIsNewest ==
    ASSUME IsSeq(reads)
    PROVE  /\ Tokens!Last = Newest
           /\ Left = Len(src) + 1 - Taken
<1>1. PICK S : reads \in Seq(S) BY DEF IsSeq
<1>2. /\ Len(reads) \in Nat /\ DOMAIN reads = 1 .. Len(reads)
      /\ reads # <<>> => Len(reads) \in 1 .. Len(reads)
  BY <1>1
<1>3. DOMAIN Kinds = 1 .. Len(reads) /\ \A i \in 1 .. Len(reads) : Kinds[i] = Kind(reads[i])
  BY <1>2 DEF Kinds
<1>4. Kinds \in Seq({Kind(reads[i]) : i \in DOMAIN reads})
  BY <1>2, <1>3 DEF Kinds
<1>5. Len(Kinds) = Len(reads) BY <1>2, <1>3, <1>4
<1>6. Kinds = <<>> <=> reads = <<>> BY <1>1, <1>4, <1>5
<1>7. Tokens!Last = Newest
  BY <1>2, <1>3, <1>5, <1>6 DEF Tokens!Last, Newest
<1> QED BY <1>7 DEF Left, Taken

LEMMA ReadMove ==
    ASSUME FInv, LInv', src' = src, NEW r, reads' = Append(reads, r),
           NEW p, NEW b, NEW m, at' = p, start' = b, mode' = m,
           Shape(p, b, m, r.to, Kind(r))
    PROVE  /\ FInv' /\ Tokens!Gives(Kind(r)) /\ Left' = Len(src) + 1 - r.to
<1>1. IsSeq(reads) BY DEF FInv, LInv
<1>2. /\ reads' # <<>> /\ Len(reads) \in Nat /\ DOMAIN reads = 1 .. Len(reads)
      /\ Len(reads') = Len(reads) + 1 /\ DOMAIN reads' = 1 .. Len(reads) + 1
      /\ \A i \in 1 .. Len(reads) : reads'[i] = reads[i]
      /\ reads'[Len(reads) + 1] = r
  BY <1>1, Grown
<1>3. Taken' = r.to BY <1>2 DEF Taken
<1>4. Newest' = Kind(r)
  <2>1. Newest' = Kind(reads'[Len(reads')]) BY <1>2 DEF Newest, Kind, Peek
  <2> QED BY <1>2, <2>1
<1>5. FInv' BY <1>3, <1>4, ShapeMoves DEF FInv
<1>6. Left' = Len(src) + 1 - r.to BY <1>2 DEF Left
<1>7. Kinds' = Append(Kinds, Kind(r))
  <2>1. Kinds' = [i \in DOMAIN reads' |-> Kind(reads'[i])]
    BY DEF Kinds, Kind, Peek
  <2>2. Kinds = [i \in 1 .. Len(reads) |-> Kind(reads[i])] BY <1>2 DEF Kinds
  <2>3. Kinds \in Seq({Kind(reads[i]) : i \in 1 .. Len(reads)} \cup {Kind(r)})
        /\ Len(Kinds) = Len(reads)
    BY <1>2, <2>2
  <2>4. PICK e, new : e = Kind(r) /\ new = Append(Kinds, e) OBVIOUS
  <2>5. IsSeq(Kinds) BY <2>3 DEF IsSeq
  <2>6. /\ DOMAIN new = 1 .. Len(reads) + 1 /\ new[Len(reads) + 1] = e
        /\ \A i \in 1 .. Len(reads) : new[i] = Kinds[i]
    BY <2>3, <2>4, <2>5, Grown
  <2>7. ASSUME NEW i \in 1 .. Len(reads) + 1 PROVE Kinds'[i] = new[i]
    <3>1. i \in 1 .. Len(reads) \/ i = Len(reads) + 1 BY <1>2
    <3>2. CASE i \in 1 .. Len(reads) BY <1>2, <2>1, <2>2, <2>6, <3>2
    <3>3. CASE i = Len(reads) + 1 BY <1>2, <2>1, <2>4, <2>6, <3>3
    <3> QED BY <3>1, <3>2, <3>3
  <2>8. new = [i \in 1 .. Len(reads) + 1 |-> new[i]]
    <3>1. PICK S : Kinds \in Seq(S) /\ e \in S BY <2>3, <2>4
    <3>2. new \in Seq(S) /\ Len(new) = Len(reads) + 1 BY <2>3, <2>4, <3>1
    <3> QED BY <1>2, <3>2
  <2>9. Kinds' = [i \in 1 .. Len(reads) + 1 |-> Kinds'[i]] BY <1>2, <2>1
  <2> QED BY <2>4, <2>7, <2>8, <2>9
<1> QED BY <1>5, <1>6, <1>7 DEF Tokens!Gives

-----------------------------------------------------------------------------
(* Every step of the lexer is one of a TokenSource, or none *)

Feeds == FInv' /\ [Tokens!Next]_<<Kinds, Left>>

LEMMA QuietFeeds ==
    ASSUME FInv, LInv', src' = src, reads' = reads, NEW p, NEW b, NEW m,
           at' = p, start' = b, mode' = m, Shape(p, b, m, Taken, Newest)
    PROVE  Feeds
BY QuietMove DEF Feeds

(* A call that takes something of the text. *)
LEMMA TakenFeeds ==
    ASSUME FInv, LInv', src' = src, NEW r, reads' = Append(reads, r),
           NEW p, Good(p), NEW b, at' = p, start' = b, mode' = "skip",
           r.to = p.pos, b.pos <= p.pos, Taken < p.pos,
           Newest \notin {"eof", "dollar", "unended"},
           Kind(r) \in {"token", "error", "unended"},
           Kind(r) = "unended" => Peek(p.pos) = End
    PROVE  Feeds
<1>1. p.pos \in Nat /\ 1 <= p.pos /\ p.pos <= Len(src) + 1 BY DEF Good, Place
<1>2. Shape(p, b, "skip", r.to, Kind(r)) BY <1>1 DEF Shape
<1>3. FInv' /\ Tokens!Gives(Kind(r)) /\ Left' = Len(src) + 1 - r.to
  BY <1>2, ReadMove
<1>4. Tokens!Last = Newest /\ Left = Len(src) + 1 - Taken
  BY LastIsNewest DEF FInv, LInv
<1>5. Len(src) \in Nat /\ Taken \in Nat
  <2>1. Text BY DEF FInv, LInv
  <2>2. Taken \in Nat BY DEF FInv, Shape
  <2> QED BY <2>1, <2>2 DEF Text
<1>6. Left' \in Nat /\ Left' < Left BY <1>1, <1>3, <1>4, <1>5
<1>7. Tokens!Takes BY <1>3, <1>4, <1>6 DEF Tokens!Takes
<1> QED BY <1>3, <1>7 DEF Feeds, Tokens!Next

(* The token begun at b and ended at p, neither the end nor a '$'. *)
LEMMA TokenFeeds ==
    ASSUME FInv, LInv', NEW p, Good(p), NEW b, NEW type, NEW t,
           Returns(type, b, p, t), Taken <= b.pos, b.pos < p.pos, b.pos \in Nat,
           type \notin {"eof", "error"}, type = "ident" => t # <<>>,
           Newest \notin {"eof", "dollar", "unended"}
    PROVE  Feeds
<1>1. PICK r : r = Read(type, b.pos, p.pos, b, t) OBVIOUS
<1>2. r.type = type /\ r.to = p.pos /\ r.text = t BY <1>1 DEF Read
<1>3. Kind(r) = "token" BY <1>2, KindOf
<1>4. /\ reads' = Append(reads, r) /\ at' = p /\ start' = b
      /\ mode' = "skip" /\ src' = src
  BY <1>1 DEF Returns
<1>5. p.pos \in Nat /\ Taken \in Nat BY DEF Good, Place, FInv, Shape
<1>6. b.pos <= p.pos /\ Taken < p.pos BY <1>5
<1> QED BY <1>2, <1>3, <1>4, <1>6, TakenFeeds

LEMMA ErrorFeeds ==
    ASSUME FInv, LInv', NEW p, Good(p), NEW b, NEW told,
           Fails(b, p, told), Taken <= b.pos, b.pos < p.pos, b.pos \in Nat,
           told = p \/ (told = b /\ Peek(p.pos) = End),
           Newest \notin {"eof", "dollar", "unended"}
    PROVE  Feeds
<1>1. PICK r : r = Read("error", b.pos, p.pos, told, <<>>) OBVIOUS
<1>2. r.type = "error" /\ r.from = b.pos /\ r.to = p.pos /\ r.at = told.pos
  BY <1>1 DEF Read
<1>3. p.pos \in Nat /\ Taken \in Nat BY DEF Good, Place, FInv, Shape
<1>4. /\ Kind(r) \in {"error", "unended"}
      /\ Kind(r) = "unended" => Peek(p.pos) = End
  BY <1>2, KindOf
<1>5. /\ reads' = Append(reads, r) /\ at' = p /\ start' = b
      /\ mode' = "skip" /\ src' = src
  BY <1>1 DEF Fails
<1>6. b.pos <= p.pos /\ Taken < p.pos BY <1>3
<1> QED BY <1>2, <1>4, <1>5, <1>6, TakenFeeds

(* A slice is empty when it ends where it begins, and not when later. *)
LEMMA BetweenIs ==
    ASSUME Text, NEW b \in Nat, NEW e \in Nat, 1 <= b, b <= e, e <= Len(src) + 1
    PROVE  Between(b, e) = <<>> <=> b = e
<1>1. Len(src) \in Nat BY DEF Text
<1>2. CASE b = e
  <2>1. e - 1 \in Int /\ e - 1 < b BY <1>2
  <2> QED BY <1>2, <2>1, SubSeqEmpty DEF Between
<1>3. CASE b # e
  <2>1. b \in 1 .. Len(src) /\ e - 1 \in b .. Len(src) BY <1>1, <1>3
  <2>2. Len(SubSeq(src, b, e - 1)) = e - 1 - b + 1 BY <1>1, <2>1 DEF Text
  <2>3. Len(SubSeq(src, b, e - 1)) # 0 BY <1>3, <2>2
  <2>4. Len(<<>>) = 0 OBVIOUS
  <2> QED BY <1>3, <2>3, <2>4 DEF Between
<1> QED BY <1>2, <1>3

LEMMA LexFeeds ==
    ASSUME FInv, LexNext PROVE Feeds
<1>1. LInv' BY LexKeepsLines DEF FInv
<1>2. Text /\ Good(at) /\ Good(start) /\ IsSeq(reads) BY DEF FInv, LInv
<1>3. Shape(at, start, mode, Taken, Newest) BY DEF FInv
<1>4. PICK n, k, tk, lk : /\ n = at.pos /\ k = start.pos
                          /\ tk = Taken /\ lk = Newest
  OBVIOUS
<1>5. /\ n \in Nat /\ k \in Nat /\ tk \in Nat
      /\ 1 <= tk /\ tk <= n /\ k <= n /\ 1 <= k
      /\ n <= Len(src) + 1 /\ Len(src) \in Nat
  <2>1. tk \in Nat /\ 1 <= tk /\ tk <= n /\ k <= n BY <1>3, <1>4 DEF Shape
  <2>2. Len(src) \in Nat BY <1>2 DEF Text
  <2>3. n \in Nat /\ n <= Len(src) + 1 /\ k \in Nat /\ 1 <= k
    BY <1>2, <1>4 DEF Good, Place
  <2> QED BY <2>1, <2>2, <2>3
<1>6. PICK p, q : p = Step(at) /\ q = Step(p) OBVIOUS
<1>7. /\ Good(p) /\ Good(q)
      /\ Ahead # End => p.pos = n + 1 /\ n < q.pos
      /\ Ahead = End => p = at
  <2>1. /\ Good(p)
        /\ Ahead = End => p = at
        /\ Ahead # End => p.pos = n + 1
    BY <1>2, <1>4, <1>6, StepGoes DEF Ahead
  <2>2. Good(q) BY <1>2, <1>6, <2>1, StepGoes
  <2>3. Ahead # End => n < q.pos BY <1>2, <1>4, <1>6, TwoSteps DEF Ahead
  <2> QED BY <2>1, <2>2, <2>3
<1>8. /\ p.pos \in Nat /\ q.pos \in Nat
      /\ Ahead # End => n <= p.pos /\ n < p.pos /\ n <= q.pos
  <2>1. p.pos \in Nat /\ q.pos \in Nat BY <1>7 DEF Good, Place
  <2> QED BY <1>5, <1>7, <2>1
<1>9. /\ End # "$" /\ End \notin Letter \cup Digit /\ "$" \notin Letter \cup Digit
      /\ "$" \notin Blank /\ End \notin Blank /\ End # "_" /\ "$" # "_"
      /\ "$" # Quote /\ End # Quote /\ End # Backslash /\ "$" # "-"
      /\ End # "/" /\ "$" # "/" /\ End # "*" /\ End # "-"
  BY ClassAssumption DEF End, Quote, Backslash, Blank, NL
<1>10. /\ lk = "eof" => mode = "done"
       /\ lk = "dollar" => /\ mode \in {"skip", "word"} /\ Ahead = "$"
                           /\ n = tk
                           /\ mode = "word" => k = n
       /\ lk = "unended" => mode = "skip" /\ Ahead = End
       /\ mode \in {"string", "word", "number"} => tk <= k
       /\ mode = "string" => k < n
       /\ mode = "number" => k < n \/ Ahead \in Digit
       /\ mode = "word" => k < n \/ Ahead \in Letter \cup {"_", "$"}
  BY <1>3, <1>4 DEF Shape, Ahead
<1>11. ASSUME NEW x, NEW m \in {"skip", "comment"}, Good(x), n <= x.pos,
              src' = src, reads' = reads, start' = start, at' = x, mode' = m,
              lk \notin {"eof", "dollar", "unended"}
       PROVE  Feeds
  <2>1. x.pos \in Nat BY <1>11 DEF Good, Place
  <2>2. Taken \in Nat /\ 1 <= Taken /\ Taken <= x.pos /\ start.pos <= x.pos
    BY <1>4, <1>5, <1>11, <2>1
  <2>3. Shape(x, start, m, Taken, Newest) BY <1>4, <1>11, <2>2, ShapePlain
  <2> QED BY <1>1, <1>11, <2>3, QuietFeeds
<1>12. ASSUME mode = "comment" PROVE lk \notin {"eof", "dollar", "unended"}
  BY <1>10, <1>12
<1>13. CASE SkipBlank
  <2>1. mode = "skip" /\ Ahead \in Blank BY <1>13 DEF SkipBlank
  <2>2. Ahead # End /\ lk \notin {"eof", "dollar", "unended"}
    BY <1>9, <1>10, <2>1
  <2>3. /\ src' = src /\ reads' = reads /\ start' = start
        /\ at' = p /\ mode' = "skip"
    BY <1>6, <1>13, <2>1 DEF SkipBlank, Scanning
  <2> QED BY <1>7, <1>8, <1>11, <2>2, <2>3
<1>14. CASE CommentOpens
  <2>1. mode = "skip" /\ Ahead = "/" BY <1>14 DEF CommentOpens, CommentAhead
  <2>2. Ahead # End /\ lk \notin {"eof", "dollar", "unended"}
    BY <1>9, <1>10, <2>1
  <2>3. /\ src' = src /\ reads' = reads /\ start' = start
        /\ at' = q /\ mode' = "comment"
    BY <1>6, <1>14 DEF CommentOpens, Scanning
  <2> QED BY <1>7, <1>8, <1>11, <2>2, <2>3
<1>15. CASE CommentCloses
  <2>1. Ahead # End /\ lk \notin {"eof", "dollar", "unended"}
    BY <1>9, <1>12, <1>15 DEF CommentCloses
  <2>2. /\ src' = src /\ reads' = reads /\ start' = start
        /\ at' = q /\ mode' = "skip"
    BY <1>6, <1>15 DEF CommentCloses, Scanning
  <2> QED BY <1>7, <1>8, <1>11, <2>1, <2>2
<1>16. CASE CommentGoesOn
  <2>1. Ahead # End /\ lk \notin {"eof", "dollar", "unended"}
    BY <1>12, <1>16 DEF CommentGoesOn
  <2>2. /\ src' = src /\ reads' = reads /\ start' = start
        /\ at' = p /\ mode' = "comment"
    BY <1>6, <1>16 DEF CommentGoesOn, Scanning
  <2> QED BY <1>7, <1>8, <1>11, <2>1, <2>2
<1>17. CASE CommentNeverCloses
  <2>1. lk \notin {"eof", "dollar", "unended"}
    BY <1>12, <1>17 DEF CommentNeverCloses
  <2>2. /\ src' = src /\ reads' = reads /\ start' = start
        /\ at' = at /\ mode' = "skip"
    BY <1>17 DEF CommentNeverCloses, Scanning
  <2>3. Good(at) /\ n <= at.pos BY <1>2, <1>4, <1>5
  <2> QED BY <1>11, <2>1, <2>2, <2>3
<1>18. CASE StringOpens
  <2>1. mode = "skip" /\ Ahead = Quote BY <1>18 DEF StringOpens, TokenAhead
  <2>2. Ahead # End /\ lk \notin {"eof", "dollar", "unended"}
    BY <1>9, <1>10, <2>1
  <2>3. /\ src' = src /\ reads' = reads /\ start' = at
        /\ at' = p /\ mode' = "string"
    BY <1>6, <1>18 DEF StringOpens, Enter
  <2>4. Taken \in Nat /\ 1 <= Taken /\ Taken <= p.pos /\ at.pos <= p.pos
        /\ Taken <= at.pos /\ at.pos < p.pos
    BY <1>4, <1>5, <1>8, <2>2
  <2>5. Shape(p, at, "string", Taken, Newest) BY <1>4, <2>2, <2>4 DEF Shape
  <2> QED BY <1>1, <2>3, <2>5, QuietFeeds
<1>19. CASE WordStarts
  <2>1. mode = "skip" /\ Ahead \in Letter \cup {"_", "$"}
    BY <1>19 DEF WordStarts, TokenAhead
  <2>2. lk \notin {"eof", "unended"} BY <1>9, <1>10, <2>1
  <2>3. /\ src' = src /\ reads' = reads /\ start' = at
        /\ at' = at /\ mode' = "word"
    BY <1>19 DEF WordStarts, Enter
  <2>4. Taken \in Nat /\ 1 <= Taken /\ Taken <= at.pos /\ at.pos <= at.pos
    BY <1>4, <1>5
  <2>5. Shape(at, at, "word", Taken, Newest)
    BY <1>4, <1>10, <2>1, <2>2, <2>4 DEF Shape, Ahead
  <2> QED BY <1>1, <2>3, <2>5, QuietFeeds
<1>20. CASE NumberStarts
  <2>1. mode = "skip" /\ Ahead \in Digit BY <1>20 DEF NumberStarts, TokenAhead
  <2>2. lk \notin {"eof", "dollar", "unended"} BY <1>9, <1>10, <2>1
  <2>3. /\ src' = src /\ reads' = reads /\ start' = at
        /\ at' = at /\ mode' = "number"
    BY <1>20 DEF NumberStarts, Enter
  <2>4. Taken \in Nat /\ 1 <= Taken /\ Taken <= at.pos /\ at.pos <= at.pos
    BY <1>4, <1>5
  <2>5. Shape(at, at, "number", Taken, Newest)
    BY <1>4, <2>1, <2>2, <2>4 DEF Shape, Ahead
  <2> QED BY <1>1, <2>3, <2>5, QuietFeeds
<1>21. ASSUME mode \in {"string", "number"}
       PROVE  lk \notin {"eof", "dollar", "unended"}
  BY <1>10, <1>21
<1>22. ASSUME NEW x, Good(x), n < x.pos, mode \in {"string", "word", "number"},
              lk \notin {"eof", "dollar", "unended"}
       PROVE  Shape(x, start, mode, Taken, Newest)
  <2>1. x.pos \in Nat BY <1>22 DEF Good, Place
  <2>2. tk \in Nat /\ 1 <= tk /\ tk <= x.pos /\ k < x.pos /\ k <= x.pos
    BY <1>5, <1>22, <2>1
  <2>3. tk <= k BY <1>10, <1>22
  <2> QED BY <1>4, <1>22, <2>2, <2>3 DEF Shape
<1>23. CASE StringChar \/ StringEscape
  <2>1. mode = "string" /\ Ahead # End
    BY <1>9, <1>23 DEF StringChar, StringEscape
  <2>2. /\ src' = src /\ reads' = reads /\ start' = start /\ mode' = mode
        /\ at' = p \/ at' = q
    BY <1>6, <1>23 DEF StringChar, StringEscape
  <2>3. /\ Shape(p, start, mode, Taken, Newest)
        /\ Shape(q, start, mode, Taken, Newest)
    BY <1>7, <1>8, <1>21, <1>22, <2>1
  <2> QED BY <1>1, <2>2, <2>3, QuietFeeds
<1>24. CASE GoesOn
  <2>1. /\ mode \in {"word", "number"} /\ Ahead # "$" /\ Ahead # End
    <3>1. CASE mode = "word" /\ InWord BY <1>9, <3>1 DEF InWord
    <3>2. CASE mode = "number" /\ InNumber BY <1>9, <3>2 DEF InNumber, End
    <3> QED BY <1>24, <3>1, <3>2 DEF GoesOn
  <2>2. lk \notin {"eof", "dollar", "unended"} BY <1>10, <2>1
  <2>3. /\ src' = src /\ reads' = reads /\ start' = start /\ mode' = mode
        /\ at' = p
    BY <1>6, <1>24 DEF GoesOn, Scanning
  <2>4. Shape(p, start, mode, Taken, Newest) BY <1>7, <1>8, <1>22, <2>1, <2>2
  <2> QED BY <1>1, <2>3, <2>4, QuietFeeds
<1>25. CASE StringEnds
  <2>1. mode = "string" /\ Ahead # End /\ Returns("string", start, p, text)
    BY <1>6, <1>9, <1>25 DEF StringEnds
  <2>2. Taken <= start.pos /\ start.pos < p.pos /\ start.pos \in Nat
    BY <1>4, <1>5, <1>8, <1>10, <2>1
  <2> QED BY <1>1, <1>4, <1>7, <1>21, <2>1, <2>2, TokenFeeds
<1>26. CASE NumberEnds
  <2>1. /\ mode = "number" /\ ~InNumber
        /\ Returns("integer", start, at, Between(start.pos, at.pos))
    BY <1>26 DEF NumberEnds
  <2>2. Ahead \notin Digit BY <2>1 DEF InNumber
  <2>3. Taken <= start.pos /\ start.pos < at.pos /\ start.pos \in Nat
    BY <1>4, <1>5, <1>10, <2>1, <2>2
  <2> QED BY <1>1, <1>2, <1>4, <1>21, <2>1, <2>3, TokenFeeds
<1>27. CASE BadEscape
  <2>1. mode = "string" /\ Ahead # End /\ Fails(start, q, q)
    BY <1>6, <1>9, <1>27 DEF BadEscape
  <2>2. Taken <= start.pos /\ start.pos < q.pos /\ start.pos \in Nat
    BY <1>4, <1>5, <1>7, <1>8, <1>10, <2>1
  <2> QED BY <1>1, <1>4, <1>7, <1>21, <2>1, <2>2, ErrorFeeds
<1>28. CASE StringNeverEnds
  <2>1. mode = "string" /\ Ahead = End /\ Fails(start, at, start)
    BY <1>28 DEF StringNeverEnds
  <2>2. Taken <= start.pos /\ start.pos < at.pos /\ start.pos \in Nat
    BY <1>4, <1>5, <1>10, <2>1
  <2>3. Peek(at.pos) = End BY <2>1 DEF Ahead
  <2> QED BY <1>1, <1>2, <1>4, <1>21, <2>1, <2>2, <2>3, ErrorFeeds
<1>29. ASSUME SymbolAhead
       PROVE  /\ Ahead # End /\ lk \notin {"eof", "dollar", "unended"}
              /\ Taken <= at.pos /\ at.pos \in Nat
              /\ at.pos < p.pos /\ at.pos < q.pos
  <2>1. Ahead # End /\ Ahead # "$" /\ mode = "skip"
    BY <1>29 DEF SymbolAhead, TokenAhead
  <2> QED BY <1>4, <1>5, <1>7, <1>8, <1>10, <2>1
<1>30. CASE Symbol
  <2>1. SymbolAhead BY <1>30 DEF Symbol
  <2>2. CASE IsDouble /\ Returns(Double[Ahead], at, q, Between(at.pos, q.pos))
    <3>1. Double[Ahead] \notin {"eof", "error", "ident"}
      <4>1. DOMAIN Double = DOMAIN Second BY DEF Double
      <4> QED BY <2>2, <4>1, SymbolTypes DEF IsDouble
    <3> QED BY <1>1, <1>4, <1>7, <1>29, <2>1, <2>2, <3>1, TokenFeeds
  <2>3. CASE Ahead \in DOMAIN Single /\ Returns(Single[Ahead], at, p, <<Ahead>>)
    <3>1. Single[Ahead] \notin {"eof", "error", "ident"} BY <2>3, SymbolTypes
    <3> QED BY <1>1, <1>4, <1>7, <1>29, <2>1, <2>3, <3>1, TokenFeeds
  <2> QED BY <1>6, <1>30, <2>2, <2>3 DEF Symbol
<1>31. CASE BadSymbol
  <2>1. SymbolAhead /\ Fails(at, p, p) BY <1>6, <1>31 DEF BadSymbol
  <2> QED BY <1>1, <1>4, <1>7, <1>29, <2>1, ErrorFeeds
<1>32. Tokens!Last = lk /\ Left = Len(src) + 1 - tk
  BY <1>2, <1>4, LastIsNewest
<1>33. CASE ReadsEnd
  <2>1. mode = "skip" /\ Ahead = End /\ Returns("eof", at, at, <<>>)
    BY <1>33 DEF ReadsEnd, TokenAhead
  <2>2. PICK r : r = Read("eof", at.pos, at.pos, at, <<>>) OBVIOUS
  <2>3. r.type = "eof" /\ r.to = at.pos BY <2>2 DEF Read
  <2>4. Kind(r) = "eof" BY <2>3, KindOf
  <2>5. /\ reads' = Append(reads, r) /\ at' = at /\ start' = at
        /\ mode' = "done" /\ src' = src
    BY <2>1, <2>2 DEF Returns
  <2>6. Shape(at, at, "done", r.to, "eof")
    BY <1>4, <1>5, <2>3 DEF Shape
  <2>7. FInv' /\ Tokens!Gives("eof") /\ Left' = Len(src) + 1 - r.to
    BY <1>1, <2>4, <2>5, <2>6, ReadMove
  <2>8. lk \notin {"eof", "dollar"} BY <1>9, <1>10, <2>1
  <2>9. Left' <= Left BY <1>4, <1>5, <1>32, <2>3, <2>7
  <2>10. Tokens!Ends BY <1>32, <2>7, <2>8, <2>9 DEF Tokens!Ends
  <2> QED BY <2>7, <2>10 DEF Feeds, Tokens!Next
<1>34. CASE WordEnds
  <2>1. PICK w : w = Between(start.pos, at.pos) OBVIOUS
  <2>2. mode = "word" /\ ~InWord /\ Returns(WordType(w), start, at, w)
    BY <1>34, <2>1 DEF WordEnds
  <2>3. w = <<>> <=> k = n BY <1>2, <1>4, <1>5, <2>1, BetweenIs
  <2>4. lk \notin {"eof", "unended"} BY <1>10, <2>2
  <2>5. CASE k # n
    <3>1. lk # "dollar" BY <1>10, <2>2, <2>5
    <3>2. Taken <= start.pos /\ start.pos < at.pos /\ start.pos \in Nat
      <4>1. tk <= k BY <1>10, <2>2
      <4>2. k < n BY <1>5, <2>5
      <4> QED BY <1>4, <1>5, <4>1, <4>2
    <3>3. WordType(w) \notin {"eof", "error"} BY WordTypes
    <3>4. w # <<>> BY <2>3, <2>5
    <3> QED BY <1>1, <1>2, <1>4, <2>2, <2>4, <3>1, <3>2, <3>3, <3>4, TokenFeeds
  <2>6. CASE k = n
    <3>1. w = <<>> /\ WordType(w) = "ident" BY <2>3, <2>6, WordTypes
    <3>2. Ahead = "$"
      <4>1. ~(k < n) BY <1>5, <2>6
      <4>2. Ahead \in Letter \cup {"_", "$"} BY <1>10, <2>2, <4>1
      <4> QED BY <2>2, <4>2 DEF InWord
    <3>3. PICK r : r = Read("ident", start.pos, at.pos, start, w) OBVIOUS
    <3>4. r.type = "ident" /\ r.to = n /\ r.text = <<>>
      BY <1>4, <3>1, <3>3 DEF Read
    <3>5. Kind(r) = "dollar" BY <3>4, KindOf
    <3>6. /\ reads' = Append(reads, r) /\ at' = at /\ start' = start
          /\ mode' = "skip" /\ src' = src
      BY <2>2, <3>1, <3>3 DEF Returns
    <3>7. Shape(at, start, "skip", r.to, "dollar")
      BY <1>4, <1>5, <3>2, <3>4 DEF Shape, Ahead
    <3>8. FInv' /\ Tokens!Gives("dollar") /\ Left' = Len(src) + 1 - r.to
      BY <1>1, <3>5, <3>6, <3>7, ReadMove
    <3>9. IF lk = "dollar" THEN UNCHANGED Left ELSE Left' <= Left
      <4>1. CASE lk = "dollar" BY <1>10, <1>32, <3>4, <3>8, <4>1
      <4>2. CASE lk # "dollar" BY <1>5, <1>32, <3>4, <3>8, <4>2
      <4> QED BY <4>1, <4>2
    <3>10. Tokens!Sticks BY <1>32, <2>4, <3>8, <3>9 DEF Tokens!Sticks
    <3> QED BY <3>8, <3>10 DEF Feeds, Tokens!Next
  <2> QED BY <2>5, <2>6
<1> QED
  BY <1>13, <1>14, <1>15, <1>16, <1>17, <1>18, <1>19, <1>20, <1>23, <1>24,
     <1>25, <1>26, <1>27, <1>28, <1>30, <1>31, <1>33, <1>34
  DEF LexNext

LEMMA FeedsBegin ==
    ASSUME NEW s \in Source, LexInit(s) PROVE FInv /\ Tokens!Init
<1>1. LInv BY LinesBegin
<1>2. /\ reads = <<>> /\ mode = "skip" /\ at.pos = 1 /\ start.pos = 1
  BY DEF LexInit
<1>3. Taken = 1 /\ Newest = "none" BY <1>2 DEF Taken, Newest
<1>4. Shape(at, start, mode, Taken, Newest) BY <1>2, <1>3 DEF Shape
<1>5. Kinds = <<>> /\ Left = Len(src) + 1 - 1
  <2>1. Kinds = [i \in {} |-> Kind(reads[i])] BY <1>2 DEF Kinds
  <2> QED BY <1>2, <2>1 DEF Left
<1>6. Len(src) \in Nat BY <1>1 DEF LInv, Text
<1>7. Left \in Nat BY <1>5, <1>6
<1> QED BY <1>1, <1>4, <1>5, <1>7 DEF FInv, Tokens!Init

LEMMA FeedsStay ==
    ASSUME FInv, UNCHANGED lexVars PROVE FInv' /\ UNCHANGED <<Kinds, Left>>
<1>1. Good(at) /\ Good(start) /\ LInv BY DEF FInv, LInv
<1>2. LInv' BY <1>1, GoodMove DEF lexVars
<1>3. Shape(at, start, mode, Taken, Newest) BY DEF FInv
<1> QED BY <1>2, <1>3, QuietMove DEF lexVars

(* The calls on any text are a TokenSource: they come to its end, or to a  *)
(* '$', in as many steps as it has characters, and after a string without  *)
(* an end there is nothing else.                                           *)
THEOREM LexerFeedsParser == LexSpec => FeedsParser
<1>1. (\E s \in Source : LexInit(s)) => FInv /\ Tokens!Init BY FeedsBegin
<1>2. ASSUME FInv, [LexNext]_lexVars
      PROVE  FInv' /\ [Tokens!Next]_<<Kinds, Left>>
  <2>1. CASE LexNext BY <1>2, <2>1, LexFeeds DEF Feeds
  <2>2. CASE UNCHANGED lexVars BY <1>2, <2>2, FeedsStay
  <2> QED BY <1>2, <2>1, <2>2
<1> QED BY <1>1, <1>2, PTL DEF LexSpec, FeedsParser, Tokens!Spec

-----------------------------------------------------------------------------
(* What may be skipped *)

(* A set of numbers that is not empty has a least one. *)
LEMMA Least ==
    ASSUME NEW T, T \subseteq Nat, T # {}
    PROVE  \E x \in T : \A y \in T : x <= y
<1> DEFINE R == {ss \in Nat \X Nat : ss[1] < ss[2]}
<1>1. IsWellFoundedOn(R, Nat) BY NatLessThanWellFounded DEF OpToRel
<1> HIDE DEF R
<1>2. PICK x \in T : \A y \in T : <<y, x>> \notin R BY <1>1, WFMin
<1>3. ASSUME NEW y \in T PROVE x <= y
  <2>1. x \in Nat /\ y \in Nat OBVIOUS
  <2>2. y < x => <<y, x>> \in R BY <2>1 DEF R
  <2> QED BY <1>2, <2>1, <2>2
<1> QED BY <1>3

(* Going from k to q over one blank or one comment, and on by s. *)
Opens(k, q) == k + 1 < q /\ src[k] = "/" /\ src[k + 1] = "*" /\ ~Preserve
Skips(s, k, q) ==
    \/ k = q
    \/ src[k] \in Blank /\ s[k + 1]
    \/ /\ Opens(k, q)
       /\ IF CommentEnds(k, q) = {} THEN Peek(q) = End
          ELSE \E e \in CommentEnds(k, q) :
                 (\A f \in CommentEnds(k, q) : e <= f) /\ s[e]

SkipsAll(q) == CHOOSE s : s = [k \in 1 .. q |-> Skips(s, k, q)]

LEMMA SkippedIs ==
    ASSUME NEW p, NEW q
    PROVE  Skipped(p, q) <=> p \in 1 .. q /\ SkipsAll(q)[p]
BY DEF Skipped, SkipsAll, Skips, Opens

LEMMA SkipsAgree ==
    ASSUME NEW q \in Nat, NEW k \in 1 .. q, NEW s, NEW t,
           \A j \in k + 1 .. q : s[j] = t[j]
    PROVE  Skips(s, k, q) = Skips(t, k, q)
<1>1. CASE k = q BY <1>1 DEF Skips
<1>2. CASE k # q
  <2>1. k + 1 \in k + 1 .. q BY <1>2
  <2>2. s[k + 1] = t[k + 1] BY <2>1
  <2>3. \A e \in CommentEnds(k, q) : e \in k + 1 .. q BY DEF CommentEnds
  <2>4. \A e \in CommentEnds(k, q) : s[e] = t[e] BY <2>3
  <2> QED BY <1>2, <2>2, <2>4 DEF Skips
<1> QED BY <1>1, <1>2

(* s says of the places from m on whether one may skip from there to q. *)
SkipsFrom(s, m, q) ==
    /\ s \in [m .. q -> BOOLEAN]
    /\ \A k \in m .. q : s[k] = Skips(s, k, q)

LEMMA SkipsExist ==
    ASSUME NEW q \in Nat \ {0}
    PROVE  \E s : SkipsFrom(s, 1, q)
<1> DEFINE Ok(n) == \E s : SkipsFrom(s, q - n, q)
           T == {n \in 0 .. q - 1 : ~Ok(n)}
<1>1. SUFFICES ASSUME T # {} PROVE FALSE
  <2>1. q - 1 \in 0 .. q - 1 /\ q - (q - 1) = 1 OBVIOUS
  <2>2. Ok(q - 1) BY <2>1
  <2> QED BY <2>1, <2>2
<1>2. PICK n \in T : \A j \in T : n <= j
  <2>1. T \subseteq Nat OBVIOUS
  <2> HIDE DEF T
  <2> QED BY <1>1, <2>1, Least
<1>3. CASE n = 0
  <2> DEFINE s == [k \in q .. q |-> TRUE]
  <2>1. \A k \in q .. q : k = q /\ s[k] = TRUE OBVIOUS
  <2>2. \A k \in q .. q : Skips(s, k, q) BY <2>1 DEF Skips
  <2>3. \A k \in q .. q : s[k] = Skips(s, k, q) BY <2>1, <2>2 DEF Skips
  <2>4. s \in [q .. q -> BOOLEAN] OBVIOUS
  <2>5. SkipsFrom(s, q - 0, q)
    <3>1. q - 0 = q OBVIOUS
    <3> HIDE DEF s
    <3> QED BY <2>3, <2>4, <3>1 DEF SkipsFrom
  <2> QED BY <1>3, <2>5
<1>4. CASE n > 0
  <2>1. n - 1 \in 0 .. q - 1 /\ ~(n <= n - 1) BY <1>2, <1>4
  <2>2. Ok(n - 1)
    <3> HIDE DEF Ok
    <3> QED BY <1>2, <2>1
  <2>3. PICK s : SkipsFrom(s, q - (n - 1), q) BY <2>2
  <2>4. PICK m : m = q - n OBVIOUS
  <2>5. m \in 1 .. q /\ q - (n - 1) = m + 1 /\ m < q BY <1>2, <1>4, <2>4
  <2>6. /\ s \in [m + 1 .. q -> BOOLEAN]
        /\ \A k \in m + 1 .. q : s[k] = Skips(s, k, q)
    BY <2>3, <2>5 DEF SkipsFrom
  <2> DEFINE t == [k \in m .. q |-> IF k = m THEN Skips(s, m, q) ELSE s[k]]
  <2>7. \A k \in m + 1 .. q : k \in m .. q /\ k # m BY <2>5
  <2>8. \A k \in m + 1 .. q : t[k] = s[k] BY <2>7
  <2>9. t[m] = Skips(s, m, q) BY <2>5
  <2>10. Skips(s, m, q) \in BOOLEAN BY DEF Skips
  <2>11. t \in [m .. q -> BOOLEAN]
    <3>1. \A k \in m .. q : k = m \/ k \in m + 1 .. q BY <2>5
    <3> QED BY <2>6, <2>10, <3>1
  <2> HIDE DEF t
  <2>12. ASSUME NEW k \in m .. q PROVE t[k] = Skips(t, k, q)
    <3>1. k \in 1 .. q /\ (k = m \/ k \in m + 1 .. q) BY <2>5
    <3>2. \A j \in k + 1 .. q : s[j] = t[j]
      <4>1. \A j \in k + 1 .. q : j \in m + 1 .. q BY <2>5
      <4> QED BY <2>8, <4>1
    <3>3. Skips(s, k, q) = Skips(t, k, q) BY <3>1, <3>2, SkipsAgree
    <3>4. t[k] = Skips(s, k, q) BY <2>6, <2>8, <2>9, <3>1
    <3> QED BY <3>3, <3>4
  <2>13. SkipsFrom(t, q - n, q) BY <2>4, <2>11, <2>12 DEF SkipsFrom
  <2> QED BY <2>13
<1> QED BY <1>2, <1>3, <1>4

LEMMA SkipsAllIs ==
    ASSUME NEW q \in Nat, NEW k \in 1 .. q
    PROVE  SkipsAll(q)[k] <=> Skips(SkipsAll(q), k, q)
<1>1. q \in Nat \ {0} OBVIOUS
<1>2. PICK s : SkipsFrom(s, 1, q) BY <1>1, SkipsExist
<1>3. s = [j \in 1 .. q |-> Skips(s, j, q)] BY <1>2 DEF SkipsFrom
<1>4. SkipsAll(q) = [j \in 1 .. q |-> Skips(SkipsAll(q), j, q)]
  BY <1>3 DEF SkipsAll
<1> QED BY <1>4

(* What may be skipped can be skipped in two parts. *)
LEMMA SkipFurther ==
    ASSUME NEW p, NEW q, NEW r \in Nat, Skipped(p, q), Skipped(q, r),
           q \in Nat, Peek(q) # End
    PROVE  Skipped(p, r)
<1>1. p \in 1 .. q /\ q \in 1 .. r /\ SkipsAll(q)[p] /\ SkipsAll(r)[q]
  BY SkippedIs
<1> DEFINE S == SkipsAll(q)
           R == SkipsAll(r)
           T == {n \in 0 .. q - 1 : S[q - n] /\ ~R[q - n]}
<1>2. SUFFICES ASSUME ~R[p] PROVE FALSE
  <2>1. p \in 1 .. r BY <1>1
  <2> QED BY <2>1, SkippedIs
<1>3. T \subseteq Nat /\ T # {}
  <2>1. q - p \in 0 .. q - 1 /\ q - (q - p) = p BY <1>1
  <2>2. q - p \in T BY <1>1, <1>2, <2>1
  <2> QED BY <2>2
<1>4. PICK n \in T : \A j \in T : n <= j
  <2> HIDE DEF T
  <2> QED BY <1>3, Least
<1>5. PICK k : k = q - n OBVIOUS
<1>6. k \in 1 .. q /\ k \in 1 .. r /\ S[k] /\ ~R[k] /\ k # q
  BY <1>1, <1>4, <1>5
<1>7. ASSUME NEW j \in k + 1 .. q, S[j] PROVE R[j]
  <2>1. q - j \in 0 .. q - 1 /\ q - (q - j) = j /\ ~(n <= q - j)
    BY <1>1, <1>4, <1>5, <1>6
  <2> QED BY <1>4, <1>7, <2>1
<1>8. Skips(S, k, q) /\ ~Skips(R, k, r) BY <1>1, <1>6, SkipsAllIs
<1> HIDE DEF S, R, T
<1>9. CASE src[k] \in Blank /\ S[k + 1]
  <2>1. k + 1 \in k + 1 .. q BY <1>1, <1>6
  <2>2. R[k + 1] BY <1>7, <1>9, <2>1
  <2> QED BY <1>8, <1>9, <2>2 DEF Skips
<1>10. CASE Opens(k, q)
  <2>1. Opens(k, r) BY <1>1, <1>6, <1>10 DEF Opens
  <2>2. PICK e \in CommentEnds(k, q) :
          (\A f \in CommentEnds(k, q) : e <= f) /\ S[e]
    <3>1. ~(src[k] \in Blank)
      BY <1>10 DEF Opens, Blank, NL
    <3> QED BY <1>6, <1>8, <3>1 DEF Skips
  <2>3. e \in k + 1 .. q /\ e \in CommentEnds(k, r)
    BY <1>1, <1>6, <2>2 DEF CommentEnds
  <2>4. ASSUME NEW f \in CommentEnds(k, r) PROVE e <= f
    <3>1. f \in k + 4 .. r BY DEF CommentEnds
    <3>2. CASE f <= q
      <4>1. f \in CommentEnds(k, q) BY <1>1, <1>6, <3>1, <3>2 DEF CommentEnds
      <4> QED BY <2>2, <4>1
    <3>3. CASE f > q BY <1>1, <1>6, <2>3, <3>1, <3>3
    <3> QED BY <1>1, <1>6, <3>1, <3>2, <3>3
  <2>5. R[e] BY <1>7, <2>2, <2>3
  <2> QED BY <1>8, <2>1, <2>3, <2>4, <2>5 DEF Skips
<1> QED BY <1>6, <1>8, <1>9, <1>10 DEF Skips

LEMMA SkipNothing == ASSUME NEW q \in Nat \ {0} PROVE Skipped(q, q)
<1>1. q \in 1 .. q OBVIOUS
<1>2. SkipsAll(q)[q] BY <1>1, SkipsAllIs DEF Skips
<1> QED BY <1>1, <1>2, SkippedIs

LEMMA SkipOne ==
    ASSUME NEW q \in Nat \ {0}, src[q] \in Blank PROVE Skipped(q, q + 1)
<1>1. q \in 1 .. q + 1 /\ q + 1 \in 1 .. q + 1 /\ q + 1 \in Nat OBVIOUS
<1>2. SkipsAll(q + 1)[q + 1] BY <1>1, SkipsAllIs DEF Skips
<1>3. SkipsAll(q + 1)[q] BY <1>1, <1>2, SkipsAllIs DEF Skips
<1> QED BY <1>1, <1>3, SkippedIs

LEMMA SkipComment ==
    ASSUME NEW q \in Nat \ {0}, NEW r \in Nat, Opens(q, r),
           \A e \in CommentEnds(q, r) : e = r,
           Peek(r) = End \/ r \in CommentEnds(q, r)
    PROVE  Skipped(q, r)
<1>1. q \in 1 .. r /\ r \in 1 .. r BY DEF Opens
<1>2. SkipsAll(r)[r] BY <1>1, SkipsAllIs DEF Skips
<1>3. SkipsAll(r)[q]
  <2>1. CASE CommentEnds(q, r) = {} BY <1>1, <2>1, SkipsAllIs DEF Skips
  <2>2. CASE CommentEnds(q, r) # {}
    <3>1. r \in CommentEnds(q, r) /\ \A f \in CommentEnds(q, r) : r <= f
      BY <2>2
    <3> QED BY <1>1, <1>2, <2>2, <3>1, SkipsAllIs DEF Skips
  <2> QED BY <2>1, <2>2
<1> QED BY <1>1, <1>3, SkippedIs

-----------------------------------------------------------------------------
(* Cover *)

(* With the lexer at p in a comment that began at o, no end has been passed.*)
Commented(o, p) ==
    /\ o \in Nat \ {0} /\ o + 2 <= p /\ o + 1 <= Len(src)
    /\ Opens(o, o + 2)
    /\ \A e \in CommentEnds(o, p + 1) : e > Len(src) + 1

(* A token, but for the end, begins at what is not blank. *)
Begun(b) == b <= Len(src) /\ src[b] \notin Blank

(* With tk taken by the calls before, what the loops have passed since. *)
Gap(p, b, m, tk) ==
    /\ m = "skip" => Skipped(tk, p)
    /\ m = "comment" => \E o \in Nat : Skipped(tk, o) /\ Commented(o, p)
    /\ m \in {"string", "word", "number"} => Skipped(tk, b) /\ Begun(b)

Covered(r, tk) ==
    /\ Skipped(tk, r.from)
    /\ r.type # "eof" =>
         src[r.from] \notin Blank /\ (r.from < r.to \/ src[r.from] = "$")
    /\ r.type = "eof" => Peek(r.from) = End

CInv == FInv /\ Covers /\ Gap(at.pos, start.pos, mode, Taken)

LEMMA CoversIs ==
    Covers <=> \A i \in DOMAIN reads :
                 Covered(reads[i], IF i = 1 THEN 1 ELSE reads[i - 1].to)
BY DEF Covers, Covered

(* The text does not change under the lexer. *)
LEMMA SkippedStays ==
    ASSUME src' = src, NEW p, NEW q, Skipped(p, q)
    PROVE  Skipped(p, q)'
BY DEF Skipped, CommentEnds, Peek

LEMMA GapStays ==
    ASSUME src' = src, NEW p, NEW b, NEW m, NEW tk, Gap(p, b, m, tk)
    PROVE  Gap(p, b, m, tk)'
<1>1. ASSUME NEW x, NEW y, Skipped(x, y) PROVE Skipped(x, y)'
  BY <1>1, SkippedStays
<1>2. ASSUME NEW o, Commented(o, p) PROVE Commented(o, p)'
  BY <1>2 DEF Commented, Opens, CommentEnds
<1>3. m = "skip" => Skipped(tk, p)' BY <1>1 DEF Gap
<1>4. m = "comment" => \E o \in Nat : Skipped(tk, o)' /\ Commented(o, p)'
  BY <1>1, <1>2 DEF Gap
<1>5. m \in {"string", "word", "number"} => Skipped(tk, b)' /\ Begun(b)'
  BY <1>1 DEF Gap, Begun
<1> QED BY <1>3, <1>4, <1>5 DEF Gap

LEMMA CoveredStays ==
    ASSUME src' = src, NEW r, NEW tk, Covered(r, tk)
    PROVE  Covered(r, tk)'
BY DEF Covered, Skipped, CommentEnds, Peek

LEMMA CoverQuiet ==
    ASSUME CInv, FInv', src' = src, reads' = reads,
           NEW p, NEW b, NEW m, at'.pos = p, start'.pos = b, mode' = m,
           Gap(p, b, m, Taken)
    PROVE  CInv'
<1>1. PICK tk : tk = Taken OBVIOUS
<1>2. Taken' = tk BY <1>1 DEF Taken
<1>3. Gap(p, b, m, tk)' BY <1>1, GapStays
<1>4. Gap(at.pos, start.pos, mode, Taken)' BY <1>2, <1>3 DEF Gap
<1>5. ASSUME NEW i \in DOMAIN reads'
      PROVE  Covered(reads[i], IF i = 1 THEN 1 ELSE reads[i - 1].to)'
  <2>1. PICK x, t : x = reads[i] /\ t = IF i = 1 THEN 1 ELSE reads[i - 1].to
    OBVIOUS
  <2>2. Covered(x, t) BY <2>1, CoversIs DEF CInv
  <2>3. Covered(x, t)' BY <2>2, CoveredStays
  <2> QED BY <2>1, <2>3 DEF Covered
<1>6. Covers' BY <1>5 DEF Covers, Covered
<1> QED BY <1>4, <1>6 DEF CInv

LEMMA CoverRead ==
    ASSUME CInv, FInv', src' = src, NEW r, reads' = Append(reads, r),
           Covered(r, Taken), NEW p \in Nat \ {0}, at'.pos = p, r.to = p,
           mode' \in {"skip", "done"}
    PROVE  CInv'
<1>1. IsSeq(reads) BY DEF CInv, FInv, LInv
<1>2. PICK n : n = Len(reads) OBVIOUS
<1>3. /\ reads' # <<>> /\ n \in Nat /\ DOMAIN reads = 1 .. n
      /\ Len(reads') = n + 1 /\ DOMAIN reads' = 1 .. n + 1
      /\ \A i \in 1 .. n : reads'[i] = reads[i]
      /\ reads'[n + 1] = r
  BY <1>1, <1>2, Grown
<1>4. Taken' = p BY <1>3 DEF Taken
<1>5. Taken = IF n + 1 = 1 THEN 1 ELSE reads'[n].to
  <2>1. CASE n = 0
    <3>1. PICK S : reads \in Seq(S) BY <1>1 DEF IsSeq
    <3>2. Len(reads) = 0 BY <1>2, <2>1
    <3>3. reads = <<>> BY <3>1, <3>2, EmptySeq
    <3> QED BY <2>1, <3>3 DEF Taken
  <2>2. CASE n # 0
    <3>1. reads # <<>> BY <1>2, <2>2
    <3>2. n \in 1 .. n /\ n + 1 # 1 BY <1>3, <2>2
    <3> QED BY <1>2, <1>3, <3>1, <3>2 DEF Taken
  <2> QED BY <2>1, <2>2
<1>6. ASSUME NEW i \in DOMAIN reads'
      PROVE  Covered(reads[i], IF i = 1 THEN 1 ELSE reads[i - 1].to)'
  <2>1. PICK x, tk : x = reads'[i] /\ tk = IF i = 1 THEN 1 ELSE reads'[i - 1].to
    OBVIOUS
  <2>2. Covered(x, tk)
    <3>1. CASE i = n + 1
      <4>1. i - 1 = n /\ (i = 1 <=> n + 1 = 1) BY <1>3, <3>1
      <4>2. x = r /\ tk = Taken BY <1>3, <1>5, <2>1, <3>1, <4>1
      <4> QED BY <4>2
    <3>2. CASE i # n + 1
      <4>1. i \in 1 .. n /\ (i # 1 => i - 1 \in 1 .. n) BY <1>3, <3>2
      <4>2. x = reads[i] /\ tk = IF i = 1 THEN 1 ELSE reads[i - 1].to
        BY <1>3, <2>1, <4>1
      <4>3. Covered(reads[i], IF i = 1 THEN 1 ELSE reads[i - 1].to)
        BY <1>3, <4>1, CoversIs DEF CInv
      <4> QED BY <4>2, <4>3
    <3> QED BY <3>1, <3>2
  <2>3. Covered(x, tk)' BY <2>2, CoveredStays
  <2> QED BY <2>1, <2>3 DEF Covered
<1>7. Covers' BY <1>6 DEF Covers, Covered
<1>8. Skipped(p, p) BY SkipNothing
<1>9. Skipped(p, p)' BY <1>8 DEF Skipped, CommentEnds, Peek
<1>10. Gap(at.pos, start.pos, mode, Taken)' BY <1>4, <1>9 DEF Gap
<1> QED BY <1>7, <1>10 DEF CInv

(* A character ahead is one of the text. *)
LEMMA AheadIs ==
    ASSUME Text, NEW n \in Nat, Peek(n) # End
    PROVE  n <= Len(src) /\ src[n] = Peek(n)
<1>1. Len(src) \in Nat BY DEF Text
<1> QED BY <1>1 DEF Peek

(* Where a comment begins, goes on and ends. *)
LEMMA CommentBegins ==
    ASSUME Text, NEW o \in Nat \ {0}, o < Len(src), src[o] = "/",
           src[o + 1] = "*", ~Preserve
    PROVE  Commented(o, o + 2)
<1>1. Len(src) \in Nat BY DEF Text
<1>2. Opens(o, o + 2) BY DEF Opens
<1>3. CommentEnds(o, o + 2 + 1) = {} BY DEF CommentEnds
<1> QED BY <1>1, <1>2, <1>3 DEF Commented

LEMMA CommentContinues ==
    ASSUME Text, NEW o, NEW n \in Nat, Commented(o, n), n <= Len(src),
           ~(src[n] = "*" /\ n < Len(src) /\ src[n + 1] = "/")
    PROVE  Commented(o, n + 1)
<1>1. Len(src) \in Nat BY DEF Text
<1>2. o \in Nat \ {0} /\ o + 2 <= n + 1 /\ o + 1 <= Len(src) /\ Opens(o, o + 2)
  BY DEF Commented
<1>3. ASSUME NEW e \in CommentEnds(o, n + 1 + 1) PROVE e > Len(src) + 1
  <2>1. e \in o + 4 .. n + 1 + 1 /\ src[e - 2] = "*" /\ src[e - 1] = "/"
    BY DEF CommentEnds
  <2>2. CASE e <= n + 1
    <3>1. e \in CommentEnds(o, n + 1) BY <1>2, <2>1, <2>2 DEF CommentEnds
    <3> QED BY <3>1 DEF Commented
  <2>3. CASE e > n + 1
    <3>1. e - 2 = n /\ e - 1 = n + 1 /\ e = n + 2 BY <1>2, <2>1, <2>3
    <3>2. ~(n < Len(src)) BY <2>1, <3>1
    <3> QED BY <1>1, <3>1, <3>2
  <2> QED BY <1>2, <2>1, <2>2, <2>3
<1> QED BY <1>2, <1>3 DEF Commented

LEMMA CommentCloseSkips ==
    ASSUME Text, NEW o, NEW n \in Nat, Commented(o, n), n < Len(src),
           src[n] = "*", src[n + 1] = "/"
    PROVE  Skipped(o, n + 2)
<1>1. Len(src) \in Nat BY DEF Text
<1>2. o \in Nat \ {0} /\ o + 2 <= n /\ Opens(o, o + 2)
      /\ \A e \in CommentEnds(o, n + 1) : e > Len(src) + 1
  BY DEF Commented
<1>3. Opens(o, n + 2) BY <1>2 DEF Opens
<1>4. n + 2 \in CommentEnds(o, n + 2)
  <2>1. n + 2 \in o + 4 .. n + 2 /\ n + 2 - 2 = n /\ n + 2 - 1 = n + 1 BY <1>2
  <2> QED BY <2>1 DEF CommentEnds
<1>5. ASSUME NEW e \in CommentEnds(o, n + 2) PROVE e = n + 2
  <2>1. e \in o + 4 .. n + 2 BY DEF CommentEnds
  <2>2. ASSUME e <= n + 1 PROVE FALSE
    <3>1. e \in CommentEnds(o, n + 1) BY <1>2, <2>1, <2>2 DEF CommentEnds
    <3> QED BY <1>1, <1>2, <2>1, <2>2, <3>1
  <2> QED BY <1>2, <2>1, <2>2
<1>6. n + 2 \in Nat OBVIOUS
<1> QED BY <1>2, <1>3, <1>4, <1>5, <1>6, SkipComment

LEMMA CommentEndSkips ==
    ASSUME Text, NEW o, NEW n \in Nat, Commented(o, n), n <= Len(src) + 1,
           Peek(n) = End
    PROVE  Skipped(o, n)
<1>1. Len(src) \in Nat BY DEF Text
<1>2. o \in Nat \ {0} /\ o + 2 <= n /\ Opens(o, o + 2)
      /\ \A e \in CommentEnds(o, n + 1) : e > Len(src) + 1
  BY DEF Commented
<1>3. Opens(o, n) BY <1>2 DEF Opens
<1>4. ASSUME NEW e \in CommentEnds(o, n) PROVE e = n
  <2>1. e \in o + 4 .. n /\ e \in CommentEnds(o, n + 1)
    BY <1>2 DEF CommentEnds
  <2> QED BY <1>1, <1>2, <2>1
<1> QED BY <1>2, <1>3, <1>4, SkipComment

(* Every step of the lexer keeps what it has passed since the last token. *)
LEMMA LexCovers ==
    ASSUME CInv, LexNext PROVE CInv'
<1>1. FInv' BY LexFeeds DEF CInv, Feeds
<1>2. Text /\ Good(at) /\ Good(start) BY DEF CInv, FInv, LInv
<1>3. PICK n, k, tk : n = at.pos /\ k = start.pos /\ tk = Taken OBVIOUS
<1>4. /\ Shape(at, start, mode, Taken, Newest)
      /\ Gap(n, k, mode, tk)
  BY <1>3 DEF CInv, FInv
<1>5. /\ n \in Nat \ {0} /\ k \in Nat \ {0} /\ n <= Len(src) + 1
      /\ Len(src) \in Nat /\ k <= n
  <2>1. Len(src) \in Nat BY <1>2 DEF Text
  <2>2. k <= n BY <1>3, <1>4 DEF Shape
  <2> QED BY <1>2, <1>3, <2>1, <2>2 DEF Good, Place
<1>6. PICK p, q : p = Step(at) /\ q = Step(p) OBVIOUS
<1>7. /\ Good(p) /\ Good(q)
      /\ Ahead # End => p.pos = n + 1 /\ n < q.pos
  BY <1>2, <1>3, <1>6, StepGoes, TwoSteps DEF Ahead
<1>8. /\ p.pos \in Nat \ {0} /\ q.pos \in Nat \ {0}
      /\ Ahead # End /\ Peek(n + 1) # End => q.pos = n + 2
  <2>1. p.pos \in Nat \ {0} /\ q.pos \in Nat \ {0} BY <1>7 DEF Good, Place
  <2>2. ASSUME Ahead # End, Peek(n + 1) # End PROVE q.pos = n + 2
    <3>1. p.pos = n + 1 BY <1>7, <2>2
    <3>2. q.pos = p.pos + 1 BY <1>2, <1>6, <1>7, <2>2, <3>1, StepGoes
    <3> QED BY <1>5, <3>1, <3>2
  <2> QED BY <2>1, <2>2
<1>9. /\ End # "$" /\ End \notin Letter \cup Digit /\ "$" \notin Letter \cup Digit
      /\ (Letter \cup Digit) \cap Blank = {}
      /\ "$" \notin Blank /\ End \notin Blank /\ "_" \notin Blank
      /\ End # "_" /\ "$" # "_" /\ "$" # "-" /\ End # "-"
      /\ Quote \notin Blank /\ End # Quote /\ End # Backslash
      /\ End # "/" /\ FF # "*" /\ FF # "/" /\ End # "*"
  BY ClassAssumption DEF End, Quote, Backslash, Blank, NL, FF
<1>10. Ahead # End => n <= Len(src) /\ src[n] = Ahead
  BY <1>2, <1>3, <1>5, AheadIs DEF Ahead
<1>11. ASSUME NEW x, Good(x), src' = src, reads' = reads, NEW b, NEW m,
              at' = x, start' = b, mode' = m, Gap(x.pos, b.pos, m, tk)
       PROVE  CInv'
  BY <1>1, <1>3, <1>11, CoverQuiet
<1>12. mode = "skip" => Skipped(tk, n) BY <1>4 DEF Gap
<1>13. CASE SkipBlank
  <2>1. mode = "skip" /\ Ahead \in Blank BY <1>13 DEF SkipBlank
  <2>2. Ahead # End /\ src[n] \in Blank BY <1>9, <1>10, <2>1
  <2>3. Peek(n) # End BY <1>3, <2>2 DEF Ahead
  <2>4. Skipped(n, n + 1) BY <1>5, <2>2, SkipOne
  <2>5. Skipped(tk, n + 1) BY <1>5, <1>12, <2>1, <2>3, <2>4, SkipFurther
  <2>6. Gap(p.pos, k, "skip", tk) BY <1>7, <2>2, <2>5 DEF Gap
  <2>7. src' = src /\ reads' = reads /\ start' = start
        /\ at' = p /\ mode' = "skip"
    BY <1>6, <1>13, <2>1 DEF SkipBlank, Scanning
  <2> QED BY <1>3, <1>7, <1>11, <2>6, <2>7
<1>14. CASE CommentOpens
  <2>1. mode = "skip" /\ Ahead = "/" /\ Followed("*") /\ ~Preserve
    BY <1>14 DEF CommentOpens, CommentAhead
  <2>2. n < Len(src) /\ src[n + 1] = "*" BY <1>3, <2>1 DEF Followed
  <2>3. src[n] = "/" BY <1>9, <1>10, <2>1
  <2>4. Peek(n + 1) # End
    <3>1. ~(n + 1 > Len(src)) BY <1>5, <2>2
    <3> QED BY <1>9, <2>2, <3>1 DEF Peek
  <2>5. q.pos = n + 2 BY <1>8, <1>9, <2>1, <2>4
  <2>6. Commented(n, n + 2) BY <1>2, <1>5, <2>1, <2>2, <2>3, CommentBegins
  <2>7. Gap(q.pos, k, "comment", tk) BY <1>5, <1>12, <2>1, <2>5, <2>6 DEF Gap
  <2>8. src' = src /\ reads' = reads /\ start' = start
        /\ at' = q /\ mode' = "comment"
    BY <1>6, <1>14 DEF CommentOpens, Scanning
  <2> QED BY <1>3, <1>7, <1>11, <2>7, <2>8
<1>15. ASSUME mode = "comment"
       PROVE  \E o \in Nat : /\ Skipped(tk, o) /\ Commented(o, n)
                             /\ Peek(o) # End
  <2>1. PICK o \in Nat : Skipped(tk, o) /\ Commented(o, n) BY <1>4, <1>15 DEF Gap
  <2>2. o + 1 <= Len(src) /\ src[o] = "/" BY <2>1 DEF Commented, Opens
  <2>3. ~(o > Len(src)) BY <1>5, <2>2
  <2>4. Peek(o) # End BY <1>9, <2>2, <2>3 DEF Peek
  <2> QED BY <2>1, <2>4
<1>16. CASE CommentCloses
  <2>1. mode = "comment" /\ Ahead = "*" /\ Followed("/") BY <1>16 DEF CommentCloses
  <2>2. n < Len(src) /\ src[n + 1] = "/" BY <1>3, <2>1 DEF Followed
  <2>3. src[n] = "*" BY <1>9, <1>10, <2>1
  <2>4. Peek(n + 1) # End
    <3>1. ~(n + 1 > Len(src)) BY <1>5, <2>2
    <3> QED BY <1>9, <2>2, <3>1 DEF Peek
  <2>5. q.pos = n + 2 BY <1>8, <1>9, <2>1, <2>4
  <2>6. PICK o \in Nat : Skipped(tk, o) /\ Commented(o, n) /\ Peek(o) # End
    BY <1>15, <2>1
  <2>7. Skipped(o, n + 2) BY <1>2, <1>5, <2>2, <2>3, <2>6, CommentCloseSkips
  <2>8. Skipped(tk, n + 2)
    <3>1. n + 2 \in Nat BY <1>5
    <3> QED BY <2>6, <2>7, <3>1, SkipFurther
  <2>9. Gap(q.pos, k, "skip", tk) BY <2>5, <2>8 DEF Gap
  <2>10. src' = src /\ reads' = reads /\ start' = start
         /\ at' = q /\ mode' = "skip"
    BY <1>6, <1>16 DEF CommentCloses, Scanning
  <2> QED BY <1>3, <1>7, <1>11, <2>9, <2>10
<1>17. CASE CommentGoesOn
  <2>1. mode = "comment" /\ Ahead # End /\ ~(Ahead = "*" /\ Followed("/"))
    BY <1>17 DEF CommentGoesOn
  <2>2. ~(src[n] = "*" /\ n < Len(src) /\ src[n + 1] = "/")
    BY <1>3, <1>10, <2>1 DEF Followed
  <2>3. PICK o \in Nat : Skipped(tk, o) /\ Commented(o, n) BY <1>15, <2>1
  <2>4. Commented(o, n + 1)
    BY <1>2, <1>5, <1>10, <2>1, <2>2, <2>3, CommentContinues
  <2>5. Gap(p.pos, k, "comment", tk) BY <1>7, <2>1, <2>3, <2>4 DEF Gap
  <2>6. src' = src /\ reads' = reads /\ start' = start
        /\ at' = p /\ mode' = "comment"
    BY <1>6, <1>17, <2>1 DEF CommentGoesOn, Scanning
  <2> QED BY <1>3, <1>7, <1>11, <2>5, <2>6
<1>18. CASE CommentNeverCloses
  <2>1. mode = "comment" /\ Ahead = End BY <1>18 DEF CommentNeverCloses
  <2>2. PICK o \in Nat : Skipped(tk, o) /\ Commented(o, n) /\ Peek(o) # End
    BY <1>15, <2>1
  <2>3. Skipped(o, n)
    BY <1>2, <1>3, <1>5, <2>1, <2>2, CommentEndSkips DEF Ahead
  <2>4. Skipped(tk, n) BY <1>5, <2>2, <2>3, SkipFurther
  <2>5. Gap(n, k, "skip", tk) BY <2>4 DEF Gap
  <2>6. src' = src /\ reads' = reads /\ start' = start
        /\ at' = at /\ mode' = "skip"
    BY <1>18 DEF CommentNeverCloses, Scanning
  <2> QED BY <1>2, <1>3, <1>11, <2>5, <2>6
<1>19. ASSUME TokenAhead, Ahead # End
       PROVE  Skipped(tk, n) /\ Begun(n)
  <2>1. mode = "skip" /\ Ahead \notin Blank BY <1>19 DEF TokenAhead
  <2> QED BY <1>10, <1>12, <1>19, <2>1 DEF Begun
<1>20. CASE StringOpens \/ WordStarts \/ NumberStarts
  <2>1. TokenAhead /\ Ahead # End
    BY <1>9, <1>20 DEF StringOpens, WordStarts, NumberStarts
  <2>2. /\ src' = src /\ reads' = reads /\ start' = at
        /\ at' = p \/ at' = at
        /\ mode' \in {"string", "word", "number"}
    BY <1>6, <1>20 DEF StringOpens, WordStarts, NumberStarts, Enter
  <2>3. PICK x : at' = x /\ x \in {p, at} BY <2>2
  <2>4. Gap(x.pos, n, mode', tk) BY <1>19, <2>1, <2>2 DEF Gap
  <2>5. Good(x) BY <1>2, <1>7, <2>3
  <2>6. PICK m : m = mode' OBVIOUS
  <2>7. Gap(x.pos, at.pos, m, tk) BY <1>3, <2>4, <2>6
  <2> QED BY <1>11, <2>2, <2>3, <2>5, <2>6, <2>7
<1>21. mode \in {"string", "word", "number"} => Skipped(tk, k) /\ Begun(k)
  BY <1>4 DEF Gap
<1>22. CASE StringChar \/ StringEscape \/ GoesOn
  <2>1. mode \in {"string", "word", "number"}
    BY <1>22 DEF StringChar, StringEscape, GoesOn
  <2>2. /\ src' = src /\ reads' = reads /\ start' = start /\ mode' = mode
        /\ at' = p \/ at' = q
    BY <1>6, <1>22 DEF StringChar, StringEscape, GoesOn, Scanning
  <2>3. PICK x : at' = x /\ x \in {p, q} BY <2>2
  <2>4. Gap(x.pos, k, mode, tk) BY <1>21, <2>1 DEF Gap
  <2>5. Good(x) BY <1>7, <2>3
  <2> QED BY <1>3, <1>11, <2>2, <2>3, <2>4, <2>5
(* A token or an error, begun where there is something. *)
<1>23. ASSUME NEW b, NEW x, Good(x), NEW type, NEW told, NEW t, type # "eof",
              src' = src, at' = x, mode' = "skip",
              reads' = Append(reads, Read(type, b.pos, x.pos, told, t)),
              Skipped(tk, b.pos), Begun(b.pos),
              b.pos < x.pos \/ src[b.pos] = "$"
       PROVE  CInv'
  <2>1. PICK r : r = Read(type, b.pos, x.pos, told, t) OBVIOUS
  <2>2. r.type = type /\ r.from = b.pos /\ r.to = x.pos BY <2>1 DEF Read
  <2>3. Covered(r, Taken) BY <1>3, <1>23, <2>2 DEF Covered, Begun
  <2>4. x.pos \in Nat \ {0} BY <1>23 DEF Good, Place
  <2> QED BY <1>1, <1>23, <2>1, <2>2, <2>3, <2>4, CoverRead
<1>24. ASSUME NEW b, NEW x, Good(x), NEW type, NEW t, type # "eof",
              Returns(type, b, x, t), Skipped(tk, b.pos), Begun(b.pos),
              b.pos < x.pos \/ src[b.pos] = "$"
       PROVE  CInv'
  BY <1>23, <1>24 DEF Returns
<1>25. ASSUME NEW b, NEW x, Good(x), NEW told,
              Fails(b, x, told), Skipped(tk, b.pos), Begun(b.pos),
              b.pos < x.pos
       PROVE  CInv'
  BY <1>23, <1>25 DEF Fails
<1>26. /\ mode = "string" => k < n
       /\ mode = "number" => k < n \/ Ahead \in Digit
       /\ mode = "word" => k < n \/ Ahead \in Letter \cup {"_", "$"}
  BY <1>3, <1>4 DEF Shape, Ahead
<1>27. CASE StringEnds
  <2>1. mode = "string" /\ Ahead # End /\ Returns("string", start, p, text)
    BY <1>6, <1>9, <1>27 DEF StringEnds
  <2>2. start.pos < p.pos BY <1>3, <1>5, <1>7, <1>8, <1>26, <2>1
  <2> QED BY <1>3, <1>7, <1>21, <1>24, <2>1, <2>2
<1>28. CASE BadEscape
  <2>1. mode = "string" /\ Ahead # End /\ Fails(start, q, q)
    BY <1>6, <1>9, <1>28 DEF BadEscape
  <2>2. start.pos < q.pos BY <1>3, <1>5, <1>7, <1>8, <1>26, <2>1
  <2> QED BY <1>3, <1>7, <1>21, <1>25, <2>1, <2>2
<1>29. CASE StringNeverEnds
  <2>1. mode = "string" /\ Fails(start, at, start) BY <1>29 DEF StringNeverEnds
  <2>2. start.pos < at.pos BY <1>3, <1>26, <2>1
  <2> QED BY <1>2, <1>3, <1>21, <1>25, <2>1, <2>2
<1>30. CASE WordEnds
  <2>1. PICK w : w = Between(start.pos, at.pos) OBVIOUS
  <2>2. mode = "word" /\ ~InWord /\ Returns(WordType(w), start, at, w)
    BY <1>30, <2>1 DEF WordEnds
  <2>3. WordType(w) # "eof" BY WordTypes
  <2>4. start.pos < at.pos \/ src[start.pos] = "$"
    <3>1. CASE k < n BY <1>3, <3>1
    <3>2. CASE ~(k < n)
      <4>1. Ahead = "$" BY <1>26, <2>2, <3>2 DEF InWord
      <4>2. k = n BY <1>5, <3>2
      <4> QED BY <1>3, <1>9, <1>10, <4>1, <4>2
    <3> QED BY <3>1, <3>2
  <2> QED BY <1>2, <1>3, <1>21, <1>24, <2>2, <2>3, <2>4
<1>31. CASE NumberEnds
  <2>1. /\ mode = "number" /\ ~InNumber
        /\ Returns("integer", start, at, Between(start.pos, at.pos))
    BY <1>31 DEF NumberEnds
  <2>2. start.pos < at.pos BY <1>3, <1>26, <2>1 DEF InNumber
  <2> QED BY <1>2, <1>3, <1>21, <1>24, <2>1, <2>2
<1>32. ASSUME SymbolAhead
       PROVE  /\ Skipped(tk, at.pos) /\ Begun(at.pos)
              /\ at.pos < p.pos /\ at.pos < q.pos
  <2>1. TokenAhead /\ Ahead # End BY <1>32 DEF SymbolAhead
  <2> QED BY <1>3, <1>5, <1>7, <1>8, <1>19, <2>1
<1>33. CASE Symbol
  <2>1. SymbolAhead BY <1>33 DEF Symbol
  <2>2. CASE IsDouble /\ Returns(Double[Ahead], at, q, Between(at.pos, q.pos))
    <3>1. Double[Ahead] # "eof"
      <4>1. DOMAIN Double = DOMAIN Second BY DEF Double
      <4> QED BY <2>2, <4>1, SymbolTypes DEF IsDouble
    <3> QED BY <1>7, <1>24, <1>32, <2>1, <2>2, <3>1
  <2>3. CASE Ahead \in DOMAIN Single /\ Returns(Single[Ahead], at, p, <<Ahead>>)
    <3>1. Single[Ahead] # "eof" BY <2>3, SymbolTypes
    <3> QED BY <1>7, <1>24, <1>32, <2>1, <2>3, <3>1
  <2> QED BY <1>6, <1>33, <2>2, <2>3 DEF Symbol
<1>34. CASE BadSymbol
  <2>1. SymbolAhead /\ Fails(at, p, p) BY <1>6, <1>34 DEF BadSymbol
  <2> QED BY <1>7, <1>25, <1>32, <2>1
<1>35. CASE ReadsEnd
  <2>1. mode = "skip" /\ Ahead = End /\ Returns("eof", at, at, <<>>)
    BY <1>35 DEF ReadsEnd, TokenAhead
  <2>2. PICK r : r = Read("eof", at.pos, at.pos, at, <<>>) OBVIOUS
  <2>3. r.type = "eof" /\ r.from = n /\ r.to = n BY <1>3, <2>2 DEF Read
  <2>4. Covered(r, Taken) BY <1>3, <1>12, <2>1, <2>3 DEF Covered, Ahead
  <2>5. /\ reads' = Append(reads, r) /\ at' = at /\ mode' = "done" /\ src' = src
    BY <2>1, <2>2 DEF Returns
  <2> QED BY <1>1, <1>3, <1>5, <2>3, <2>4, <2>5, CoverRead
<1> QED
  BY <1>13, <1>14, <1>16, <1>17, <1>18, <1>20, <1>22, <1>27, <1>28, <1>29,
     <1>30, <1>31, <1>33, <1>34, <1>35
  DEF LexNext

(* The tokens of any text cover it: between two of them is nothing but     *)
(* white space and comments, each ended by its first end or by the text;   *)
(* none overlap, and the end is told where the text ends.                  *)
THEOREM TokensCover == LexSpec => []Covers
<1>1. (\E s \in Source : LexInit(s)) => CInv
  <2> SUFFICES ASSUME NEW s \in Source, LexInit(s) PROVE CInv OBVIOUS
  <2>1. FInv BY FeedsBegin
  <2>2. /\ reads = <<>> /\ mode = "skip" /\ at.pos = 1 BY DEF LexInit
  <2>3. DOMAIN reads = {} /\ Taken = 1 BY <2>2 DEF Taken
  <2>4. Skipped(1, 1) BY SkipNothing
  <2>5. Covers BY <2>3 DEF Covers
  <2>6. Gap(at.pos, start.pos, mode, Taken) BY <2>2, <2>3, <2>4 DEF Gap
  <2> QED BY <2>1, <2>5, <2>6 DEF CInv
<1>2. ASSUME CInv, [LexNext]_lexVars PROVE CInv'
  <2>1. CASE LexNext BY <1>2, <2>1, LexCovers
  <2>2. CASE UNCHANGED lexVars
    <3>1. FInv' BY <1>2, <2>2, FeedsStay DEF CInv
    <3>2. Gap(at.pos, start.pos, mode, Taken) BY <1>2 DEF CInv
    <3> QED BY <1>2, <2>2, <3>1, <3>2, CoverQuiet DEF lexVars
  <2> QED BY <1>2, <2>1, <2>2
<1>3. CInv => Covers BY DEF CInv
<1> QED BY <1>1, <1>2, <1>3, PTL DEF LexSpec

-----------------------------------------------------------------------------
(* What a literal stands for *)

Unit(raw, i) == IF raw[i] = Backslash THEN Unescaped[raw[i + 1]] ELSE raw[i]
Behind(raw, i) == IF raw[i] = Backslash THEN i + 2 ELSE i + 1
Decodes(d, raw, i) == IF i > Len(raw) THEN <<>>
                      ELSE IF raw[i] = Backslash
                        THEN <<Unescaped[raw[i + 1]]>> \o d[i + 2]
                        ELSE <<raw[i]>> \o d[i + 1]
DecodeAll(raw) == CHOOSE d : d = [i \in 1 .. Len(raw) + 2 |-> Decodes(d, raw, i)]

LEMMA OneBefore ==
    ASSUME NEW V, NEW x \in V, NEW u \in V, NEW s \in Seq(V)
    PROVE  /\ <<x>> \o s \in Seq(V)
           /\ (<<x>> \o s) \o <<u>> = <<x>> \o (s \o <<u>>)
<1>1. <<x>> \in Seq(V) /\ <<u>> \in Seq(V) OBVIOUS
<1>2. \A a, b, c \in Seq(V) : (a \o b) \o c = a \o (b \o c)
  BY ConcatAssociative
<1>3. PICK a \in Seq(V), c \in Seq(V) : a = <<x>> /\ c = <<u>> BY <1>1
<1>4. (a \o s) \o c = a \o (s \o c) BY <1>2
<1>5. a \o s \in Seq(V) BY ConcatProperties
<1> QED BY <1>3, <1>4, <1>5

LEMMA DecodedIs == ASSUME NEW raw PROVE Decoded(raw) = DecodeAll(raw)[1]
BY DEF Decoded, DecodeAll, Decodes

DecodesFrom(d, m, raw) ==
    d = [i \in m .. Len(raw) + 2 |-> Decodes(d, raw, i)]

LEMMA DecodesAgree ==
    ASSUME NEW raw, Len(raw) \in Nat, NEW i \in 1 .. Len(raw) + 2, NEW d, NEW e,
           \A j \in i + 1 .. Len(raw) + 2 : d[j] = e[j]
    PROVE  Decodes(d, raw, i) = Decodes(e, raw, i)
<1>1. CASE i > Len(raw) BY <1>1 DEF Decodes
<1>2. CASE ~(i > Len(raw))
  <2>1. i + 1 \in i + 1 .. Len(raw) + 2 /\ i + 2 \in i + 1 .. Len(raw) + 2
    BY <1>2
  <2>2. d[i + 1] = e[i + 1] /\ d[i + 2] = e[i + 2] BY <2>1
  <2> QED BY <2>2 DEF Decodes
<1> QED BY <1>1, <1>2

LEMMA DecodesExist ==
    ASSUME NEW raw, Len(raw) \in Nat
    PROVE  \E d : DecodesFrom(d, 1, raw)
<1> DEFINE q == Len(raw) + 2
           Ok(n) == \E d : DecodesFrom(d, q - n, raw)
           T == {n \in 0 .. q - 1 : ~Ok(n)}
<1>0. q \in Nat /\ q >= 2 OBVIOUS
<1>1. SUFFICES ASSUME T # {} PROVE FALSE
  <2>1. q - 1 \in 0 .. q - 1 /\ q - (q - 1) = 1 OBVIOUS
  <2>2. Ok(q - 1) BY <2>1
  <2> QED BY <2>1, <2>2
<1>2. PICK n \in T : \A j \in T : n <= j
  <2>1. T \subseteq Nat OBVIOUS
  <2> HIDE DEF T
  <2> QED BY <1>1, <2>1, Least
<1>3. CASE n = 0
  <2> DEFINE d == [i \in q .. q |-> <<>>]
  <2>1. \A e : \A i \in q .. q : Decodes(e, raw, i) = <<>> BY DEF Decodes
  <2>2. d = [i \in q .. q |-> Decodes(d, raw, i)] BY <2>1
  <2>3. q - 0 = q BY <1>0
  <2>4. DecodesFrom(d, q - 0, raw)
    <3> HIDE DEF d
    <3> QED BY <2>2, <2>3 DEF DecodesFrom
  <2> QED BY <1>3, <2>4
<1>4. CASE n > 0
  <2>1. n - 1 \in 0 .. q - 1 /\ ~(n <= n - 1) BY <1>2, <1>4
  <2>2. Ok(n - 1)
    <3> HIDE DEF Ok
    <3> QED BY <1>2, <2>1
  <2>3. PICK d : DecodesFrom(d, q - (n - 1), raw) BY <2>2
  <2>4. PICK m : m = q - n OBVIOUS
  <2>5. m \in 1 .. q /\ q - (n - 1) = m + 1 /\ m < q BY <1>0, <1>2, <1>4, <2>4
  <2>6. \A i \in m + 1 .. q : d[i] = Decodes(d, raw, i)
    BY <2>3, <2>5 DEF DecodesFrom
  <2> DEFINE e == [i \in m .. q |-> IF i = m THEN Decodes(d, raw, m) ELSE d[i]]
  <2>7. \A i \in m + 1 .. q : i \in m .. q /\ i # m BY <2>5
  <2>8. \A i \in m + 1 .. q : e[i] = d[i] BY <2>7
  <2>9. e[m] = Decodes(d, raw, m) BY <2>5
  <2>10. e = [i \in m .. q |-> e[i]] OBVIOUS
  <2> HIDE DEF e
  <2>11. ASSUME NEW i \in m .. q PROVE e[i] = Decodes(e, raw, i)
    <3>1. i \in 1 .. q /\ (i = m \/ i \in m + 1 .. q) BY <1>0, <2>5
    <3>2. \A j \in i + 1 .. q : d[j] = e[j]
      <4>1. \A j \in i + 1 .. q : j \in m + 1 .. q BY <1>0, <2>5
      <4> QED BY <2>8, <4>1
    <3>3. Decodes(d, raw, i) = Decodes(e, raw, i) BY <3>1, <3>2, DecodesAgree
    <3>4. e[i] = Decodes(d, raw, i) BY <2>6, <2>8, <2>9, <3>1
    <3> QED BY <3>3, <3>4
  <2>12. e = [i \in m .. q |-> Decodes(e, raw, i)] BY <2>10, <2>11
  <2>13. DecodesFrom(e, q - n, raw) BY <2>4, <2>12 DEF DecodesFrom
  <2> QED BY <2>13
<1> QED BY <1>2, <1>3, <1>4

LEMMA DecodeAllIs ==
    ASSUME NEW raw, Len(raw) \in Nat
    PROVE  /\ \A i \in 1 .. Len(raw) :
                DecodeAll(raw)[i] = <<Unit(raw, i)>> \o DecodeAll(raw)[Behind(raw, i)]
           /\ DecodeAll(raw)[Len(raw) + 1] = <<>>
<1>1. PICK d : DecodesFrom(d, 1, raw) BY DecodesExist
<1> DEFINE D == DecodeAll(raw)
<1>2. D = [i \in 1 .. Len(raw) + 2 |-> Decodes(D, raw, i)]
  BY <1>1 DEF DecodesFrom, DecodeAll
<1> HIDE DEF D
<1>3. \A i \in 1 .. Len(raw) + 2 : D[i] = Decodes(D, raw, i) BY <1>2
<1>4. ASSUME NEW i \in 1 .. Len(raw)
      PROVE  D[i] = <<Unit(raw, i)>> \o D[Behind(raw, i)]
  <2>1. i \in 1 .. Len(raw) + 2 /\ ~(i > Len(raw)) OBVIOUS
  <2>2. D[i] = Decodes(D, raw, i) BY <1>3, <2>1
  <2> QED BY <2>1, <2>2 DEF Decodes, Unit, Behind
<1>5. D[Len(raw) + 1] = <<>>
  <2>1. Len(raw) + 1 \in 1 .. Len(raw) + 2 /\ Len(raw) + 1 > Len(raw) OBVIOUS
  <2> QED BY <1>3, <2>1 DEF Decodes
<1> QED BY <1>4, <1>5 DEF D

(* No escape is cut off at the end of raw. *)
Whole(raw) ==
    \E B \in SUBSET (1 .. Len(raw) + 1) :
        /\ 1 \in B /\ Len(raw) + 1 \in B
        /\ \A i \in B : i <= Len(raw) => Behind(raw, i) \in B

LEMMA WholeEmpty == Whole(<<>>) /\ Decoded(<<>>) = <<>>
<1>1. Len(<<>>) = 0 OBVIOUS
<1>2. Whole(<<>>)
  <2> DEFINE B == {1}
  <2>1. 1 .. Len(<<>>) + 1 = {1} BY <1>1
  <2>2. B \in SUBSET (1 .. Len(<<>>) + 1) BY <2>1
  <2>3. 1 \in B /\ Len(<<>>) + 1 \in B BY <1>1
  <2>4. \A i \in B : ~(i <= Len(<<>>)) BY <1>1
  <2> HIDE DEF B
  <2> QED BY <2>2, <2>3, <2>4 DEF Whole
<1>3. DecodeAll(<<>>)[Len(<<>>) + 1] = <<>> BY <1>1, DecodeAllIs
<1>4. DecodeAll(<<>>)[1] = <<>> BY <1>1, <1>3
<1> QED BY <1>2, <1>4, DecodedIs

(* One more character, or escape, is one more character in the end.         *)
LEMMA DecodesMore ==
    ASSUME NEW raw, Len(raw) \in Nat, Whole(raw),
           NEW more, Len(more) \in Nat, Len(raw) < Len(more),
           \A i \in 1 .. Len(raw) : more[i] = raw[i],
           Behind(more, Len(raw) + 1) = Len(more) + 1
    PROVE  /\ Whole(more)
           /\ \E V : /\ Decoded(raw) \in Seq(V)
                     /\ Unit(more, Len(raw) + 1) \in V
                     /\ Decoded(more)
                          = Append(Decoded(raw), Unit(more, Len(raw) + 1))
<1> DEFINE L == Len(raw)
           D == DecodeAll(raw)
           E == DecodeAll(more)
           u == Unit(more, L + 1)
           V == {Unit(raw, i) : i \in 1 .. L} \cup {u}
<1>1. PICK B \in SUBSET (1 .. L + 1) :
        /\ 1 \in B /\ L + 1 \in B
        /\ \A i \in B : i <= L => Behind(raw, i) \in B
  BY DEF Whole
<1>2. ASSUME NEW i \in B, i <= L
      PROVE  /\ i \in 1 .. L /\ Behind(raw, i) \in B /\ i < Behind(raw, i)
             /\ Behind(more, i) = Behind(raw, i) /\ Unit(more, i) = Unit(raw, i)
  <2>1. i \in 1 .. L /\ more[i] = raw[i] /\ Behind(raw, i) \in B
    BY <1>1, <1>2
  <2>2. i < Behind(raw, i) /\ Behind(more, i) = Behind(raw, i)
    BY <2>1 DEF Behind
  <2>3. CASE raw[i] = Backslash
    <3>1. Behind(raw, i) = i + 2 BY <2>3 DEF Behind
    <3>2. i + 2 \in 1 .. L + 1 BY <1>1, <2>1, <3>1
    <3>3. i + 1 \in 1 .. L BY <2>1, <3>2
    <3>4. more[i + 1] = raw[i + 1] BY <3>3
    <3> QED BY <2>1, <2>2, <2>3, <3>4 DEF Unit
  <2>4. CASE raw[i] # Backslash BY <2>1, <2>2, <2>4 DEF Unit
  <2> QED BY <2>3, <2>4
<1>3. Whole(more)
  <2> DEFINE C == B \cup {Len(more) + 1}
  <2>1. C \in SUBSET (1 .. Len(more) + 1)
    <3>1. \A i \in 1 .. L + 1 : i \in 1 .. Len(more) + 1 OBVIOUS
    <3>2. Len(more) + 1 \in 1 .. Len(more) + 1 OBVIOUS
    <3> QED BY <1>1, <3>1, <3>2
  <2>2. 1 \in C /\ Len(more) + 1 \in C BY <1>1
  <2>3. ASSUME NEW i \in C, i <= Len(more) PROVE Behind(more, i) \in C
    <3>1. i \in B BY <2>3
    <3>2. CASE i <= L BY <1>2, <3>1, <3>2
    <3>3. CASE ~(i <= L)
      <4>1. i = L + 1 BY <1>1, <3>1, <3>3
      <4> QED BY <4>1
    <3> QED BY <3>2, <3>3
  <2> HIDE DEF C
  <2> QED BY <2>1, <2>2, <2>3 DEF Whole
<1>4. /\ \A i \in 1 .. L : D[i] = <<Unit(raw, i)>> \o D[Behind(raw, i)]
      /\ D[L + 1] = <<>>
  BY DecodeAllIs
<1>5. \A i \in 1 .. L + 1 : E[i] = <<Unit(more, i)>> \o E[Behind(more, i)]
  <2>1. \A i \in 1 .. L + 1 : i \in 1 .. Len(more) OBVIOUS
  <2> QED BY <2>1, DecodeAllIs
<1>6. E[Len(more) + 1] = <<>> BY DecodeAllIs
<1> DEFINE Ok(i) == D[i] \in Seq(V) /\ E[i] = D[i] \o <<u>>
           T == {n \in 0 .. L : L + 1 - n \in B /\ ~Ok(L + 1 - n)}
<1>7. u \in V /\ \A i \in 1 .. L : Unit(raw, i) \in V OBVIOUS
<1> HIDE DEF D, E, u, V
<1>8. \A x \in V : <<x>> \in Seq(V) OBVIOUS
<1>9. Ok(L + 1)
  <2>1. E[L + 1] = <<u>> \o E[Len(more) + 1]
    <3>1. L + 1 \in 1 .. L + 1 OBVIOUS
    <3> QED BY <1>5, <3>1 DEF u
  <2>2. E[L + 1] = <<u>> BY <1>6, <1>7, <1>8, <2>1, ConcatEmptySeq
  <2>3. <<>> \o <<u>> = <<u>> BY <1>7, <1>8, ConcatEmptySeq
  <2>4. <<>> \in Seq(V) OBVIOUS
  <2> QED BY <1>4, <2>2, <2>3, <2>4
<1>10. ASSUME NEW i \in B, i <= L, Ok(Behind(raw, i)) PROVE Ok(i)
  <2>1. PICK j, x : j = Behind(raw, i) /\ x = Unit(raw, i) OBVIOUS
  <2>2. /\ i \in 1 .. L /\ i \in 1 .. L + 1
        /\ Behind(more, i) = j /\ Unit(more, i) = x
    BY <1>1, <1>2, <1>10, <2>1
  <2>3. D[i] = <<x>> \o D[j] /\ E[i] = <<x>> \o E[j]
    BY <1>4, <1>5, <2>1, <2>2
  <2>4. D[j] \in Seq(V) /\ E[j] = D[j] \o <<u>> BY <1>10, <2>1
  <2>5. x \in V /\ <<x>> \in Seq(V) /\ <<u>> \in Seq(V)
    BY <1>7, <1>8, <2>1, <2>2
  <2>6. PICK r \in Seq(V) : r = D[j] BY <2>4
  <2>7. /\ <<x>> \o r \in Seq(V)
        /\ (<<x>> \o r) \o <<u>> = <<x>> \o (r \o <<u>>)
    <3> HIDE DEF Ok, T
    <3> QED BY <1>7, <2>5, OneBefore
  <2> QED BY <2>3, <2>4, <2>6, <2>7
<1>11. Ok(1)
  <2> SUFFICES ASSUME ~Ok(1) PROVE FALSE OBVIOUS
  <2>1. T \subseteq Nat /\ T # {}
    <3> HIDE DEF Ok
    <3>1. L \in 0 .. L /\ L + 1 - L = 1 OBVIOUS
    <3>2. L \in T BY <1>1, <3>1
    <3> QED BY <3>2
  <2>2. PICK n \in T : \A m \in T : n <= m
    <3> HIDE DEF T
    <3> QED BY <2>1, Least
  <2>3. PICK i : i = L + 1 - n OBVIOUS
  <2>4. n \in 0 .. L /\ i \in B /\ ~Ok(i)
    <3> HIDE DEF Ok
    <3> QED BY <2>2, <2>3
  <2>5. i <= L
    <3>1. n # 0
      <4> HIDE DEF Ok
      <4>1. n = 0 => i = L + 1 BY <2>3
      <4> QED BY <1>9, <2>4, <4>1
    <3> QED BY <2>3, <2>4, <3>1
  <2>6. PICK j : j = Behind(raw, i) OBVIOUS
  <2>7. j \in B /\ i < j /\ j \in 1 .. L + 1 BY <1>1, <1>2, <2>4, <2>5, <2>6
  <2>8. L + 1 - j \in 0 .. L /\ L + 1 - (L + 1 - j) = j /\ ~(n <= L + 1 - j)
    BY <1>1, <2>3, <2>4, <2>7
  <2>9. Ok(j)
    <3> HIDE DEF Ok
    <3> QED BY <2>2, <2>7, <2>8
  <2> QED
    <3> HIDE DEF Ok, T
    <3> QED BY <1>10, <2>4, <2>5, <2>6, <2>9
<1>12. Append(D[1], u) = D[1] \o <<u>> BY <1>7, <1>11, AppendIsConcat
<1>13. /\ Decoded(raw) = D[1] /\ Decoded(more) = E[1] BY DecodedIs DEF D, E
<1>14. /\ Decoded(raw) \in Seq(V) /\ u \in V
       /\ Decoded(more) = Append(Decoded(raw), u)
  BY <1>7, <1>11, <1>12, <1>13
<1> QED BY <1>3, <1>14 DEF u

-----------------------------------------------------------------------------
(* Parts *)

LEMMA PartOfGrows ==
    ASSUME NEW s, NEW t, IsSeq(s), IsSeq(t), PartOf(s, t), NEW c
    PROVE  PartOf(Append(s, c), Append(t, c)) /\ PartOf(s, Append(t, c))
<1> DEFINE s2 == Append(s, c)
           t2 == Append(t, c)
           m == Len(s)
           n == Len(t)
<1>1. /\ m \in Nat /\ DOMAIN s = 1 .. m /\ DOMAIN s2 = 1 .. m + 1
      /\ s2[m + 1] = c /\ \A i \in 1 .. m : s2[i] = s[i]
  BY Grown
<1>2. /\ n \in Nat /\ DOMAIN t = 1 .. n /\ DOMAIN t2 = 1 .. n + 1
      /\ t2[n + 1] = c /\ \A i \in 1 .. n : t2[i] = t[i]
  BY Grown
<1> HIDE DEF s2, t2, m, n
<1>3. PICK f \in [1 .. m -> 1 .. n] :
        /\ \A i, j \in 1 .. m : i < j => f[i] < f[j]
        /\ \A i \in 1 .. m : s[i] = t[f[i]]
  BY <1>1, <1>2 DEF PartOf
<1>4. PartOf(s, t2)
  <2>1. f \in [1 .. m -> 1 .. n + 1]
    <3>1. \A i \in 1 .. n : i \in 1 .. n + 1 BY <1>2
    <3> QED BY <1>3, <3>1
  <2>2. \A i \in 1 .. m : s[i] = t2[f[i]] BY <1>2, <1>3
  <2> QED BY <1>1, <1>2, <1>3, <2>1, <2>2 DEF PartOf
<1>5. PartOf(s2, t2)
  <2> DEFINE g == [i \in 1 .. m + 1 |-> IF i = m + 1 THEN n + 1 ELSE f[i]]
  <2>1. \A i \in 1 .. m + 1 : i = m + 1 \/ i \in 1 .. m BY <1>1
  <2>2. \A i \in 1 .. m : i # m + 1 /\ i \in 1 .. m + 1 BY <1>1
  <2>3. g[m + 1] = n + 1 /\ \A i \in 1 .. m : g[i] = f[i]
    <3>1. m + 1 \in 1 .. m + 1 BY <1>1
    <3> QED BY <2>2, <3>1
  <2>4. \A i \in 1 .. m : f[i] \in 1 .. n BY <1>3
  <2>5. g \in [1 .. m + 1 -> 1 .. n + 1]
    <3>1. n + 1 \in 1 .. n + 1 /\ \A i \in 1 .. n : i \in 1 .. n + 1 BY <1>2
    <3> QED BY <2>1, <2>4, <3>1
  <2> HIDE DEF g
  <2>6. ASSUME NEW i \in 1 .. m + 1, NEW j \in 1 .. m + 1, i < j
        PROVE  g[i] < g[j]
    <3>1. i \in 1 .. m BY <1>1, <2>6
    <3>2. CASE j = m + 1
      <4>1. f[i] \in 1 .. n BY <2>4, <3>1
      <4>2. f[i] < n + 1 BY <1>2, <4>1
      <4> QED BY <2>3, <3>1, <3>2, <4>2
    <3>3. CASE j \in 1 .. m BY <1>3, <2>3, <2>6, <3>1, <3>3
    <3> QED BY <2>1, <3>2, <3>3
  <2>7. ASSUME NEW i \in 1 .. m + 1 PROVE s2[i] = t2[g[i]]
    <3>1. CASE i = m + 1 BY <1>1, <1>2, <2>3, <3>1
    <3>2. CASE i \in 1 .. m
      <4>1. f[i] \in 1 .. n BY <2>4, <3>2
      <4>2. s2[i] = s[i] /\ g[i] = f[i] /\ t2[f[i]] = t[f[i]]
        BY <1>1, <1>2, <2>3, <3>2, <4>1
      <4> QED BY <1>3, <3>2, <4>2
    <3> QED BY <2>1, <3>1, <3>2
  <2> QED BY <1>1, <1>2, <2>5, <2>6, <2>7 DEF PartOf
<1> QED BY <1>4, <1>5 DEF s2, t2

-----------------------------------------------------------------------------
(* The text of a string *)

(* t is what raw stands for, less what was lost of it. *)
TextRight(raw, t, l) ==
    /\ Whole(raw) /\ IsSeq(Decoded(raw)) /\ IsSeq(t)
    /\ PartOf(t, Decoded(raw))
    /\ ~l => t = Decoded(raw)

LEMMA TextEmpty == ASSUME NEW l PROVE TextRight(<<>>, <<>>, l)
<1>1. IsSeq(<<>>) BY DEF IsSeq
<1>2. PartOf(<<>>, <<>>)
  <2> DEFINE f == [i \in {} |-> i]
  <2>1. f \in [DOMAIN <<>> -> DOMAIN <<>>] OBVIOUS
  <2> QED BY <2>1 DEF PartOf
<1> QED BY <1>1, <1>2, WholeEmpty DEF TextRight

(* One character or escape more, kept or lost. *)
LEMMA TextGrows ==
    ASSUME NEW raw, NEW t, NEW l, TextRight(raw, t, l), Len(raw) \in Nat,
           NEW more, Len(more) \in Nat, Len(raw) < Len(more),
           \A i \in 1 .. Len(raw) : more[i] = raw[i],
           Behind(more, Len(raw) + 1) = Len(more) + 1,
           NEW t2, NEW l2,
           \/ t2 = Append(t, Unit(more, Len(raw) + 1)) /\ l2 = l
           \/ t2 = t /\ l2 = TRUE
    PROVE  TextRight(more, t2, l2)
<1>1. PICK c : c = Unit(more, Len(raw) + 1) OBVIOUS
<1>2. PICK d, e : d = Decoded(raw) /\ e = Decoded(more) OBVIOUS
<1>3. /\ IsSeq(d) /\ IsSeq(t) /\ PartOf(t, d) /\ (~l => t = d) /\ Whole(raw)
  BY <1>2 DEF TextRight
<1>4. Whole(more) /\ e = Append(d, c) BY <1>1, <1>2, <1>3, DecodesMore
<1>5. IsSeq(e) /\ IsSeq(Append(t, c)) BY <1>3, <1>4, Grown
<1>6. PartOf(Append(t, c), e) /\ PartOf(t, e) BY <1>3, <1>4, PartOfGrows
<1>7. IsSeq(t2) /\ PartOf(t2, e) /\ (~l2 => t2 = e)
  <2>1. CASE t2 = Append(t, c) /\ l2 = l BY <1>3, <1>4, <1>5, <1>6, <2>1
  <2>2. CASE t2 = t /\ l2 = TRUE BY <1>3, <1>6, <2>2
  <2> QED BY <1>1, <2>1, <2>2
<1> QED BY <1>2, <1>4, <1>5, <1>7 DEF TextRight

(* What a slice of the text holds. *)
LEMMA SliceIs ==
    ASSUME Text, NEW b \in Nat, NEW e \in Nat, 1 <= b, b <= e, e <= Len(src) + 1
    PROVE  /\ IsSeq(Between(b, e)) /\ Len(Between(b, e)) = e - b
           /\ \A i \in 1 .. e - b : Between(b, e)[i] = src[b + i - 1]
<1>1. Len(src) \in Nat BY DEF Text
<1>2. CASE b = e
  <2>1. Between(b, e) = <<>> BY <1>2, BetweenIs
  <2>2. IsSeq(<<>>) BY DEF IsSeq
  <2> QED BY <1>2, <2>1, <2>2
<1>3. CASE b # e
  <2>1. b \in 1 .. Len(src) + 1 /\ e - 1 \in b - 1 .. Len(src) BY <1>1, <1>3
  <2>2. e - 1 - b + 1 = e - b BY <1>1
  <2>5. PICK S : src \in Seq(S) BY DEF Text
  <2>3. /\ SubSeq(src, b, e - 1) \in Seq(S)
        /\ Len(SubSeq(src, b, e - 1)) = e - 1 - b + 1
        /\ \A i \in 1 .. e - 1 - b + 1 : SubSeq(src, b, e - 1)[i] = src[b + i - 1]
    BY <2>1, <2>5, SubSeqProperties
  <2>4. IsSeq(Between(b, e)) BY <2>3 DEF IsSeq, Between
  <2> QED BY <2>2, <2>3, <2>4 DEF Between
<1> QED BY <1>2, <1>3

(* What is read after the quote at k, with one character or escape more. *)
LEMMA LiteralGrows ==
    ASSUME Text, NEW k \in Nat \ {0}, NEW n \in Nat, k < n, NEW m \in Nat,
           m <= Len(src) + 1, n <= Len(src),
           NEW t, NEW l, TextRight(Between(k + 1, n), t, l), NEW c,
           src[n] = Backslash => m = n + 2 /\ c = Unescaped[src[n + 1]],
           src[n] # Backslash => m = n + 1 /\ c = src[n],
           NEW t2, NEW l2,
           \/ t2 = Append(t, c) /\ l2 = l
           \/ t2 = t /\ l2 = TRUE
    PROVE  TextRight(Between(k + 1, m), t2, l2)
<1>1. PICK raw, more : raw = Between(k + 1, n) /\ more = Between(k + 1, m)
  OBVIOUS
<1>2. Len(src) \in Nat BY DEF Text
<1>3. k + 1 \in Nat /\ 1 <= k + 1 /\ k + 1 <= n /\ n < m BY <1>2
<1>4. PICK b \in Nat : b = k + 1 /\ 1 <= b /\ b <= n /\ b <= m BY <1>2, <1>3
<1>5. n <= Len(src) + 1 BY <1>2
<1>6. /\ Len(raw) = n - (k + 1)
      /\ \A i \in 1 .. n - (k + 1) : raw[i] = src[k + 1 + i - 1]
  <2>1. raw = Between(b, n) BY <1>1, <1>4
  <2> QED BY <1>4, <1>5, <2>1, SliceIs
<1>7. /\ Len(more) = m - (k + 1)
      /\ \A i \in 1 .. m - (k + 1) : more[i] = src[k + 1 + i - 1]
  <2>1. more = Between(b, m) BY <1>1, <1>4
  <2> QED BY <1>4, <2>1, SliceIs
<1>8. Len(raw) \in Nat /\ Len(more) \in Nat /\ Len(raw) < Len(more)
  BY <1>3, <1>6, <1>7
<1>9. \A i \in 1 .. Len(raw) : more[i] = raw[i] BY <1>3, <1>6, <1>7, <1>8
<1>10. PICK j : j = Len(raw) + 1 OBVIOUS
<1>11. j = n - k /\ k + 1 + j - 1 = n /\ k + 1 + (j + 1) - 1 = n + 1
  BY <1>2, <1>3, <1>6, <1>10
<1>12. more[j] = src[n]
  <2>1. j \in 1 .. m - (k + 1) BY <1>3, <1>11
  <2> QED BY <1>7, <1>11, <2>1
<1>13. src[n] = Backslash => more[j + 1] = src[n + 1]
  <2> SUFFICES ASSUME src[n] = Backslash PROVE more[j + 1] = src[n + 1] OBVIOUS
  <2>1. j + 1 \in 1 .. m - (k + 1) BY <1>3, <1>11
  <2> QED BY <1>7, <1>11, <2>1
<1>14. Behind(more, j) = Len(more) + 1 BY <1>3, <1>7, <1>11, <1>12 DEF Behind
<1>15. Unit(more, j) = c BY <1>12, <1>13 DEF Unit
<1>16. TextRight(raw, t, l) BY <1>1
<1>17. \/ t2 = Append(t, Unit(more, Len(raw) + 1)) /\ l2 = l
       \/ t2 = t /\ l2 = TRUE
  <2>1. Unit(more, Len(raw) + 1) = c BY <1>10, <1>15
  <2> QED BY <2>1
<1>18. Behind(more, Len(raw) + 1) = Len(more) + 1 BY <1>10, <1>14
<1>19. TextRight(more, t2, l2)
  BY <1>8, <1>9, <1>16, <1>17, <1>18, TextGrows
<1> QED BY <1>1, <1>19

-----------------------------------------------------------------------------
(* What is told of a string, of the end or an error, and of other tokens *)

Told(r) ==
    /\ r.type = "string" =>
         /\ r.whole => r.text = Decoded(Between(r.from + 1, r.to - 1))
         /\ PartOf(r.text, Decoded(Between(r.from + 1, r.to - 1)))
    /\ r.type \in {"eof", "error"} => r.text = <<>>
    /\ r.type \notin {"string", "eof", "error"} => r.text = Between(r.from, r.to)

LEMMA TextExactIs ==
    TextExact <=> \A i \in DOMAIN reads : Told(reads[i])
<1>1. ASSUME NEW r
      PROVE  (LET literal == Decoded(Between(r.from + 1, r.to - 1))
              IN  CASE r.type = "string" ->
                         /\ r.whole => r.text = literal
                         /\ PartOf(r.text, literal)
                    [] r.type \in {"eof", "error"} -> r.text = <<>>
                    [] OTHER -> r.text = Between(r.from, r.to)) <=> Told(r)
  <2>1. CASE r.type = "string" BY <2>1 DEF Told
  <2>2. CASE r.type \in {"eof", "error"} BY <2>2 DEF Told
  <2>3. CASE r.type \notin {"string", "eof", "error"} BY <2>3 DEF Told
  <2> QED BY <2>1, <2>2, <2>3
<1> QED BY <1>1 DEF TextExact

(* While a string is read, what is kept of it is what has been passed since *)
(* its quote.                                                              *)
TInv ==
    /\ FInv /\ TextExact
    /\ mode = "string" => TextRight(Between(start.pos + 1, at.pos), text, lost)

LEMMA ToldStays ==
    ASSUME src' = src, NEW r, Told(r) PROVE Told(r)'
BY DEF Told, Between

LEMMA TextExactThen == (TextExact <=> \A i \in DOMAIN reads : Told(reads[i]))'
BY TextExactIs, PTL

LEMMA TextStays ==
    ASSUME src' = src, \A i \in DOMAIN reads' : Told(reads'[i])
    PROVE  TextExact'
<1>1. ASSUME NEW i \in DOMAIN reads' PROVE Told(reads[i])'
  <2>1. PICK r : r = reads'[i] OBVIOUS
  <2>2. Told(r) BY <2>1
  <2>3. Told(r)' BY <2>2, ToldStays
  <2> QED BY <2>1, <2>3 DEF Told, Between
<1> QED BY <1>1, TextExactThen

(* A step that tells nothing keeps what is told, and one that does adds one. *)
LEMMA TextQuiet ==
    ASSUME TInv, FInv', src' = src, reads' = reads,
           NEW p \in Nat, NEW b \in Nat, NEW m, NEW t, NEW l,
           at'.pos = p, start'.pos = b, mode' = m, text' = t, lost' = l,
           m = "string" => TextRight(Between(b + 1, p), t, l)
    PROVE  TInv'
<1>1. TextExact'
  <2>1. \A i \in DOMAIN reads : Told(reads[i]) BY TextExactIs DEF TInv
  <2> QED BY <2>1, TextStays
<1>2. (mode = "string" => TextRight(Between(start.pos + 1, at.pos), text, lost))'
  BY DEF Between
<1> QED BY <1>1, <1>2 DEF TInv

LEMMA TextRead ==
    ASSUME TInv, FInv', src' = src, NEW r, reads' = Append(reads, r), Told(r),
           mode' \in {"skip", "done"}
    PROVE  TInv'
<1>1. IsSeq(reads) BY DEF TInv, FInv, LInv
<1>2. PICK n : n = Len(reads) OBVIOUS
<1>3. /\ n \in Nat /\ DOMAIN reads = 1 .. n /\ DOMAIN reads' = 1 .. n + 1
      /\ \A i \in 1 .. n : reads'[i] = reads[i]
      /\ reads'[n + 1] = r
  BY <1>1, <1>2, Grown
<1>4. \A i \in 1 .. n : Told(reads[i]) BY <1>3, TextExactIs DEF TInv
<1>5. ASSUME NEW i \in DOMAIN reads' PROVE Told(reads'[i])
  <2>1. i = n + 1 \/ i \in 1 .. n BY <1>3
  <2>2. CASE i = n + 1
    <3>1. reads'[i] = r BY <1>3, <2>2
    <3> QED BY <3>1
  <2>3. CASE i \in 1 .. n
    <3>1. reads'[i] = reads[i] BY <1>3, <2>3
    <3> QED BY <1>4, <2>3, <3>1
  <2> QED BY <2>1, <2>2, <2>3
<1>6. TextExact' BY <1>5, TextStays
<1> QED BY <1>6 DEF TInv

(* Every step of the lexer keeps the text of the string it is in. *)
LEMMA LexTells ==
    ASSUME TInv, LexNext PROVE TInv'
<1>1. FInv' BY LexFeeds DEF TInv, Feeds
<1>2. Text /\ Good(at) /\ Good(start) BY DEF TInv, FInv, LInv
<1>3. PICK n, k : n = at.pos /\ k = start.pos OBVIOUS
<1>4. /\ n \in Nat \ {0} /\ k \in Nat \ {0} /\ n <= Len(src) + 1
      /\ Len(src) \in Nat /\ n + 1 \in Nat
  <2>1. Len(src) \in Nat BY <1>2 DEF Text
  <2> QED BY <1>2, <1>3, <2>1 DEF Good, Place
<1>5. mode = "string" => k < n
  <2>1. Shape(at, start, mode, Taken, Newest) BY DEF TInv, FInv
  <2> QED BY <1>3, <2>1 DEF Shape
<1>6. PICK p, q : p = Step(at) /\ q = Step(p) OBVIOUS
<1>7. /\ Good(p) /\ Good(q) /\ p.pos \in Nat /\ q.pos \in Nat
      /\ p.pos <= Len(src) + 1 /\ q.pos <= Len(src) + 1
      /\ Ahead # End => p.pos = n + 1
  <2>1. Good(p) /\ Good(q) BY <1>2, <1>6, StepGoes
  <2>2. Ahead # End => p.pos = n + 1 BY <1>2, <1>3, <1>6, StepGoes DEF Ahead
  <2> QED BY <2>1, <2>2 DEF Good, Place
<1>8. Ahead # End /\ Peek(n + 1) # End => q.pos = n + 2
  <2> SUFFICES ASSUME Ahead # End, Peek(n + 1) # End PROVE q.pos = n + 2 OBVIOUS
  <2>1. p.pos = n + 1 BY <1>7
  <2>2. q.pos = p.pos + 1 BY <1>2, <1>6, <1>7, <2>1, StepGoes
  <2> QED BY <1>4, <2>1, <2>2
<1>9. Ahead # End => n <= Len(src) /\ src[n] = Ahead
  BY <1>2, <1>3, <1>4, AheadIs DEF Ahead
<1>10. End # Quote /\ End # Backslash /\ Quote # Backslash
  BY DEF End, Quote, Backslash
<1>11. mode = "string" => TextRight(Between(k + 1, n), text, lost)
  BY <1>3 DEF TInv
(* Steps that tell nothing *)
<1>12. ASSUME src' = src, reads' = reads, NEW x, Good(x), at' = x,
              NEW b, Good(b), start' = b, NEW m, mode' = m,
              m = "string" => TextRight(Between(b.pos + 1, x.pos), text', lost')
       PROVE  TInv'
  <2>1. PICK t, l : t = text' /\ l = lost' OBVIOUS
  <2>2. x.pos \in Nat /\ b.pos \in Nat BY <1>12 DEF Good, Place
  <2> QED BY <1>1, <1>12, <2>1, <2>2, TextQuiet
<1>13. CASE SkipBlank \/ CommentOpens \/ CommentCloses \/ CommentGoesOn
              \/ CommentNeverCloses \/ WordStarts \/ NumberStarts \/ GoesOn
  <2>1. /\ src' = src /\ reads' = reads /\ start' \in {start, at}
        /\ at' \in {at, p, q} /\ mode' # "string"
    BY <1>6, <1>13
    DEF SkipBlank, CommentOpens, CommentCloses, CommentGoesOn,
        CommentNeverCloses, WordStarts, NumberStarts, GoesOn, Scanning, Enter
  <2>2. PICK x, b, m : x = at' /\ b = start' /\ m = mode' OBVIOUS
  <2>3. Good(x) /\ Good(b) BY <1>2, <1>7, <2>1, <2>2
  <2> QED BY <1>12, <2>1, <2>2, <2>3
<1>14. CASE StringOpens
  <2>1. /\ src' = src /\ reads' = reads /\ start' = at /\ at' = p
        /\ mode' = "string" /\ text' = <<>> /\ Ahead # End
    BY <1>6, <1>10, <1>14 DEF StringOpens, Enter
  <2>2. p.pos = n + 1 /\ n + 1 <= Len(src) + 1 BY <1>4, <1>7, <2>1
  <2>3. 1 <= n + 1 BY <1>4
  <2>4. PICK b \in Nat : b = n + 1 BY <1>4
  <2>5. Between(b, b) = <<>> BY <1>2, <2>2, <2>3, <2>4, BetweenIs
  <2>6. TextRight(Between(at.pos + 1, p.pos), text', lost')
    BY <1>3, <2>1, <2>2, <2>4, <2>5, TextEmpty
  <2> QED BY <1>2, <1>7, <1>12, <2>1, <2>6
<1>15. CASE StringChar
  <2>1. /\ mode = "string" /\ Ahead # End /\ Ahead # Backslash
        /\ src' = src /\ reads' = reads /\ start' = start /\ at' = p
        /\ mode' = "string" /\ Keeps(Ahead)
    BY <1>6, <1>15 DEF StringChar
  <2>2. PICK c, t2, l2 : c = Ahead /\ t2 = text' /\ l2 = lost' OBVIOUS
  <2>3. \/ t2 = Append(text, c) /\ l2 = lost
        \/ t2 = text /\ l2 = TRUE
    BY <2>1, <2>2 DEF Keeps
  <2>4. src[n] # Backslash /\ c = src[n] /\ p.pos = n + 1 BY <1>7, <1>9, <2>1, <2>2
  <2>5. TextRight(Between(k + 1, p.pos), t2, l2)
    BY <1>2, <1>4, <1>5, <1>7, <1>9, <1>11, <2>1, <2>3, <2>4, LiteralGrows
  <2> QED BY <1>2, <1>3, <1>7, <1>12, <2>1, <2>2, <2>5
<1>16. CASE StringEscape
  <2>1. /\ mode = "string" /\ Ahead = Backslash /\ Escaped \in DOMAIN Unescaped
        /\ src' = src /\ reads' = reads /\ start' = start /\ at' = q
        /\ mode' = "string" /\ Keeps(Unescaped[Escaped])
    BY <1>6, <1>16 DEF StringEscape
  <2>2. Escaped = Peek(n + 1) BY <1>3 DEF Escaped
  <2>3. Peek(n + 1) # End
    BY <2>1, <2>2 DEF Unescaped, End, Quote, Backslash
  <2>4. n + 1 <= Len(src) /\ src[n + 1] = Peek(n + 1)
    BY <1>2, <1>4, <2>3, AheadIs
  <2>5. PICK c, t2, l2 : c = Unescaped[Escaped] /\ t2 = text' /\ l2 = lost'
    OBVIOUS
  <2>6. \/ t2 = Append(text, c) /\ l2 = lost
        \/ t2 = text /\ l2 = TRUE
    BY <2>1, <2>5 DEF Keeps
  <2>7. /\ src[n] = Backslash /\ c = Unescaped[src[n + 1]] /\ q.pos = n + 2
        /\ n <= Len(src)
    BY <1>8, <1>9, <1>10, <2>1, <2>2, <2>3, <2>4, <2>5
  <2>8. TextRight(Between(k + 1, q.pos), t2, l2)
    BY <1>2, <1>4, <1>5, <1>7, <1>11, <2>1, <2>6, <2>7, LiteralGrows
  <2> QED BY <1>2, <1>3, <1>7, <1>12, <2>1, <2>5, <2>8
(* Tokens and errors *)
<1>17. ASSUME NEW b, NEW x, NEW type, NEW t, Returns(type, b, x, t),
              NEW r, r = Read(type, b.pos, x.pos, b, t), Told(r)
       PROVE  TInv'
  <2>1. /\ src' = src /\ reads' = Append(reads, r) /\ mode' \in {"skip", "done"}
    BY <1>17 DEF Returns
  <2> QED BY <1>1, <1>17, <2>1, TextRead
<1>18. ASSUME NEW b, NEW x, NEW type, type \notin {"string", "eof", "error"},
              Returns(type, b, x, Between(b.pos, x.pos))
       PROVE  TInv'
  <2>1. PICK r : r = Read(type, b.pos, x.pos, b, Between(b.pos, x.pos)) OBVIOUS
  <2>2. /\ r.type = type /\ r.from = b.pos /\ r.to = x.pos
        /\ r.text = Between(b.pos, x.pos)
    BY <2>1 DEF Read
  <2>3. Told(r) BY <1>18, <2>2 DEF Told
  <2> QED BY <1>17, <1>18, <2>1, <2>3
<1>19. ASSUME NEW b, NEW x, NEW told, Fails(b, x, told) PROVE TInv'
  <2>1. PICK r : r = Read("error", b.pos, x.pos, told, <<>>) OBVIOUS
  <2>2. r.type = "error" /\ r.text = <<>> BY <2>1 DEF Read
  <2>3. Told(r) BY <2>2 DEF Told
  <2>4. src' = src /\ reads' = Append(reads, r) /\ mode' = "skip"
    BY <1>19, <2>1 DEF Fails
  <2> QED BY <1>1, <2>3, <2>4, TextRead
<1>20. CASE StringEnds
  <2>1. mode = "string" /\ Ahead # End /\ Returns("string", start, p, text)
    BY <1>6, <1>10, <1>20 DEF StringEnds
  <2>2. PICK r : r = Read("string", start.pos, p.pos, start, text) OBVIOUS
  <2>3. /\ r.type = "string" /\ r.from = k /\ r.to = n + 1 /\ r.text = text
        /\ r.whole => ~lost
    BY <1>3, <1>7, <2>1, <2>2 DEF Read
  <2>4. r.to - 1 = n BY <1>4, <2>3
  <2>5. TextRight(Between(r.from + 1, r.to - 1), text, lost)
    BY <1>11, <2>1, <2>3, <2>4
  <2>6. Told(r) BY <2>3, <2>5 DEF Told, TextRight
  <2> QED BY <1>17, <2>1, <2>2, <2>6
<1>21. CASE BadEscape \/ StringNeverEnds \/ BadSymbol
  BY <1>6, <1>19, <1>21 DEF BadEscape, StringNeverEnds, BadSymbol
<1>22. CASE WordEnds
  <2>1. PICK w : w = Between(start.pos, at.pos) OBVIOUS
  <2>2. Returns(WordType(w), start, at, w) BY <1>22, <2>1 DEF WordEnds
  <2>3. WordType(w) \notin {"string", "eof", "error"} BY WordTypes
  <2> QED BY <1>18, <2>1, <2>2, <2>3
<1>23. CASE NumberEnds
  <2>1. Returns("integer", start, at, Between(start.pos, at.pos))
    BY <1>23 DEF NumberEnds
  <2> QED BY <1>18, <2>1
<1>24. CASE Symbol
  <2>1. Ahead # End BY <1>24 DEF Symbol, SymbolAhead
  <2>2. CASE IsDouble /\ Returns(Double[Ahead], at, q, Between(at.pos, q.pos))
    <3>1. Double[Ahead] \notin {"string", "eof", "error"}
      <4>1. DOMAIN Double = DOMAIN Second BY DEF Double
      <4> QED BY <2>2, <4>1, SymbolTypes DEF IsDouble
    <3> QED BY <1>18, <2>2, <3>1
  <2>3. CASE Ahead \in DOMAIN Single /\ Returns(Single[Ahead], at, p, <<Ahead>>)
    <3>1. Single[Ahead] \notin {"string", "eof", "error"} BY <2>3, SymbolTypes
    <3>2. p.pos = n + 1 /\ 1 <= n /\ n <= n + 1 /\ n + 1 <= Len(src) + 1
      BY <1>4, <1>7, <2>1
    <3>3. PICK e, w : e = n + 1 /\ w = Between(n, e) OBVIOUS
    <3>4. /\ IsSeq(w) /\ Len(w) = e - n
          /\ \A i \in 1 .. e - n : w[i] = src[n + i - 1]
      <4>1. e \in Nat BY <1>4, <3>3
      <4> QED BY <1>2, <1>4, <3>2, <3>3, <4>1, SliceIs
    <3>5. Len(w) = 1 /\ w[1] = Ahead
      <4>1. e - n = 1 /\ n + 1 - 1 = n BY <1>4, <3>3
      <4>2. w[1] = src[n + 1 - 1] BY <3>4, <4>1
      <4> QED BY <1>9, <2>1, <3>4, <4>1, <4>2
    <3>6. w = <<Ahead>>
      <4>1. PICK S : w \in Seq(S) BY <3>4 DEF IsSeq
      <4>2. w = [i \in 1 .. 1 |-> w[i]] BY <3>5, <4>1
      <4> QED BY <3>5, <4>1, <4>2
    <3>7. Returns(Single[Ahead], at, p, Between(at.pos, p.pos))
      BY <1>3, <2>3, <3>2, <3>3, <3>6
    <3> QED BY <1>18, <3>1, <3>7
  <2> QED BY <1>6, <1>24, <2>2, <2>3 DEF Symbol
<1>25. CASE ReadsEnd
  <2>1. Returns("eof", at, at, <<>>) BY <1>25 DEF ReadsEnd
  <2>2. PICK r : r = Read("eof", at.pos, at.pos, at, <<>>) OBVIOUS
  <2>3. r.type = "eof" /\ r.text = <<>> BY <2>2 DEF Read
  <2>4. Told(r) BY <2>3 DEF Told
  <2> QED BY <1>17, <2>1, <2>2, <2>4
<1> QED
  BY <1>13, <1>14, <1>15, <1>16, <1>20, <1>21, <1>22, <1>23, <1>24, <1>25
  DEF LexNext

(* The text of a string is what its literal stands for, less the            *)
(* characters whose append failed, and every other token has the text it is *)
(* written with.                                                            *)
THEOREM TextIsExact == LexSpec => []TextExact
<1>1. (\E s \in Source : LexInit(s)) => TInv
  <2> SUFFICES ASSUME NEW s \in Source, LexInit(s) PROVE TInv OBVIOUS
  <2>1. FInv BY FeedsBegin
  <2>2. DOMAIN reads = {} /\ mode = "skip" BY DEF LexInit
  <2>3. TextExact BY <2>2 DEF TextExact
  <2> QED BY <2>1, <2>2, <2>3 DEF TInv
<1>2. ASSUME TInv, [LexNext]_lexVars PROVE TInv'
  <2>1. CASE LexNext BY <1>2, <2>1, LexTells
  <2>2. CASE UNCHANGED lexVars
    <3>1. FInv' BY <1>2, <2>2, FeedsStay DEF TInv
    <3>2. Good(at) /\ Good(start) BY <1>2 DEF TInv, FInv, LInv
    <3>3. at.pos \in Nat /\ start.pos \in Nat BY <3>2 DEF Good, Place
    <3>4. mode = "string" => TextRight(Between(start.pos + 1, at.pos), text, lost)
      BY <1>2 DEF TInv
    <3> QED BY <1>2, <2>2, <3>1, <3>3, <3>4, TextQuiet DEF lexVars
  <2> QED BY <1>2, <2>1, <2>2
<1>3. TInv => TextExact BY DEF TInv
<1> QED BY <1>1, <1>2, <1>3, PTL DEF LexSpec
===============================================================================
