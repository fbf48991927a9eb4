---------------------------- MODULE CcoText_proof ----------------------------
(***************************************************************************)
(* What the serializer writes the lexer reads again: for any objects, any  *)
(* indentation, any outcome of the appends, and any characters.            *)
(*                                                                         *)
(* The argument has two halves, and what they have in common is Laid: the  *)
(* text has the tokens of the object at places f to t, with white space    *)
(* between them.                                                           *)
(*   - While it is written (WritingInv), the buffer is laid out as the     *)
(*     first tokens and the steps that are left write the others.  A call  *)
(*     and a round of the loop are replaced with steps that write the      *)
(*     same; an append writes its tokens, or none if it is not looked at.  *)
(*   - While it is read (ReadingInv), the lexer has returned the first     *)
(*     tokens and is before the next one, at a place within it or at the   *)
(*     end; or it has told an error and the object cannot be read again.   *)
(* Both are about Shown, the tokens that are written of an object; of one  *)
(* without entries, fields and floats they are its Meaning (ShownMeans).   *)
(* The second half needs that behind a word or a number stands what ends   *)
(* it, which the tokens of an object have (Sound), and of a string where   *)
(* each of its characters is written (Literal).                            *)
(***************************************************************************)
EXTENDS CcoText, CcoLexer_proof

-----------------------------------------------------------------------------
(* Sequences put together *)

(* Two sequences one behind the other, element by element. *)
LEMMA Joined ==
    ASSUME NEW a, NEW b, IsSeq(a), IsSeq(b)
    PROVE  /\ IsSeq(a \o b)
           /\ Len(a) \in Nat /\ Len(b) \in Nat /\ Len(a \o b) = Len(a) + Len(b)
           /\ DOMAIN (a \o b) = 1 .. Len(a) + Len(b)
           /\ \A i \in 1 .. Len(a) : (a \o b)[i] = a[i]
           /\ \A i \in 1 .. Len(b) : (a \o b)[Len(a) + i] = b[i]
<1>1. PICK S, T : a \in Seq(S) /\ b \in Seq(T) BY DEF IsSeq
<1>2. PICK U : U = S \cup T OBVIOUS
<1>3. a \in Seq(U) /\ b \in Seq(U) BY <1>1, <1>2
<1>4. /\ a \o b \in Seq(U) /\ Len(a \o b) = Len(a) + Len(b)
      /\ \A i \in 1 .. Len(a) + Len(b) :
           (a \o b)[i] = IF i <= Len(a) THEN a[i] ELSE b[i - Len(a)]
  BY <1>3, ConcatProperties
<1>5. Len(a) \in Nat /\ Len(b) \in Nat BY <1>3
<1>6. IsSeq(a \o b) BY <1>4 DEF IsSeq
<1>7. DOMAIN (a \o b) = 1 .. Len(a) + Len(b) BY <1>4
<1>8. \A i \in 1 .. Len(a) : i \in 1 .. Len(a) + Len(b) /\ i <= Len(a) BY <1>5
<1>9. \A i \in 1 .. Len(b) : /\ Len(a) + i \in 1 .. Len(a) + Len(b)
                             /\ ~(Len(a) + i <= Len(a))
                             /\ Len(a) + i - Len(a) = i
  BY <1>5
<1> QED BY <1>4, <1>5, <1>6, <1>7, <1>8, <1>9

(* Three in a row, and nothing on one side. *)
LEMMA Grouped ==
    ASSUME NEW a, NEW b, NEW c, IsSeq(a), IsSeq(b), IsSeq(c)
    PROVE  (a \o b) \o c = a \o (b \o c)
<1>1. PICK S, T, R : a \in Seq(S) /\ b \in Seq(T) /\ c \in Seq(R) BY DEF IsSeq
<1>2. PICK U : U = S \cup T \cup R OBVIOUS
<1>3. PICK x \in Seq(U), y \in Seq(U), z \in Seq(U) : x = a /\ y = b /\ z = c
  BY <1>1, <1>2
<1>4. (x \o y) \o z = x \o (y \o z) BY ConcatAssociative
<1> QED BY <1>3, <1>4

(* An empty sequence changes nothing. *)
LEMMA NoneBeside ==
    ASSUME NEW a, IsSeq(a) PROVE <<>> \o a = a /\ a \o <<>> = a /\ IsSeq(<<>>)
<1>1. PICK S : a \in Seq(S) BY DEF IsSeq
<1>2. IsSeq(<<>>) BY DEF IsSeq
<1> QED BY <1>1, <1>2, ConcatEmptySeq

(* A sequence of one element. *)
LEMMA OneLong == ASSUME NEW x PROVE IsSeq(<<x>>) /\ Len(<<x>>) = 1 /\ <<x>>[1] = x
<1>1. <<x>> \in Seq({x}) OBVIOUS
<1> QED BY <1>1 DEF IsSeq

-----------------------------------------------------------------------------
(* How a text is laid out *)

(* t stands in s from b on. *)
At(s, b, t) == \A k \in 1 .. Len(t) : s[b + k - 1] = t[k]

(* A token that is written as its text. *)
Plain(tok) ==
    \/ tok \in {<<"lparen", <<"(">>>>, <<"rparen", <<")">>>>,
                <<"comma", <<",">>>>, <<"hash", <<"#">>>>, <<"minus", <<"-">>>>}
    \/ tok[1] = "integer" /\ Numeral(tok[2])
    \/ Name(tok[2]) /\ tok[1] = WordType(tok[2])

(* t is written between quotes, its characters from the places c on.       *)
Literal(s, b, e, t, c) ==
    /\ c \in [0 .. Len(t) -> Nat] /\ c[0] = b + 1 /\ c[Len(t)] = e - 1
    /\ s[b] = Quote /\ s[e - 1] = Quote
    /\ \A j \in 1 .. Len(t) : /\ c[j] = c[j - 1] + Len(Written(t[j]))
                              /\ At(s, c[j - 1], Written(t[j]))

Spelt(s, b, e, tok) ==
    /\ b \in Nat /\ e \in Nat /\ 1 <= b /\ b < e /\ e <= Len(s) + 1
    /\ IsSeq(tok[2])
    /\ \/ Plain(tok) /\ e = b + Len(tok[2]) /\ At(s, b, tok[2])
       \/ /\ tok[1] = "string" /\ End \notin {tok[2][j] : j \in 1 .. Len(tok[2])}
          /\ \E c : Literal(s, b, e, tok[2], c)

(* The tokens of m begin in s at the places f and end before those of t,   *)
(* with white space between them.                                          *)
Laid(s, m, f, t) ==
    /\ f \in [1 .. Len(m) + 1 -> Nat] /\ t \in [0 .. Len(m) -> Nat]
    /\ t[0] = 1 /\ f[Len(m) + 1] = Len(s) + 1
    /\ \A i \in 0 .. Len(m) :
         t[i] <= f[i + 1] /\ \A p \in t[i] .. f[i + 1] - 1 : s[p] \in Blank
    /\ \A i \in 1 .. Len(m) : Spelt(s, f[i], t[i], m[i])
LaidOut(s, m) == \E f, t : Laid(s, m, f, t)

(* A character is written as one, two or four of them. *)
LEMMA WrittenIs ==
    ASSUME NEW c
    PROVE  /\ IsSeq(Written(c)) /\ Len(Written(c)) \in {1, 2, 4}
<1>1. \/ Written(c) \in {<<Backslash, "n">>, <<Backslash, "t">>, <<Backslash, "r">>}
      \/ Written(c) = <<Backslash, c>> \/ Written(c) = Hex \/ Written(c) = <<c>>
  BY DEF Written
<1>2. ASSUME NEW x, NEW y PROVE IsSeq(<<x, y>>) /\ Len(<<x, y>>) = 2
  <2>1. <<x, y>> \in Seq({x, y}) OBVIOUS
  <2> QED BY <2>1 DEF IsSeq
<1>3. IsSeq(Hex) /\ Len(Hex) = 4
  <2>1. ASSUME NEW x, NEW y, NEW v, NEW w
        PROVE  <<x, y, v, w>> \in Seq({x, y, v, w}) /\ Len(<<x, y, v, w>>) = 4
    OBVIOUS
  <2> QED BY <2>1 DEF IsSeq, Hex
<1>4. IsSeq(<<c>>) /\ Len(<<c>>) = 1 BY OneLong
<1> QED BY <1>1, <1>2, <1>3, <1>4

(* The places of the characters of a literal grow from quote to quote. *)
LEMMA LiteralRange ==
    ASSUME NEW s, NEW b \in Nat, NEW e \in Nat, NEW t, IsSeq(t), NEW c,
           Literal(s, b, e, t, c)
    PROVE  /\ \A j \in 0 .. Len(t) : c[j] \in Nat /\ b + 1 <= c[j] /\ c[j] <= e - 1
           /\ \A i \in 1 .. Len(t) :
                \E w \in {1, 2, 4} :
                   /\ w = Len(Written(t[i])) /\ c[i] = c[i - 1] + w
                   /\ i - 1 \in 0 .. Len(t) /\ i \in 0 .. Len(t)
                   /\ c[i - 1] \in Nat /\ c[i] \in Nat /\ c[i - 1] < c[i]
<1>1. Len(t) \in Nat BY DEF IsSeq
<1>2. /\ c \in [0 .. Len(t) -> Nat] /\ c[0] = b + 1 /\ c[Len(t)] = e - 1
      /\ \A j \in 1 .. Len(t) : c[j] = c[j - 1] + Len(Written(t[j]))
  BY DEF Literal
<1>3. \A j \in 0 .. Len(t) : c[j] \in Nat BY <1>2
<1>4. ASSUME NEW i \in 1 .. Len(t)
      PROVE  \E w \in {1, 2, 4} :
                /\ w = Len(Written(t[i])) /\ c[i] = c[i - 1] + w
                /\ i - 1 \in 0 .. Len(t) /\ i \in 0 .. Len(t)
                /\ c[i - 1] \in Nat /\ c[i] \in Nat /\ c[i - 1] < c[i]
  <2>1. PICK w \in {1, 2, 4} : w = Len(Written(t[i])) BY WrittenIs
  <2>2. i - 1 \in 0 .. Len(t) /\ i \in 0 .. Len(t) BY <1>1
  <2>3. c[i] = c[i - 1] + w BY <1>2, <2>1
  <2>4. c[i - 1] \in Nat /\ c[i] \in Nat BY <1>3, <2>2
  <2>5. c[i - 1] < c[i]
    <3>1. PICK x, y : x = c[i - 1] /\ y = c[i] OBVIOUS
    <3>2. x \in Nat /\ y = x + w BY <2>3, <2>4, <3>1
    <3>3. x < y BY <3>2
    <3> QED BY <3>1, <3>3
  <2> WITNESS w \in {1, 2, 4}
  <2> QED BY <2>1, <2>2, <2>3, <2>4, <2>5
<1>5. ASSUME NEW j \in 0 .. Len(t) PROVE b + 1 <= c[j] /\ c[j] <= e - 1
  <2> DEFINE Low == {i \in Nat : i <= Len(t) /\ ~(b + 1 <= c[i])}
             High == {i \in Nat : i <= Len(t) /\ ~(c[Len(t) - i] <= e - 1)}
  <2>1. \A i \in 1 .. Len(t) : /\ i - 1 \in 0 .. Len(t) /\ c[i] \in Nat
                               /\ c[i - 1] \in Nat /\ c[i - 1] < c[i]
    BY <1>4
  <2>2. Low = {}
    <3> SUFFICES ASSUME Low # {} PROVE FALSE OBVIOUS
    <3>1. Low \subseteq Nat OBVIOUS
    <3>2. PICK i \in Low : \A x \in Low : i <= x
      <4> HIDE DEF Low
      <4> QED BY <3>1, Least
    <3>3. i # 0 BY <1>2
    <3>4. i \in 1 .. Len(t) /\ i - 1 \in Nat /\ i - 1 <= Len(t) /\ ~(i <= i - 1)
      BY <1>1, <3>3
    <3>5. i - 1 \notin Low
      <4> HIDE DEF Low
      <4> QED BY <3>2, <3>4
    <3>6. b + 1 <= c[i - 1] BY <3>4, <3>5
    <3> QED BY <2>1, <3>4, <3>6
  <2>3. High = {}
    <3> SUFFICES ASSUME High # {} PROVE FALSE OBVIOUS
    <3>1. High \subseteq Nat OBVIOUS
    <3>2. PICK i \in High : \A x \in High : i <= x
      <4> HIDE DEF High
      <4> QED BY <3>1, Least
    <3>3. i # 0
      <4>1. Len(t) - 0 = Len(t) BY <1>1
      <4> QED BY <1>2, <4>1
    <3>4. PICK k : k = Len(t) - i OBVIOUS
    <3>5. /\ k \in Nat /\ k + 1 \in 1 .. Len(t) /\ i - 1 \in Nat /\ i - 1 <= Len(t)
          /\ ~(i <= i - 1) /\ Len(t) - (i - 1) = k + 1 /\ k + 1 - 1 = k
      BY <1>1, <3>3, <3>4
    <3>6. i - 1 \notin High
      <4> HIDE DEF High
      <4> QED BY <3>2, <3>5
    <3>7. c[k + 1] <= e - 1 BY <3>5, <3>6
    <3>8. c[k + 1] \in Nat /\ c[k] \in Nat /\ c[k] < c[k + 1]
      <4>1. PICK h : h = k + 1 OBVIOUS
      <4>2. h \in 1 .. Len(t) /\ h - 1 = k BY <3>5, <4>1
      <4> QED BY <2>1, <4>1, <4>2
    <3>9. ~(c[k] <= e - 1) BY <3>4
    <3> QED BY <3>7, <3>8, <3>9
  <2>4. j \in Nat /\ j <= Len(t) /\ Len(t) - j \in Nat /\ Len(t) - j <= Len(t)
        /\ Len(t) - (Len(t) - j) = j
    BY <1>1
  <2> QED BY <2>2, <2>3, <2>4
<1> QED BY <1>3, <1>4, <1>5

(* A token stays spelt when the text moves by d. *)
LEMMA SpeltMoves ==
    ASSUME NEW s, Len(s) \in Nat, NEW d \in Nat, NEW u, Len(u) \in Nat,
           Len(s) + d <= Len(u), \A p \in 1 .. Len(s) : u[p + d] = s[p],
           NEW b, NEW e, NEW tok, Spelt(s, b, e, tok)
    PROVE  Spelt(u, b + d, e + d, tok)
<1>1. /\ b \in Nat /\ e \in Nat /\ 1 <= b /\ b < e /\ e <= Len(s) + 1
      /\ IsSeq(tok[2])
  BY DEF Spelt
<1>2. b + d \in Nat /\ e + d \in Nat /\ 1 <= b + d /\ b + d < e + d
      /\ e + d <= Len(u) + 1
  BY <1>1
<1>3. PICK t : t = tok[2] OBVIOUS
<1>4. Len(t) \in Nat BY <1>1, <1>3 DEF IsSeq
<1>5. CASE Plain(tok) /\ e = b + Len(t) /\ At(s, b, t)
  <2>1. e + d = b + d + Len(t) BY <1>1, <1>4, <1>5
  <2>2. ASSUME NEW k \in 1 .. Len(t) PROVE u[b + d + k - 1] = t[k]
    <3>1. b + k - 1 \in 1 .. Len(s) /\ b + d + k - 1 = b + k - 1 + d
      BY <1>1, <1>4, <1>5
    <3>2. s[b + k - 1] = t[k] BY <1>5 DEF At
    <3> QED BY <3>1, <3>2
  <2>3. At(u, b + d, t) BY <2>2 DEF At
  <2> QED BY <1>1, <1>2, <1>3, <1>5, <2>1, <2>3 DEF Spelt
<1>6. ASSUME tok[1] = "string", End \notin {t[j] : j \in 1 .. Len(t)},
             NEW c, Literal(s, b, e, t, c)
      PROVE  Spelt(u, b + d, e + d, tok)
  <2>1. /\ c \in [0 .. Len(t) -> Nat] /\ c[0] = b + 1 /\ c[Len(t)] = e - 1
        /\ s[b] = Quote /\ s[e - 1] = Quote
        /\ \A j \in 1 .. Len(t) : /\ c[j] = c[j - 1] + Len(Written(t[j]))
                                  /\ At(s, c[j - 1], Written(t[j]))
    BY <1>6 DEF Literal
  <2>2. b \in Nat /\ e \in Nat /\ IsSeq(t) BY <1>1, <1>3
  <2>11. \A j \in 0 .. Len(t) : c[j] \in Nat /\ b + 1 <= c[j] /\ c[j] <= e - 1
    BY <1>6, <2>2, LiteralRange
  <2>12. ASSUME NEW i \in 1 .. Len(t)
         PROVE  \E w \in {1, 2, 4} :
                   /\ w = Len(Written(t[i])) /\ c[i] = c[i - 1] + w
                   /\ i - 1 \in 0 .. Len(t) /\ i \in 0 .. Len(t)
                   /\ c[i - 1] \in Nat /\ c[i] \in Nat
    <3>1. \A h \in 1 .. Len(t) :
            \E w \in {1, 2, 4} :
               /\ w = Len(Written(t[h])) /\ c[h] = c[h - 1] + w
               /\ h - 1 \in 0 .. Len(t) /\ h \in 0 .. Len(t)
               /\ c[h - 1] \in Nat /\ c[h] \in Nat /\ c[h - 1] < c[h]
      BY <1>6, <2>2, LiteralRange
    <3> QED BY <3>1
  <2> DEFINE g == [j \in 0 .. Len(t) |-> c[j] + d]
  <2>3. 0 \in 0 .. Len(t) /\ Len(t) \in 0 .. Len(t) BY <1>4
  <2>5. g \in [0 .. Len(t) -> Nat] BY <2>11
  <2>6. \A j \in 0 .. Len(t) : g[j] = c[j] + d OBVIOUS
  <2> HIDE DEF g
  <2>7. g[0] = b + d + 1 /\ g[Len(t)] = e + d - 1
    <3>1. g[0] = c[0] + d /\ g[Len(t)] = c[Len(t)] + d BY <2>3, <2>6
    <3>2. c[0] = b + 1 /\ c[Len(t)] = e - 1 BY <2>1
    <3>3. b + 1 + d = b + d + 1 /\ e - 1 + d = e + d - 1 BY <1>1
    <3> QED BY <3>1, <3>2, <3>3
  <2>8. u[b + d] = Quote /\ u[e + d - 1] = Quote
    <3>1. b \in 1 .. Len(s) /\ e - 1 \in 1 .. Len(s) /\ e - 1 + d = e + d - 1
      BY <1>1
    <3> QED BY <2>1, <3>1
  <2>9. ASSUME NEW j \in 1 .. Len(t)
        PROVE  /\ g[j] = g[j - 1] + Len(Written(t[j]))
               /\ At(u, g[j - 1], Written(t[j]))
    <3>1. PICK w \in {1, 2, 4} :
            /\ w = Len(Written(t[j])) /\ c[j] = c[j - 1] + w
            /\ j - 1 \in 0 .. Len(t) /\ j \in 0 .. Len(t)
            /\ c[j - 1] \in Nat /\ c[j] \in Nat
      BY <2>12
    <3>2. PICK x, y : x = c[j - 1] /\ y = c[j] OBVIOUS
    <3>3. /\ y = x + w /\ x \in Nat /\ g[j] = y + d /\ g[j - 1] = x + d
          /\ b + 1 <= x /\ y <= e - 1
      BY <2>6, <2>11, <3>1, <3>2
    <3>4. ASSUME NEW k \in 1 .. w PROVE u[g[j - 1] + k - 1] = Written(t[j])[k]
      <4>1. /\ x + k - 1 \in 1 .. Len(s) /\ x + d + k - 1 = x + k - 1 + d
        BY <1>1, <3>3
      <4>2. s[x + k - 1] = Written(t[j])[k] BY <2>1, <3>1, <3>2 DEF At
      <4> QED BY <3>3, <4>1, <4>2
    <3>5. At(u, g[j - 1], Written(t[j])) BY <3>1, <3>4 DEF At
    <3>6. g[j] = g[j - 1] + w BY <3>3
    <3> QED BY <3>1, <3>5, <3>6
  <2>10. Literal(u, b + d, e + d, t, g)
    <3>1. PICK x, y : x = b + d /\ y = e + d OBVIOUS
    <3>3. /\ g[0] = x + 1 /\ g[Len(t)] = y - 1
          /\ u[x] = Quote /\ u[y - 1] = Quote
      <4>1. g[0] = x + 1 BY <2>7, <3>1
      <4>5. y - 1 = e + d - 1 BY <1>1, <3>1
      <4>2. g[Len(t)] = y - 1 BY <2>7, <4>5
      <4>3. u[x] = Quote BY <2>8, <3>1
      <4>4. u[y - 1] = Quote BY <2>8, <4>5
      <4> QED BY <4>1, <4>2, <4>3, <4>4
    <3>2. Literal(u, x, y, t, g) BY <2>5, <2>9, <3>3 DEF Literal
    <3> QED BY <3>1, <3>2
  <2> QED BY <1>1, <1>2, <1>3, <1>6, <2>10 DEF Spelt
<1> QED BY <1>3, <1>5, <1>6 DEF Spelt

(* What holds at 0 and goes on to the next number holds up to n. *)
LEMMA Counting ==
    ASSUME NEW n \in Nat, NEW S, 0 \in S,
           \A k \in 0 .. n : k < n /\ k \in S => k + 1 \in S
    PROVE  \A k \in 0 .. n : k \in S
<1> DEFINE T == (0 .. n) \ S
<1>1. SUFFICES ASSUME T # {} PROVE FALSE OBVIOUS
<1>2. T \subseteq Nat OBVIOUS
<1> HIDE DEF T
<1>3. PICK k \in T : \A j \in T : k <= j BY <1>1, <1>2, Least
<1> USE DEF T
<1>4. k # 0 OBVIOUS
<1>5. k - 1 \in 0 .. n /\ k - 1 < n /\ ~(k <= k - 1) /\ (k - 1) + 1 = k BY <1>4
<1>6. k - 1 \in S BY <1>3, <1>5
<1> QED BY <1>5, <1>6

-----------------------------------------------------------------------------
(* A sequence of sequences made one *)

Flats(f, q) ==
    /\ f = [i \in 1 .. Len(q) |-> f[i]]
    /\ \A i \in 1 .. Len(q) : f[i] = IF i = 1 THEN q[i] ELSE f[i - 1] \o q[i]

(* The sequence of what the first parts make exists. *)
LEMMA FlatsExist == ASSUME NEW q, Len(q) \in Nat PROVE \E f : Flats(f, q)
<1> DEFINE Upto(f, k) ==
             /\ f = [i \in 1 .. k |-> f[i]]
             /\ \A i \in 1 .. k : f[i] = IF i = 1 THEN q[i] ELSE f[i - 1] \o q[i]
           S == {k \in 0 .. Len(q) : \E f : Upto(f, k)}
<1>1. 0 \in S
  <2> DEFINE f == [i \in 1 .. 0 |-> q[i]]
  <2>1. \A i \in 1 .. 0 : FALSE OBVIOUS
  <2>2. f = [i \in 1 .. 0 |-> f[i]] OBVIOUS
  <2> HIDE DEF f
  <2>3. Upto(f, 0) BY <2>1, <2>2
  <2>4. 0 \in 0 .. Len(q) OBVIOUS
  <2> HIDE DEF Upto
  <2> QED BY <2>3, <2>4
<1>2. ASSUME NEW k \in 0 .. Len(q), k < Len(q), k \in S PROVE k + 1 \in S
  <2>1. PICK f : Upto(f, k) BY <1>2
  <2> DEFINE g == [i \in 1 .. k + 1 |->
                     IF i = k + 1 THEN IF i = 1 THEN q[i] ELSE f[i - 1] \o q[i]
                     ELSE f[i]]
  <2>2. \A i \in 1 .. k : i \in 1 .. k + 1 /\ i # k + 1 OBVIOUS
  <2>3. \A i \in 1 .. k : g[i] = f[i] BY <2>2
  <2>4. g[k + 1] = IF k + 1 = 1 THEN q[k + 1] ELSE f[k] \o q[k + 1]
    <3>1. k + 1 \in 1 .. k + 1 /\ k + 1 - 1 = k OBVIOUS
    <3> QED BY <3>1
  <2>5. g = [i \in 1 .. k + 1 |-> g[i]] OBVIOUS
  <2> HIDE DEF g
  <2>6. ASSUME NEW i \in 1 .. k + 1
        PROVE  g[i] = IF i = 1 THEN q[i] ELSE g[i - 1] \o q[i]
    <3>1. CASE i = k + 1
      <4>1. CASE i = 1 BY <2>4, <3>1, <4>1
      <4>2. CASE i # 1
        <5>1. k \in 1 .. k /\ i - 1 = k BY <3>1, <4>2
        <5>2. g[k] = f[k] BY <2>3, <5>1
        <5> QED BY <2>4, <3>1, <4>2, <5>1, <5>2
      <4> QED BY <4>1, <4>2
    <3>2. CASE i # k + 1
      <4>1. i \in 1 .. k BY <3>2
      <4>2. i # 1 => i - 1 \in 1 .. k BY <4>1
      <4> QED BY <2>1, <2>3, <4>1, <4>2
    <3> QED BY <3>1, <3>2
  <2>7. Upto(g, k + 1) BY <2>5, <2>6
  <2>8. k + 1 \in 0 .. Len(q) BY <1>2
  <2> HIDE DEF Upto
  <2> QED BY <2>7, <2>8
<1>3. Len(q) \in S
  <2>1. Len(q) \in 0 .. Len(q) OBVIOUS
  <2> HIDE DEF S
  <2>2. \A k \in 0 .. Len(q) : k \in S BY <1>1, <1>2, Counting
  <2> QED BY <2>1, <2>2
<1> QED BY <1>3 DEF Flats

(* FlattenSeq makes all of the parts one. *)
LEMMA FlattenIs ==
    ASSUME NEW q, Len(q) \in Nat, Len(q) # 0
    PROVE  \E f : Flats(f, q) /\ FlattenSeq(q) = f[Len(q)]
<1>1. PICK g : Flats(g, q) BY FlatsExist
<1> DEFINE f == CHOOSE f : f = [i \in 1 .. Len(q) |->
                                  IF i = 1 THEN q[i] ELSE f[i - 1] \o q[i]]
<1>2. g = [i \in 1 .. Len(q) |-> IF i = 1 THEN q[i] ELSE g[i - 1] \o q[i]]
  BY <1>1 DEF Flats
<1>3. f = [i \in 1 .. Len(q) |-> IF i = 1 THEN q[i] ELSE f[i - 1] \o q[i]]
  BY <1>2
<1>4. FlattenSeq(q) = f[Len(q)] BY DEF FlattenSeq
<1> HIDE DEF f
<1>5. Flats(f, q) BY <1>3 DEF Flats
<1> QED BY <1>4, <1>5

(* What the first parts make is at the beginning of the whole. *)
Growing(f, q) ==
    \A i \in 1 .. Len(q) :
        /\ IsSeq(f[i]) /\ Len(f[i]) \in Nat
        /\ i > 1 => Len(f[i]) = Len(f[i - 1]) + Len(q[i])
        /\ i = 1 => f[i] = q[i]
        /\ i > 1 => \A p \in 1 .. Len(q[i]) : f[i][Len(f[i - 1]) + p] = q[i][p]
        /\ Len(f[i]) <= Len(f[Len(q)])
        /\ \A p \in 1 .. Len(f[i]) : f[Len(q)][p] = f[i][p]
(* What the first parts make stays as further ones follow. *)
LEMMA FlatsGrow ==
    ASSUME NEW q, Len(q) \in Nat, \A i \in 1 .. Len(q) : IsSeq(q[i]),
           NEW f, Flats(f, q)
    PROVE  Growing(f, q)
<1> DEFINE n == Len(q)
           S == {k \in 0 .. n : k > 0 => IsSeq(f[k])}
<1>1. \A k \in 0 .. n : k \in S
  <2>1. 0 \in S OBVIOUS
  <2>2. ASSUME NEW k \in 0 .. n, k < n, k \in S PROVE k + 1 \in S
    <3>1. PICK j : j = k + 1 OBVIOUS
    <3>2. j \in 1 .. n /\ j \in 0 .. n /\ j - 1 = k BY <2>2, <3>1
    <3>3. f[j] = IF j = 1 THEN q[j] ELSE f[k] \o q[j] BY <3>2 DEF Flats
    <3>4. j # 1 => IsSeq(f[k]) BY <2>2, <3>1
    <3>5. IsSeq(q[j]) BY <3>2
    <3>6. IsSeq(f[j])
      <4>1. CASE j = 1 BY <3>3, <3>5, <4>1
      <4>2. CASE j # 1
        <5>1. IsSeq(f[k]) BY <3>4, <4>2
        <5>2. IsSeq(f[k] \o q[j])
          <6>1. PICK a : a = f[k] OBVIOUS
          <6>2. PICK b : b = q[j] OBVIOUS
          <6> QED BY <3>5, <5>1, <6>1, <6>2, Joined
        <5> QED BY <3>3, <4>2, <5>2
      <4> QED BY <4>1, <4>2
    <3> QED BY <3>1, <3>2, <3>6
  <2> HIDE DEF S
  <2> QED BY <2>1, <2>2, Counting
<1>2. ASSUME NEW i \in 1 .. n PROVE IsSeq(f[i]) /\ Len(f[i]) \in Nat
  <2>1. IsSeq(f[i])
    <3>1. i \in 0 .. n /\ i > 0 OBVIOUS
    <3> QED BY <1>1, <3>1
  <2> QED BY <2>1 DEF IsSeq
<1>3. ASSUME NEW i \in 1 .. n, i > 1
      PROVE  /\ i - 1 \in 1 .. n
             /\ Len(f[i]) = Len(f[i - 1]) + Len(q[i])
             /\ \A p \in 1 .. Len(q[i]) : f[i][Len(f[i - 1]) + p] = q[i][p]
             /\ \A p \in 1 .. Len(f[i - 1]) : f[i][p] = f[i - 1][p]
             /\ Len(f[i - 1]) <= Len(f[i])
  <2>1. i - 1 \in 1 .. n /\ i # 1 BY <1>3
  <2>2. PICK a : a = f[i - 1] OBVIOUS
  <2>3. PICK b : b = q[i] OBVIOUS
  <2>4. IsSeq(a) /\ IsSeq(b) BY <1>2, <2>1, <2>2, <2>3
  <2>5. f[i] = a \o b BY <2>1, <2>2, <2>3 DEF Flats
  <2>6. /\ Len(a) \in Nat /\ Len(b) \in Nat /\ Len(a \o b) = Len(a) + Len(b)
        /\ \A p \in 1 .. Len(a) : (a \o b)[p] = a[p]
        /\ \A p \in 1 .. Len(b) : (a \o b)[Len(a) + p] = b[p]
    BY <2>4, Joined
  <2>7. Len(a) <= Len(a) + Len(b) BY <2>6
  <2> QED BY <2>1, <2>2, <2>3, <2>5, <2>6, <2>7
<1>4. ASSUME NEW i \in 1 .. n
      PROVE  /\ Len(f[i]) <= Len(f[n])
             /\ \A p \in 1 .. Len(f[i]) : f[n][p] = f[i][p]
  <2> DEFINE R == {k \in 0 .. n : k >= i => /\ Len(f[i]) <= Len(f[k])
                                            /\ \A p \in 1 .. Len(f[i]) : f[k][p] = f[i][p]}
  <2>1. 0 \in R OBVIOUS
  <2>2. ASSUME NEW k \in 0 .. n, k < n, k \in R PROVE k + 1 \in R
    <3>1. PICK j : j = k + 1 OBVIOUS
    <3>2. j \in 0 .. n /\ j \in 1 .. n /\ j - 1 = k BY <2>2, <3>1
    <3>3. CASE j < i BY <3>1, <3>2, <3>3
    <3>4. CASE j = i
      <4>1. Len(f[i]) \in Nat BY <1>2
      <4> QED BY <3>1, <3>2, <3>4, <4>1
    <3>5. CASE j > i
      <4>1. k >= i /\ j > 1 BY <3>2, <3>5
      <4>2. /\ Len(f[i]) <= Len(f[k])
            /\ \A p \in 1 .. Len(f[i]) : f[k][p] = f[i][p]
        BY <2>2, <4>1
      <4>3. /\ \A p \in 1 .. Len(f[k]) : f[j][p] = f[k][p]
            /\ Len(f[k]) <= Len(f[j])
        BY <1>3, <3>2, <4>1
      <4>4. Len(f[i]) \in Nat /\ Len(f[k]) \in Nat /\ Len(f[j]) \in Nat
        <5>1. k \in 1 .. n BY <3>2, <4>1
        <5> QED BY <1>2, <3>2, <5>1
      <4>5. Len(f[i]) <= Len(f[j]) BY <4>2, <4>3, <4>4
      <4>6. \A p \in 1 .. Len(f[i]) : p \in 1 .. Len(f[k]) BY <4>2, <4>4
      <4> QED BY <3>1, <3>2, <4>2, <4>3, <4>5, <4>6
    <3> QED BY <3>2, <3>3, <3>4, <3>5
  <2>3. n \in R
    <3>1. n \in 0 .. n OBVIOUS
    <3> HIDE DEF R
    <3>2. \A k \in 0 .. n : k \in R BY <2>1, <2>2, Counting
    <3> QED BY <3>1, <3>2
  <2>4. n >= i OBVIOUS
  <2> QED BY <2>3, <2>4
<1>5. ASSUME NEW i \in 1 .. n, i = 1 PROVE f[i] = q[i] BY <1>5 DEF Flats
<1> QED BY <1>2, <1>3, <1>4, <1>5 DEF Growing

-----------------------------------------------------------------------------
(* The tokens of an object *)

Lists(r, ms, i) ==
    IF i > Len(ms) THEN <<Parens[2]>>
    ELSE ms[i] \o (IF i < Len(ms) THEN <<Comma>> ELSE <<>>) \o r[i + 1]

(* What Listed says can be satisfied. *)
LEMMA ListsExist ==
    ASSUME NEW ms, Len(ms) \in Nat
    PROVE  \E r : r = [i \in 1 .. Len(ms) + 1 |-> Lists(r, ms, i)]
<1> DEFINE n == Len(ms)
           From(r, k) == r = [i \in n + 1 - k .. n + 1 |-> Lists(r, ms, i)]
           S == {k \in 0 .. n : \E r : From(r, k)}
<1>1. 0 \in S
  <2> DEFINE r == [i \in n + 1 .. n + 1 |-> <<Parens[2]>>]
  <2>1. \A i \in n + 1 .. n + 1 : i > n OBVIOUS
  <2>2. \A q : \A i \in n + 1 .. n + 1 : Lists(q, ms, i) = <<Parens[2]>>
    BY <2>1 DEF Lists
  <2>3. r = [i \in n + 1 .. n + 1 |-> Lists(r, ms, i)] BY <2>2
  <2>4. n + 1 - 0 = n + 1 /\ 0 \in 0 .. n OBVIOUS
  <2> HIDE DEF r
  <2>5. From(r, 0) BY <2>3, <2>4
  <2> HIDE DEF From
  <2> QED BY <2>4, <2>5
<1>2. ASSUME NEW k \in 0 .. n, k < n, k \in S PROVE k + 1 \in S
  <2>1. PICK q : From(q, k) BY <1>2
  <2>2. PICK m : m = n - k OBVIOUS
  <2>3. /\ m \in 1 .. n /\ n + 1 - (k + 1) = m /\ n + 1 - k = m + 1
        /\ k + 1 \in 0 .. n
    BY <1>2, <2>2
  <2>4. \A i \in m + 1 .. n + 1 : q[i] = Lists(q, ms, i) BY <2>1, <2>3
  <2> DEFINE r == [i \in m .. n + 1 |-> IF i = m THEN Lists(q, ms, m) ELSE q[i]]
  <2>5. \A i \in m + 1 .. n + 1 : i \in m .. n + 1 /\ i # m BY <2>3
  <2>6. \A i \in m + 1 .. n + 1 : r[i] = q[i] BY <2>5
  <2>7. r[m] = Lists(q, ms, m) BY <2>3
  <2>8. r = [i \in m .. n + 1 |-> r[i]] OBVIOUS
  <2> HIDE DEF r
  <2>9. ASSUME NEW i \in m .. n + 1 PROVE r[i] = Lists(r, ms, i)
    <3>1. i = m \/ i \in m + 1 .. n + 1 BY <2>3
    <3>2. ~(i > n) => i + 1 \in m + 1 .. n + 1 BY <2>3
    <3>3. ~(i > n) => r[i + 1] = q[i + 1] BY <2>6, <3>2
    <3>4. Lists(r, ms, i) = Lists(q, ms, i) BY <3>3 DEF Lists
    <3> QED BY <2>4, <2>6, <2>7, <3>1, <3>4
  <2>10. r = [i \in m .. n + 1 |-> Lists(r, ms, i)] BY <2>8, <2>9
  <2>11. From(r, k + 1) BY <2>3, <2>10
  <2> HIDE DEF From
  <2> QED BY <2>3, <2>11
<1>3. n \in S
  <2>1. n \in 0 .. n OBVIOUS
  <2> HIDE DEF S
  <2>2. \A k \in 0 .. n : k \in S BY <1>1, <1>2, Counting
  <2> QED BY <2>1, <2>2
<1>4. n + 1 - n = 1 OBVIOUS
<1> QED BY <1>3, <1>4

(* Listed is as it is defined: item by item, to the parenthesis. *)
LEMMA ListedIs ==
    ASSUME NEW ms, Len(ms) \in Nat
    PROVE  /\ Listed(ms)[Len(ms) + 1] = <<Parens[2]>>
           /\ \A i \in 1 .. Len(ms) :
                Listed(ms)[i] = ms[i] \o (IF i < Len(ms) THEN <<Comma>> ELSE <<>>)
                                      \o Listed(ms)[i + 1]
<1> DEFINE L == CHOOSE r : r = [i \in 1 .. Len(ms) + 1 |-> Lists(r, ms, i)]
<1>1. Listed(ms) = L BY DEF Listed, Lists
<1>2. L = [i \in 1 .. Len(ms) + 1 |-> Lists(L, ms, i)] BY ListsExist
<1> HIDE DEF L
<1>3. \A i \in 1 .. Len(ms) + 1 : L[i] = Lists(L, ms, i) BY <1>2
<1>4. L[Len(ms) + 1] = <<Parens[2]>>
  <2>1. Len(ms) + 1 \in 1 .. Len(ms) + 1 /\ Len(ms) + 1 > Len(ms) OBVIOUS
  <2> QED BY <1>3, <2>1 DEF Lists
<1>5. ASSUME NEW i \in 1 .. Len(ms)
      PROVE  L[i] = ms[i] \o (IF i < Len(ms) THEN <<Comma>> ELSE <<>>) \o L[i + 1]
  <2>1. i \in 1 .. Len(ms) + 1 /\ ~(i > Len(ms)) OBVIOUS
  <2>2. L[i] = Lists(L, ms, i) BY <1>3, <2>1
  <2> QED BY <2>1, <2>2 DEF Lists
<1> QED BY <1>1, <1>4, <1>5

(* The tokens the serializer writes of an object: of a map and of the fields *)
(* of an instance it writes none but the parentheses, and a float so that it *)
(* reads as an integer.                                                      *)
Shows(o, ms) ==
    CASE o.type \in {"integer", "float"} ->
           IF Head(o.text) = "-"
             THEN <<<<"minus", <<"-">>>>, <<"integer", Tail(o.text)>>>>
             ELSE <<<<"integer", o.text>>>>
      [] o.type = "map" -> Parens
      [] o.type = "instance" ->
           <<<<"hash", <<"#">>>>>>
           \o (IF o.text = <<>> THEN <<>> ELSE <<<<"ident", o.text>>>>)
           \o Parens
      [] OTHER -> Stands(o, ms)
Shown[o \in Trees] == Shows(o, [i \in DOMAIN o.items |-> Shown[o.items[i]]])

(* What an object means, or what is written of it, as M says of its items. *)
Says(b, M, o) ==
    LET ms == [i \in DOMAIN o.items |-> M[o.items[i]]]
    IN  IF b THEN Stands(o, ms) ELSE Shows(o, ms)

(* What an object means depends on what its items mean alone. *)
LEMMA MeansAgree ==
    ASSUME NEW b, NEW o, NEW M, NEW N,
           \A i \in DOMAIN o.items : M[o.items[i]] = N[o.items[i]]
    PROVE  Says(b, M, o) = Says(b, N, o)
<1>1. [i \in DOMAIN o.items |-> M[o.items[i]]] = [i \in DOMAIN o.items |-> N[o.items[i]]]
  OBVIOUS
<1> QED BY <1>1 DEF Says

(* M is right of the objects below a height. *)
Below(b, M, k) == \A o \in Trees : Height[o] < k => M[o] = Says(b, M, o)

(* Items are lower than what they are items of. *)
LEMMA ItemsLower ==
    ASSUME NEW o \in Trees
    PROVE  /\ Height[o] \in Nat /\ o.items \in Seq(Trees)
           /\ \A i \in DOMAIN o.items : /\ o.items[i] \in Trees
                                        /\ Height[o.items[i]] \in Nat
                                        /\ Height[o.items[i]] < Height[o]
<1>1. Height[o] \in Nat /\ o.items \in Seq(Trees) BY TreeAssumption
<1>2. \A i \in DOMAIN o.items : o.items[i] \in Trees BY <1>1
<1> QED BY <1>1, <1>2, TreeAssumption

(* Two meanings that are right below a height agree there. *)
LEMMA BelowAgree ==
    ASSUME NEW b, NEW M, NEW N, NEW k, NEW j, Below(b, M, k), Below(b, N, j),
           NEW o \in Trees, Height[o] < k, Height[o] < j, k \in Nat, j \in Nat
    PROVE  M[o] = N[o]
<1> DEFINE T == {h \in Nat : \E p \in Trees : /\ Height[p] = h /\ h < k /\ h < j
                                              /\ M[p] # N[p]}
<1>1. SUFFICES ASSUME T # {} PROVE FALSE
  <2>1. Height[o] \in Nat BY ItemsLower
  <2> QED BY <2>1
<1>2. PICK h \in T : \A x \in T : h <= x
  <2>1. T \subseteq Nat OBVIOUS
  <2> HIDE DEF T
  <2> QED BY <1>1, <2>1, Least
<1>3. PICK p \in Trees : Height[p] = h /\ h < k /\ h < j /\ M[p] # N[p] BY <1>2
<1>4. M[p] = Says(b, M, p) /\ N[p] = Says(b, N, p) BY <1>3 DEF Below
<1>5. ASSUME NEW i \in DOMAIN p.items PROVE M[p.items[i]] = N[p.items[i]]
  <2>1. PICK q : q = p.items[i] OBVIOUS
  <2>2. q \in Trees /\ Height[q] \in Nat /\ Height[q] < h
    BY <1>3, <2>1, ItemsLower
  <2>3. Height[q] < k /\ Height[q] < j /\ ~(h <= Height[q]) BY <1>2, <1>3, <2>2
  <2>4. Height[q] \notin T
    <3> HIDE DEF T
    <3> QED BY <1>2, <2>3
  <2> QED BY <2>1, <2>2, <2>3, <2>4
<1>6. Says(b, M, p) = Says(b, N, p) BY <1>5, MeansAgree
<1> QED BY <1>3, <1>4, <1>6

(* Below any height there is one. *)
LEMMA BelowExists ==
    ASSUME NEW b, NEW n \in Nat PROVE \E M : Below(b, M, n)
<1> DEFINE S == {k \in 0 .. n : \E M : Below(b, M, k)}
<1>1. 0 \in S
  <2>1. \A o \in Trees : ~(Height[o] < 0) BY ItemsLower
  <2>2. \A M : Below(b, M, 0) BY <2>1 DEF Below
  <2> QED BY <2>2
<1>2. ASSUME NEW k \in 0 .. n, k < n, k \in S PROVE k + 1 \in S
  <2>1. PICK M : Below(b, M, k) BY <1>2
  <2> DEFINE N == [o \in Trees |-> Says(b, M, o)]
  <2>2. \A o \in Trees : N[o] = Says(b, M, o) OBVIOUS
  <2> HIDE DEF N
  <2>3. ASSUME NEW o \in Trees, Height[o] < k + 1 PROVE N[o] = Says(b, N, o)
    <3>1. ASSUME NEW i \in DOMAIN o.items PROVE M[o.items[i]] = N[o.items[i]]
      <4>1. PICK q : q = o.items[i] OBVIOUS
      <4>2. q \in Trees /\ Height[q] \in Nat /\ Height[o] \in Nat
            /\ Height[q] < Height[o]
        BY <4>1, ItemsLower
      <4>3. Height[q] < k BY <2>3, <4>2
      <4>4. M[q] = Says(b, M, q) BY <2>1, <4>2, <4>3 DEF Below
      <4> QED BY <2>2, <4>1, <4>2, <4>4
    <3>2. Says(b, M, o) = Says(b, N, o) BY <3>1, MeansAgree
    <3> QED BY <2>2, <3>2
  <2>4. Below(b, N, k + 1) BY <2>3 DEF Below
  <2>5. k + 1 \in 0 .. n BY <1>2
  <2> QED BY <2>4, <2>5
<1>3. n \in 0 .. n OBVIOUS
<1>4. \A k \in 0 .. n : k \in S
  <2> HIDE DEF S
  <2> QED BY <1>1, <1>2, Counting
<1> QED BY <1>3, <1>4

(* So there is one of all objects. *)
LEMMA SaysExists ==
    ASSUME NEW b PROVE \E F : F = [o \in Trees |-> Says(b, F, o)]
<1> DEFINE Some(k) == CHOOSE M : Below(b, M, k)
           F == [o \in Trees |-> Some(Height[o] + 1)[o]]
<1>1. ASSUME NEW k \in Nat PROVE Below(b, Some(k), k)
  <2>1. \E M : Below(b, M, k) BY BelowExists
  <2> QED BY <2>1
<1>2. \A o \in Trees : F[o] = Some(Height[o] + 1)[o] OBVIOUS
<1>3. F = [o \in Trees |-> F[o]] OBVIOUS
<1> HIDE DEF F, Some
<1>4. ASSUME NEW o \in Trees PROVE F[o] = Says(b, F, o)
  <2>1. PICK h : h = Height[o] + 1 OBVIOUS
  <2>2. PICK M : M = Some(h) OBVIOUS
  <2>3. Height[o] \in Nat /\ h \in Nat /\ Height[o] < h BY <2>1, ItemsLower
  <2>4. Below(b, M, h) BY <1>1, <2>2, <2>3
  <2>5. F[o] = M[o] BY <1>2, <2>1, <2>2
  <2>6. M[o] = Says(b, M, o) BY <2>3, <2>4 DEF Below
  <2>7. ASSUME NEW i \in DOMAIN o.items PROVE M[o.items[i]] = F[o.items[i]]
    <3>1. PICK q : q = o.items[i] OBVIOUS
    <3>2. q \in Trees /\ Height[q] \in Nat /\ Height[q] < Height[o]
      BY <3>1, ItemsLower
    <3>3. PICK j : j = Height[q] + 1 OBVIOUS
    <3>4. PICK N : N = Some(j) OBVIOUS
    <3>5. j \in Nat /\ Height[q] < j /\ Height[q] < h BY <2>1, <2>3, <3>2, <3>3
    <3>6. Below(b, N, j) BY <1>1, <3>4, <3>5
    <3>7. M[q] = N[q] BY <2>3, <2>4, <3>2, <3>5, <3>6, BelowAgree
    <3>8. F[q] = N[q] BY <1>2, <3>2, <3>3, <3>4
    <3> QED BY <3>1, <3>7, <3>8
  <2>8. Says(b, M, o) = Says(b, F, o) BY <2>7, MeansAgree
  <2> QED BY <2>5, <2>6, <2>8
<1>5. F = [o \in Trees |-> Says(b, F, o)] BY <1>3, <1>4
<1> QED BY <1>5

(* Meaning is as it is defined. *)
LEMMA MeaningIs == \A o \in Trees : Meaning[o] = Says(TRUE, Meaning, o)
<1> DEFINE G == CHOOSE M : M = [o \in Trees |-> Says(TRUE, M, o)]
<1>1. G = [o \in Trees |-> Says(TRUE, G, o)] BY SaysExists
<1>2. Meaning = G BY DEF Meaning, Says
<1> HIDE DEF G
<1>3. Meaning = [o \in Trees |-> Says(TRUE, Meaning, o)] BY <1>1, <1>2
<1> QED BY <1>3

(* So is what is written. *)
LEMMA ShownIs == \A o \in Trees : Shown[o] = Says(FALSE, Shown, o)
<1> DEFINE G == CHOOSE M : M = [o \in Trees |-> Says(FALSE, M, o)]
<1>1. G = [o \in Trees |-> Says(FALSE, G, o)] BY SaysExists
<1>2. Shown = G BY DEF Shown, Says
<1> HIDE DEF G
<1>3. Shown = [o \in Trees |-> Says(FALSE, Shown, o)] BY <1>1, <1>2
<1> QED BY <1>3

-----------------------------------------------------------------------------
(* Layouts put together *)

(* What lies between two tokens, moved by d. *)
LEMMA GapMoves ==
    ASSUME NEW s, NEW u, NEW d \in Nat, Len(s) \in Nat,
           \A p \in 1 .. Len(s) : u[p + d] = s[p],
           NEW x \in Nat, NEW y \in Nat, 1 <= x, y <= Len(s) + 1,
           \A p \in x .. y - 1 : s[p] \in Blank
    PROVE  \A p \in x + d .. y + d - 1 : u[p] \in Blank
<1> TAKE p \in x + d .. y + d - 1
<1>1. PICK q : q = p - d OBVIOUS
<1>2. q \in x .. y - 1 /\ q \in 1 .. Len(s) /\ q + d = p BY <1>1
<1> QED BY <1>2

(* The places of a layout are places of its text. *)
LEMMA LaidRange ==
    ASSUME NEW s, NEW m, NEW f, NEW t, Len(s) \in Nat, Len(m) \in Nat,
           Laid(s, m, f, t)
    PROVE  /\ \A i \in 1 .. Len(m) + 1 :
                f[i] \in Nat /\ 1 <= f[i] /\ f[i] <= Len(s) + 1
           /\ \A i \in 0 .. Len(m) :
                t[i] \in Nat /\ 1 <= t[i] /\ t[i] <= Len(s) + 1
           /\ \A i \in 1 .. Len(m) : f[i] < t[i] /\ f[i] <= Len(s)
<1>1. \A i \in 1 .. Len(m) :
        /\ f[i] \in Nat /\ t[i] \in Nat /\ 1 <= f[i] /\ f[i] < t[i]
        /\ t[i] <= Len(s) + 1
  BY DEF Laid, Spelt
<1>2. f[Len(m) + 1] = Len(s) + 1 /\ t[0] = 1 BY DEF Laid
<1>3. ASSUME NEW i \in 1 .. Len(m) + 1
      PROVE  f[i] \in Nat /\ 1 <= f[i] /\ f[i] <= Len(s) + 1
  <2>1. CASE i = Len(m) + 1 BY <1>2, <2>1
  <2>2. CASE i # Len(m) + 1
    <3>1. i \in 1 .. Len(m) BY <2>2
    <3> QED BY <1>1, <3>1
  <2> QED BY <2>1, <2>2
<1>4. ASSUME NEW i \in 0 .. Len(m)
      PROVE  t[i] \in Nat /\ 1 <= t[i] /\ t[i] <= Len(s) + 1
  <2>1. CASE i = 0 BY <1>2, <2>1
  <2>2. CASE i # 0
    <3>1. i \in 1 .. Len(m) BY <2>2
    <3> QED BY <1>1, <3>1
  <2> QED BY <2>1, <2>2
<1>5. \A i \in 1 .. Len(m) : f[i] < t[i] /\ f[i] <= Len(s) BY <1>1
<1> QED BY <1>3, <1>4, <1>5

(* Two texts that are laid out make one that is. *)
LEMMA LayoutsJoin ==
    ASSUME NEW s, NEW u, NEW m, NEW n, IsSeq(s), IsSeq(u), IsSeq(m), IsSeq(n),
           LaidOut(s, m), LaidOut(u, n)
    PROVE  LaidOut(s \o u, m \o n)
<1>1. PICK f, t : Laid(s, m, f, t) BY DEF LaidOut
<1>2. PICK g, h : Laid(u, n, g, h) BY DEF LaidOut
<1>3. PICK v, w, d, a, c : v = s \o u /\ w = m \o n /\ d = Len(s) /\ a = Len(m)
                           /\ c = Len(n)
  OBVIOUS
<1>4. /\ d \in Nat /\ Len(u) \in Nat /\ Len(v) = d + Len(u)
      /\ \A p \in 1 .. d : v[p] = s[p]
      /\ \A p \in 1 .. Len(u) : v[d + p] = u[p]
  BY <1>3, Joined
<1>5. /\ a \in Nat /\ c \in Nat /\ Len(w) = a + c
      /\ \A p \in 1 .. a : w[p] = m[p]
      /\ \A p \in 1 .. c : w[a + p] = n[p]
  BY <1>3, Joined
<1>6. /\ \A i \in 1 .. a + 1 : f[i] \in Nat /\ 1 <= f[i] /\ f[i] <= d + 1
      /\ \A i \in 0 .. a : t[i] \in Nat /\ 1 <= t[i] /\ t[i] <= d + 1
  BY <1>1, <1>3, <1>4, <1>5, LaidRange
<1>7. /\ \A i \in 1 .. c + 1 : g[i] \in Nat /\ 1 <= g[i] /\ g[i] <= Len(u) + 1
      /\ \A i \in 0 .. c : h[i] \in Nat /\ 1 <= h[i] /\ h[i] <= Len(u) + 1
  BY <1>2, <1>3, <1>4, <1>5, LaidRange
<1> DEFINE ff == [i \in 1 .. a + c + 1 |-> IF i <= a THEN f[i] ELSE g[i - a] + d]
           tt == [i \in 0 .. a + c |-> IF i <= a THEN t[i] ELSE h[i - a] + d]
<1>8. ff \in [1 .. a + c + 1 -> Nat]
  <2>1. ASSUME NEW i \in 1 .. a + c + 1
        PROVE  (IF i <= a THEN f[i] ELSE g[i - a] + d) \in Nat
    <3>1. CASE i <= a
      <4>1. i \in 1 .. a + 1 BY <1>5, <3>1
      <4> QED BY <1>6, <3>1, <4>1
    <3>2. CASE ~(i <= a)
      <4>1. i - a \in 1 .. c + 1 BY <1>5, <3>2
      <4>2. g[i - a] \in Nat BY <1>7, <4>1
      <4> QED BY <1>4, <3>2, <4>2
    <3> QED BY <3>1, <3>2
  <2> QED BY <2>1
<1>9. tt \in [0 .. a + c -> Nat]
  <2>1. ASSUME NEW i \in 0 .. a + c
        PROVE  (IF i <= a THEN t[i] ELSE h[i - a] + d) \in Nat
    <3>1. CASE i <= a
      <4>1. i \in 0 .. a BY <1>5, <3>1
      <4> QED BY <1>6, <3>1, <4>1
    <3>2. CASE ~(i <= a)
      <4>1. i - a \in 0 .. c BY <1>5, <3>2
      <4>2. h[i - a] \in Nat BY <1>7, <4>1
      <4> QED BY <1>4, <3>2, <4>2
    <3> QED BY <3>1, <3>2
  <2> QED BY <2>1
<1>10. /\ \A i \in 1 .. a : ff[i] = f[i]
       /\ \A i \in 1 .. c + 1 : ff[a + i] = g[i] + d
       /\ \A i \in 0 .. a : tt[i] = t[i]
       /\ \A i \in 1 .. c : tt[a + i] = h[i] + d
  <2>1. \A i \in 1 .. a : i \in 1 .. a + c + 1 /\ i <= a BY <1>5
  <2>2. \A i \in 1 .. c + 1 : a + i \in 1 .. a + c + 1 /\ ~(a + i <= a) /\ a + i - a = i
    BY <1>5
  <2>3. \A i \in 0 .. a : i \in 0 .. a + c /\ i <= a BY <1>5
  <2>4. \A i \in 1 .. c : a + i \in 0 .. a + c /\ ~(a + i <= a) /\ a + i - a = i
    BY <1>5
  <2>5. \A i \in 1 .. a : ff[i] = f[i] BY <2>1
  <2>6. ASSUME NEW i \in 1 .. c + 1 PROVE ff[a + i] = g[i] + d
    <3>1. PICK j : j = a + i OBVIOUS
    <3>2. j \in 1 .. a + c + 1 /\ ~(j <= a) /\ j - a = i BY <1>5, <3>1
    <3> QED BY <3>1, <3>2
  <2>7. \A i \in 0 .. a : tt[i] = t[i] BY <2>3
  <2>8. ASSUME NEW i \in 1 .. c PROVE tt[a + i] = h[i] + d
    <3>1. PICK j : j = a + i OBVIOUS
    <3>2. j \in 0 .. a + c /\ ~(j <= a) /\ j - a = i BY <1>5, <3>1
    <3> QED BY <3>1, <3>2
  <2> QED BY <2>5, <2>6, <2>7, <2>8
<1> HIDE DEF ff, tt
<1>11. tt[0] = 1 /\ ff[a + c + 1] = Len(v) + 1
  <2>1. tt[0] = 1
    <3>1. 0 \in 0 .. a BY <1>5
    <3> QED BY <1>1, <1>10, <3>1 DEF Laid
  <2>2. a + (c + 1) = a + c + 1 /\ c + 1 \in 1 .. c + 1 BY <1>5
  <2>3. g[c + 1] = Len(u) + 1 BY <1>2, <1>3 DEF Laid
  <2>4. ff[a + c + 1] = Len(u) + 1 + d BY <1>10, <2>2, <2>3
  <2> QED BY <1>4, <2>1, <2>4
<1>12. \A p \in 1 .. Len(u) : v[p + d] = u[p] BY <1>4
<1>13. ASSUME NEW i \in 0 .. a + c
       PROVE  tt[i] <= ff[i + 1] /\ \A p \in tt[i] .. ff[i + 1] - 1 : v[p] \in Blank
  <2>1. CASE i < a
    <3>1. i \in 0 .. a /\ i + 1 \in 1 .. a /\ i + 1 \in 1 .. a + 1 BY <1>5, <2>1
    <3>2. PICK x, y : x = t[i] /\ y = f[i + 1] OBVIOUS
    <3>3. tt[i] = x /\ ff[i + 1] = y BY <1>10, <3>1, <3>2
    <3>4. x <= y /\ \A p \in x .. y - 1 : s[p] \in Blank
      BY <1>1, <1>3, <3>1, <3>2 DEF Laid
    <3>5. x \in Nat /\ y \in Nat /\ 1 <= x /\ y <= d + 1 BY <1>6, <3>1, <3>2
    <3>6. \A p \in x .. y - 1 : p \in 1 .. d BY <1>4, <3>5
    <3> QED BY <1>4, <3>3, <3>4, <3>6
  <2>2. CASE i = a
    <3>1. a \in 0 .. a /\ 0 \in 0 .. c /\ 1 \in 1 .. c + 1 /\ a + 1 \in 1 .. a + 1
          /\ 0 + 1 = 1
      BY <1>5
    <3>2. PICK x, y : x = t[a] /\ y = g[1] OBVIOUS
    <3>3. tt[i] = x /\ ff[i + 1] = y + d BY <1>10, <2>2, <3>1, <3>2
    <3>4. f[a + 1] = d + 1 /\ h[0] = 1 BY <1>1, <1>2, <1>3 DEF Laid
    <3>5. \A p \in x .. d + 1 - 1 : s[p] \in Blank
      BY <1>1, <1>3, <3>1, <3>2, <3>4 DEF Laid
    <3>6. \A p \in 1 .. y - 1 : u[p] \in Blank
      <4>1. \A p \in h[0] .. g[0 + 1] - 1 : u[p] \in Blank
        BY <1>2, <1>3, <3>1 DEF Laid
      <4> QED BY <3>1, <3>2, <3>4, <4>1
    <3>7. x \in Nat /\ 1 <= x /\ x <= d + 1 /\ y \in Nat /\ 1 <= y /\ y <= Len(u) + 1
      BY <1>6, <1>7, <3>1, <3>2
    <3>8. x <= y + d BY <1>4, <3>7
    <3>9. ASSUME NEW p \in x .. y + d - 1 PROVE v[p] \in Blank
      <4>1. CASE p <= d
        <5>1. p \in 1 .. d /\ p \in x .. d + 1 - 1 BY <1>4, <3>7, <4>1
        <5> QED BY <1>4, <3>5, <5>1
      <4>2. CASE ~(p <= d)
        <5>1. PICK q : q = p - d OBVIOUS
        <5>2. q \in 1 .. y - 1 /\ q \in 1 .. Len(u) /\ q + d = p
          BY <1>4, <3>7, <4>2, <5>1
        <5> QED BY <1>12, <3>6, <5>2
      <4> QED BY <4>1, <4>2
    <3>10. tt[i] <= ff[i + 1] BY <3>3, <3>8
    <3>11. ASSUME NEW p \in tt[i] .. ff[i + 1] - 1 PROVE v[p] \in Blank
      <4>1. PICK z : z = y + d OBVIOUS
      <4>2. p \in x .. z - 1 BY <3>3, <4>1
      <4>3. p \in x .. y + d - 1 BY <1>4, <3>7, <4>1, <4>2
      <4> QED BY <3>9, <4>3
    <3> QED BY <3>10, <3>11
  <2>3. CASE i > a
    <3>1. PICK j : j = i - a OBVIOUS
    <3>2. /\ j \in 1 .. c /\ j \in 0 .. c /\ j + 1 \in 1 .. c + 1
          /\ a + j = i /\ a + (j + 1) = i + 1
      BY <1>5, <2>3, <3>1
    <3>3. PICK x, y : x = h[j] /\ y = g[j + 1] OBVIOUS
    <3>4. tt[i] = x + d /\ ff[i + 1] = y + d BY <1>10, <3>2, <3>3
    <3>5. x <= y /\ \A p \in x .. y - 1 : u[p] \in Blank
      BY <1>2, <1>3, <3>2, <3>3 DEF Laid
    <3>6. x \in Nat /\ 1 <= x /\ y \in Nat /\ y <= Len(u) + 1 BY <1>7, <3>2, <3>3
    <3>7. \A p \in x + d .. y + d - 1 : v[p] \in Blank
      BY <1>4, <1>12, <3>5, <3>6, GapMoves
    <3>8. x + d <= y + d BY <1>4, <3>5, <3>6
    <3>10. tt[i] <= ff[i + 1] BY <3>4, <3>8
    <3>11. ASSUME NEW p \in tt[i] .. ff[i + 1] - 1 PROVE v[p] \in Blank
      <4>1. PICK z : z = y + d OBVIOUS
      <4>2. p \in x + d .. z - 1 BY <3>4, <4>1
      <4>3. p \in x + d .. y + d - 1 BY <1>4, <3>6, <4>1, <4>2
      <4> QED BY <3>7, <4>3
    <3> QED BY <3>10, <3>11
  <2> QED BY <1>5, <2>1, <2>2, <2>3
<1>14. ASSUME NEW i \in 1 .. a + c PROVE Spelt(v, ff[i], tt[i], w[i])
  <2>1. CASE i <= a
    <3>1. i \in 1 .. a /\ i \in 0 .. a BY <1>5, <2>1
    <3>2. PICK x, y, tok : x = f[i] /\ y = t[i] /\ tok = m[i] OBVIOUS
    <3>3. ff[i] = x /\ tt[i] = y /\ w[i] = tok BY <1>5, <1>10, <3>1, <3>2
    <3>4. Spelt(s, x, y, tok) BY <1>1, <1>3, <3>1, <3>2 DEF Laid
    <3>5. 0 \in Nat /\ Len(s) \in Nat /\ Len(v) \in Nat /\ Len(s) + 0 <= Len(v)
      BY <1>3, <1>4
    <3>6. \A p \in 1 .. Len(s) : v[p + 0] = s[p]
      <4>1. \A p \in 1 .. Len(s) : p + 0 = p OBVIOUS
      <4> QED BY <1>3, <1>4, <4>1
    <3>7. Spelt(v, x + 0, y + 0, tok) BY <3>4, <3>5, <3>6, SpeltMoves
    <3>8. x + 0 = x /\ y + 0 = y BY <1>1, <1>3, <3>1, <3>2, <3>4 DEF Spelt
    <3> QED BY <3>3, <3>7, <3>8
  <2>2. CASE ~(i <= a)
    <3>1. PICK j : j = i - a OBVIOUS
    <3>2. j \in 1 .. c /\ j \in 1 .. c + 1 /\ a + j = i BY <1>5, <2>2, <3>1
    <3>3. PICK x, y, tok : x = g[j] /\ y = h[j] /\ tok = n[j] OBVIOUS
    <3>4. ff[i] = x + d /\ tt[i] = y + d /\ w[i] = tok BY <1>5, <1>10, <3>2, <3>3
    <3>5. Spelt(u, x, y, tok) BY <1>2, <1>3, <3>2, <3>3 DEF Laid
    <3>6. Len(u) + d <= Len(v) /\ Len(v) \in Nat BY <1>4
    <3>7. Spelt(v, x + d, y + d, tok) BY <1>4, <1>12, <3>5, <3>6, SpeltMoves
    <3> QED BY <3>4, <3>7
  <2> QED BY <2>1, <2>2
<1>15. Laid(v, w, ff, tt)
  <2>1. Len(w) + 1 = a + c + 1 /\ Len(w) = a + c BY <1>5
  <2> QED BY <1>8, <1>9, <1>11, <1>13, <1>14, <2>1 DEF Laid
<1> QED BY <1>3, <1>15 DEF LaidOut

(* White space alone, and one token alone. *)
LEMMA BlankLaid ==
    ASSUME NEW s, Len(s) \in Nat, \A p \in 1 .. Len(s) : s[p] \in Blank
    PROVE  LaidOut(s, <<>>)
<1>1. Len(<<>>) = 0 /\ 0 + 1 = 1 OBVIOUS
<1> DEFINE f == [i \in 1 .. 1 |-> Len(s) + 1]
           t == [i \in 0 .. 0 |-> 1]
<1>2. f \in [1 .. 1 -> Nat] /\ t \in [0 .. 0 -> Nat] OBVIOUS
<1>3. f[1] = Len(s) + 1 /\ t[0] = 1 OBVIOUS
<1> HIDE DEF f, t
<1>4. \A i \in 0 .. 0 : i = 0 OBVIOUS
<1>5. 1 <= Len(s) + 1 /\ \A p \in 1 .. Len(s) + 1 - 1 : s[p] \in Blank OBVIOUS
<1>6. \A i \in 0 .. 0 : t[i] <= f[i + 1] /\ \A p \in t[i] .. f[i + 1] - 1 : s[p] \in Blank
  BY <1>1, <1>3, <1>4, <1>5
<1>7. \A i \in 1 .. 0 : FALSE OBVIOUS
<1>8. Laid(s, <<>>, f, t) BY <1>1, <1>2, <1>3, <1>6, <1>7 DEF Laid
<1> QED BY <1>8 DEF LaidOut

(* A text that is one token. *)
LEMMA TokenLaid ==
    ASSUME NEW s, Len(s) \in Nat, NEW tok, Spelt(s, 1, Len(s) + 1, tok)
    PROVE  LaidOut(s, <<tok>>)
<1>1. Len(<<tok>>) = 1 /\ 0 + 1 = 1 /\ 1 + 1 = 2 /\ <<tok>>[1] = tok OBVIOUS
<1> DEFINE f == [i \in 1 .. 2 |-> IF i = 1 THEN 1 ELSE Len(s) + 1]
           t == [i \in 0 .. 1 |-> IF i = 0 THEN 1 ELSE Len(s) + 1]
<1>2. f \in [1 .. 2 -> Nat] /\ t \in [0 .. 1 -> Nat] OBVIOUS
<1>3. f[1] = 1 /\ f[2] = Len(s) + 1 /\ t[0] = 1 /\ t[1] = Len(s) + 1 OBVIOUS
<1> HIDE DEF f, t
<1>4. ASSUME NEW i \in 0 .. 1
      PROVE  t[i] <= f[i + 1] /\ \A p \in t[i] .. f[i + 1] - 1 : s[p] \in Blank
  <2>1. CASE i = 0
    <3>1. t[i] = 1 /\ f[i + 1] = 1 BY <1>1, <1>3, <2>1
    <3>2. \A p \in 1 .. 1 - 1 : FALSE OBVIOUS
    <3> QED BY <3>1, <3>2
  <2>2. CASE i = 1
    <3>1. t[i] = Len(s) + 1 /\ f[i + 1] = Len(s) + 1 BY <1>1, <1>3, <2>2
    <3>2. \A p \in Len(s) + 1 .. Len(s) + 1 - 1 : FALSE OBVIOUS
    <3> QED BY <3>1, <3>2
  <2> QED BY <2>1, <2>2
<1>5. \A i \in 1 .. 1 : i = 1 OBVIOUS
<1>6. \A i \in 1 .. 1 : Spelt(s, f[i], t[i], <<tok>>[i]) BY <1>1, <1>3, <1>5
<1>7. Laid(s, <<tok>>, f, t) BY <1>1, <1>2, <1>3, <1>4, <1>6 DEF Laid
<1> QED BY <1>7 DEF LaidOut

(* The characters of a text, and those the serializer writes of its own.    *)
Marks == {"N", "o", "n", "e", "t", "r", "u", "f", "a", "l", "s", "(", ")", ",",
          "#", " ", "x", "0", "1", NL, Quote, Backslash}
Char == (STRING \cup Marks) \ {End}

(* Parts of characters make a text of characters. *)
LEMMA FlatsTyped ==
    ASSUME NEW V, NEW q, Len(q) \in Nat, \A i \in 1 .. Len(q) : q[i] \in Seq(V),
           NEW f, Flats(f, q)
    PROVE  \A i \in 1 .. Len(q) : f[i] \in Seq(V)
<1> DEFINE S == {k \in 0 .. Len(q) : k > 0 => f[k] \in Seq(V)}
<1>1. 0 \in S OBVIOUS
<1>2. ASSUME NEW k \in 0 .. Len(q), k < Len(q), k \in S PROVE k + 1 \in S
  <2>1. PICK j : j = k + 1 OBVIOUS
  <2>2. j \in 0 .. Len(q) /\ j \in 1 .. Len(q) /\ j - 1 = k BY <1>2, <2>1
  <2>3. f[j] = IF j = 1 THEN q[j] ELSE f[k] \o q[j] BY <2>2 DEF Flats
  <2>4. q[j] \in Seq(V) BY <2>2
  <2>5. CASE j = 1 BY <2>1, <2>2, <2>3, <2>4, <2>5
  <2>6. CASE j # 1
    <3>1. k > 0 BY <2>1, <2>2, <2>6
    <3>2. PICK a \in Seq(V), b \in Seq(V) : a = f[k] /\ b = q[j]
      BY <1>2, <2>4, <3>1
    <3>3. a \o b \in Seq(V) BY ConcatProperties
    <3> QED BY <2>1, <2>2, <2>3, <2>6, <3>2, <3>3
  <2> QED BY <2>5, <2>6
<1>3. \A k \in 0 .. Len(q) : k \in S
  <2> HIDE DEF S
  <2> QED BY <1>1, <1>2, Counting
<1> TAKE i \in 1 .. Len(q)
<1>4. i \in 0 .. Len(q) /\ i > 0 OBVIOUS
<1> QED BY <1>3, <1>4

-----------------------------------------------------------------------------
(* The pieces of a text *)

(* What is written of a character are characters. *)
LEMMA WrittenTyped == ASSUME NEW c \in Char PROVE Written(c) \in Seq(Char)
<1>1. "n" \in Char /\ "t" \in Char /\ "r" \in Char /\ "x" \in Char /\ "0" \in Char
      /\ "1" \in Char /\ Backslash \in Char
  BY DEF Char, End, Backslash, Marks
<1>2. \A x, y \in Char : <<x, y>> \in Seq(Char) OBVIOUS
<1>3. \A x, y, z, v \in Char : <<x, y, z, v>> \in Seq(Char) OBVIOUS
<1>4. Hex \in Seq(Char) BY <1>1, <1>3 DEF Hex
<1>5. <<c>> \in Seq(Char) OBVIOUS
<1>6. \/ Written(c) \in {<<Backslash, "n">>, <<Backslash, "t">>, <<Backslash, "r">>}
      \/ Written(c) = <<Backslash, c>> \/ Written(c) = Hex \/ Written(c) = <<c>>
  BY DEF Written
<1> QED BY <1>1, <1>2, <1>4, <1>5, <1>6

(* u is the t[j] written one behind the other, the j-th from c[j - 1] on. *)
Parts(u, c, t) ==
    /\ c \in [0 .. Len(t) -> Nat] /\ c[0] = 0 /\ c[Len(t)] = Len(u)
    /\ \A j \in 1 .. Len(t) :
         /\ c[j] = c[j - 1] + Len(Written(t[j])) /\ c[j] <= Len(u)
         /\ \A p \in 1 .. Len(Written(t[j])) : u[c[j - 1] + p] = Written(t[j])[p]

(* What serialize_string writes is laid out as one string. *)
LEMMA QuotedLaid ==
    ASSUME NEW t \in Seq(Char)
    PROVE  /\ Quoted(t) \in Seq(Char)
           /\ LaidOut(Quoted(t), <<<<"string", t>>>>)
<1>1. PICK n : n = Len(t) OBVIOUS
<1>2. n \in Nat /\ DOMAIN t = 1 .. n /\ \A i \in 1 .. n : t[i] \in Char BY <1>1
<1>3. PICK q : q = [i \in DOMAIN t |-> Written(t[i])] OBVIOUS
<1>4. \A i \in 1 .. n : q[i] = Written(t[i]) /\ q[i] \in Seq(Char)
  BY <1>2, <1>3, WrittenTyped
<1>5. q \in Seq(Seq(Char)) /\ Len(q) = n BY <1>2, <1>3, <1>4
<1>6. PICK k : k = <<Quote>> OBVIOUS
<1>7. k \in Seq(Char) /\ IsSeq(k) /\ Len(k) = 1 /\ k[1] = Quote
  <2>1. Quote \in Char BY DEF Quote, Char, End, Marks
  <2> QED BY <1>6, <2>1, OneLong
(* What lies between the quotes, and the places of its parts. *)
<1>8. \E u, c : u \in Seq(Char) /\ FlattenSeq(q) = u /\ Parts(u, c, t)
  <2>1. CASE n = 0
    <3>1. q = <<>> BY <1>5, <2>1
    <3>2. FlattenSeq(q) = <<>> BY <1>5, <2>1, <3>1 DEF FlattenSeq
    <3>3. <<>> \in Seq(Char) /\ Len(<<>>) = 0 OBVIOUS
    <3> DEFINE c == [j \in 0 .. 0 |-> 0]
    <3>4. c \in [0 .. n -> Nat] /\ c[0] = 0 /\ c[n] = Len(<<>>) BY <2>1, <3>3
    <3> HIDE DEF c
    <3>5. \A j \in 1 .. n : FALSE BY <2>1
    <3>6. Parts(<<>>, c, t) BY <1>1, <3>4, <3>5 DEF Parts
    <3> QED BY <3>2, <3>3, <3>6
  <2>2. CASE n # 0
    <3>1. PICK f : Flats(f, q) /\ FlattenSeq(q) = f[n] BY <1>2, <1>5, <2>2, FlattenIs
    <3>2. \A i \in 1 .. n : IsSeq(q[i]) BY <1>4 DEF IsSeq
    <3>3. \A i \in 1 .. n :
             /\ IsSeq(f[i]) /\ Len(f[i]) \in Nat
             /\ i > 1 => Len(f[i]) = Len(f[i - 1]) + Len(q[i])
             /\ i = 1 => f[i] = q[i]
             /\ i > 1 => \A p \in 1 .. Len(q[i]) : f[i][Len(f[i - 1]) + p] = q[i][p]
             /\ Len(f[i]) <= Len(f[n])
             /\ \A p \in 1 .. Len(f[i]) : f[n][p] = f[i][p]
      <4>1. Len(q) = n /\ Len(q) \in Nat /\ \A i \in 1 .. Len(q) : IsSeq(q[i])
        BY <1>2, <1>5, <3>2
      <4>2. Growing(f, q)
        <5>1. Flats(f, q) BY <3>1
        <5> QED BY <4>1, <5>1, FlatsGrow
      <4> QED BY <4>1, <4>2 DEF Growing
    <3>4. PICK u : u = f[n] OBVIOUS
    <3>5. n \in 1 .. n BY <1>2, <2>2
    <3>6. u \in Seq(Char)
      <4>1. \A i \in 1 .. n : f[i] \in Seq(Char) BY <1>2, <1>4, <1>5, <3>1, FlatsTyped
      <4> QED BY <3>4, <3>5, <4>1
    <3> DEFINE c == [j \in 0 .. n |-> IF j = 0 THEN 0 ELSE Len(f[j])]
    <3>7. c \in [0 .. n -> Nat]
      <4>1. \A j \in 0 .. n : j = 0 \/ j \in 1 .. n BY <1>2
      <4> QED BY <3>3, <4>1
    <3>8. c[0] = 0 /\ \A j \in 1 .. n : c[j] = Len(f[j])
      <4>1. 0 \in 0 .. n /\ \A j \in 1 .. n : j \in 0 .. n /\ j # 0 BY <1>2
      <4> QED BY <4>1
    <3> HIDE DEF c
    <3>9. ASSUME NEW j \in 1 .. n
          PROVE  /\ c[j] = c[j - 1] + Len(Written(t[j])) /\ c[j] <= Len(u)
                 /\ \A p \in 1 .. Len(Written(t[j])) :
                      u[c[j - 1] + p] = Written(t[j])[p]
      <4>1. PICK w : w = Written(t[j]) OBVIOUS
      <4>2. q[j] = w /\ Len(w) \in Nat
        <5>1. w \in Seq(Char) BY <1>2, <4>1, WrittenTyped
        <5> QED BY <1>4, <4>1, <5>1
      <4>3. PICK b : b = c[j - 1] OBVIOUS
      <4>4. PICK g : g = f[j] OBVIOUS
      <4>5. /\ b \in Nat /\ Len(g) = b + Len(w)
            /\ \A p \in 1 .. Len(w) : g[b + p] = w[p]
        <5>1. CASE j = 1
          <6>1. b = 0 /\ g = w
            <7>1. j - 1 = 0 BY <5>1
            <7> QED BY <3>3, <3>8, <4>2, <4>3, <4>4, <5>1, <7>1
          <6>2. \A p \in 1 .. Len(w) : 0 + p = p BY <4>2
          <6> QED BY <4>2, <6>1, <6>2
        <5>2. CASE j # 1
          <6>1. j > 1 /\ j - 1 \in 1 .. n BY <1>2, <5>2
          <6>2. b = Len(f[j - 1]) /\ b \in Nat BY <3>3, <3>8, <4>3, <6>1
          <6> QED BY <3>3, <4>2, <4>4, <6>1, <6>2
        <5> QED BY <5>1, <5>2
      <4>6. c[j] = Len(g) /\ Len(g) <= Len(u) /\ \A p \in 1 .. Len(g) : u[p] = g[p]
        BY <3>3, <3>4, <3>8, <4>4
      <4>7. \A p \in 1 .. Len(w) : b + p \in 1 .. Len(g) BY <4>2, <4>5
      <4>8. \A p \in 1 .. Len(w) : u[b + p] = w[p] BY <4>5, <4>6, <4>7
      <4> QED BY <4>1, <4>3, <4>5, <4>6, <4>8
    <3>10. c[n] = Len(u) BY <3>4, <3>5, <3>8
    <3>11. FlattenSeq(q) = u BY <3>1, <3>4
    <3>12. c[0] = 0 BY <3>8
    <3>13. Parts(u, c, t) BY <1>1, <3>7, <3>9, <3>10, <3>12 DEF Parts
    <3> QED BY <3>6, <3>11, <3>13
  <2> QED BY <2>1, <2>2
<1>90. PICK u, c : u \in Seq(Char) /\ FlattenSeq(q) = u /\ Parts(u, c, t) BY <1>8
<1>9. /\ u \in Seq(Char) /\ FlattenSeq(q) = u
      /\ c \in [0 .. n -> Nat] /\ c[0] = 0 /\ c[n] = Len(u)
      /\ \A j \in 1 .. n :
           /\ c[j] = c[j - 1] + Len(Written(t[j])) /\ c[j] <= Len(u)
           /\ \A p \in 1 .. Len(Written(t[j])) : u[c[j - 1] + p] = Written(t[j])[p]
  BY <1>1, <1>90 DEF Parts
<1>10. PICK x, s : x = k \o u /\ s = x \o k OBVIOUS
<1>11. Quoted(t) = s BY <1>3, <1>6, <1>9, <1>10 DEF Quoted
<1>12. PICK l : l = Len(u) OBVIOUS
<1>13. IsSeq(u) /\ l \in Nat BY <1>9, <1>12 DEF IsSeq
<1>14. /\ IsSeq(x) /\ Len(x) = 1 + l /\ x[1] = Quote
       /\ \A p \in 1 .. l : x[1 + p] = u[p]
  <2>1. /\ IsSeq(k \o u) /\ Len(k \o u) = Len(k) + Len(u)
        /\ \A p \in 1 .. Len(k) : (k \o u)[p] = k[p]
        /\ \A p \in 1 .. Len(u) : (k \o u)[Len(k) + p] = u[p]
    <3>1. IsSeq(k) /\ IsSeq(u) BY <1>7, <1>13
    <3> QED BY <3>1, Joined
  <2>2. 1 \in 1 .. Len(k) BY <1>7
  <2> QED BY <1>7, <1>10, <1>12, <2>1, <2>2
<1>15. /\ Len(s) = l + 2 /\ s[1] = Quote /\ s[l + 2] = Quote
       /\ \A p \in 1 .. l : s[1 + p] = u[p]
  <2>1. /\ Len(s) = 1 + l + 1 /\ \A p \in 1 .. 1 + l : s[p] = x[p]
        /\ s[1 + l + 1] = k[1]
    <3>1. /\ Len(x \o k) = Len(x) + Len(k)
          /\ \A p \in 1 .. Len(x) : (x \o k)[p] = x[p]
          /\ \A p \in 1 .. Len(k) : (x \o k)[Len(x) + p] = k[p]
      <4>1. IsSeq(x) /\ IsSeq(k) BY <1>7, <1>14
      <4> QED BY <4>1, Joined
    <3>2. 1 \in 1 .. Len(k) BY <1>7
    <3> QED BY <1>7, <1>10, <1>14, <3>1, <3>2
  <2>2. 1 + l + 1 = l + 2 /\ 1 \in 1 .. 1 + l /\ \A p \in 1 .. l : 1 + p \in 1 .. 1 + l
    BY <1>13
  <2> QED BY <1>7, <1>14, <2>1, <2>2
<1>16. s \in Seq(Char)
  <2>1. x \in Seq(Char) BY <1>7, <1>9, <1>10, ConcatProperties
  <2> QED BY <1>7, <1>10, <2>1, ConcatProperties
<1> DEFINE d == [j \in 0 .. n |-> c[j] + 2]
<1>17. d \in [0 .. n -> Nat] BY <1>9
<1>18. \A j \in 0 .. n : d[j] = c[j] + 2 OBVIOUS
<1> HIDE DEF d
<1>19. ASSUME NEW j \in 1 .. n
       PROVE  /\ d[j] = d[j - 1] + Len(Written(t[j]))
              /\ At(s, d[j - 1], Written(t[j]))
  <2>1. PICK w, v, a, b : w = Written(t[j]) /\ v = Len(w) /\ a = c[j - 1] /\ b = c[j]
    OBVIOUS
  <2>2. v \in Nat
    <3>1. w \in Seq(Char) BY <1>2, <2>1, WrittenTyped
    <3> QED BY <2>1, <3>1
  <2>3. j \in 0 .. n /\ j - 1 \in 0 .. n BY <1>2
  <2>4. a \in Nat /\ b \in Nat /\ d[j - 1] = a + 2 /\ d[j] = b + 2
    BY <1>9, <1>18, <2>1, <2>3
  <2>5. b = a + v /\ b <= l /\ \A p \in 1 .. v : u[a + p] = w[p]
    BY <1>9, <1>12, <2>1
  <2>6. d[j] = d[j - 1] + v BY <2>2, <2>4, <2>5
  <2>7. ASSUME NEW p \in 1 .. v PROVE s[d[j - 1] + p - 1] = w[p]
    <3>1. PICK e : e = a + p OBVIOUS
    <3>2. e \in 1 .. l /\ a + 2 + p - 1 = 1 + e BY <1>13, <2>2, <2>4, <2>5, <3>1
    <3>3. s[1 + e] = w[p] BY <1>15, <2>5, <3>1, <3>2
    <3> QED BY <2>4, <3>2, <3>3
  <2>8. At(s, d[j - 1], w) BY <2>1, <2>7 DEF At
  <2> QED BY <2>1, <2>6, <2>8
<1>20. Literal(s, 1, Len(s) + 1, t, d)
  <2>1. 0 \in 0 .. n /\ n \in 0 .. n BY <1>2
  <2>2. d[0] = 1 + 1 /\ d[n] = l + 2 BY <1>9, <1>12, <1>18, <2>1
  <2>3. Len(s) + 1 - 1 = l + 2 BY <1>13, <1>15
  <2>4. d[Len(t)] = Len(s) + 1 - 1 BY <1>1, <2>2, <2>3
  <2>5. s[Len(s) + 1 - 1] = Quote BY <1>15, <2>3
  <2> QED BY <1>1, <1>15, <1>17, <1>19, <2>2, <2>4, <2>5 DEF Literal
<1>21. Spelt(s, 1, Len(s) + 1, <<"string", t>>)
  <2>1. PICK tok : tok = <<"string", t>> OBVIOUS
  <2>2. tok[1] = "string" /\ tok[2] = t BY <2>1
  <2>3. IsSeq(t) BY DEF IsSeq
  <2>4. End \notin {t[j] : j \in 1 .. Len(t)} BY <1>1, <1>2 DEF Char
  <2>5. 1 < Len(s) + 1 /\ Len(s) + 1 \in Nat BY <1>13, <1>15
  <2> QED BY <1>20, <2>1, <2>2, <2>3, <2>4, <2>5 DEF Spelt
<1>22. Len(s) \in Nat BY <1>16
<1>23. LaidOut(s, <<<<"string", t>>>>) BY <1>21, <1>22, TokenLaid
<1> QED BY <1>11, <1>16, <1>23

-----------------------------------------------------------------------------
(* Tokens that cannot run together *)

(* Behind a word or a number comes only what ends it. *)
Wordy(tok) == tok[1] \in {"none", "true", "false", "ident", "integer"}
Closing == {Parens[1], Parens[2], Comma}
Sound(m) ==
    /\ IsSeq(m)
    /\ \A i \in 1 .. Len(m) : i < Len(m) /\ Wordy(m[i]) => m[i + 1] \in Closing

(* One token or none. *)
LEMMA SoundOne == ASSUME NEW tok PROVE Sound(<<tok>>) /\ Sound(<<>>)
<1>1. IsSeq(<<tok>>) /\ Len(<<tok>>) = 1 BY OneLong
<1>2. IsSeq(<<>>) /\ Len(<<>>) = 0 BY DEF IsSeq
<1> QED BY <1>1, <1>2 DEF Sound

(* Behind a word or a number the next sequence closes or is empty. *)
LEMMA SoundJoin ==
    ASSUME NEW m, NEW n, Sound(m), Sound(n),
           \/ n = <<>> \/ n[1] \in Closing
           \/ ~Wordy(m[Len(m)])
    PROVE  Sound(m \o n)
<1>1. IsSeq(m) /\ IsSeq(n) BY DEF Sound
<1>2. PICK w, a, c : w = m \o n /\ a = Len(m) /\ c = Len(n) OBVIOUS
<1>3. /\ IsSeq(w) /\ a \in Nat /\ c \in Nat /\ Len(w) = a + c
      /\ \A i \in 1 .. a : w[i] = m[i]
      /\ \A i \in 1 .. c : w[a + i] = n[i]
  BY <1>1, <1>2, Joined
<1>4. ASSUME NEW i \in 1 .. a + c, i < a + c, Wordy(w[i]) PROVE w[i + 1] \in Closing
  <2>1. CASE i < a
    <3>1. i \in 1 .. a /\ i + 1 \in 1 .. a BY <1>3, <2>1
    <3>2. w[i] = m[i] /\ w[i + 1] = m[i + 1] BY <1>3, <3>1
    <3>3. Wordy(m[i]) BY <1>4, <3>2
    <3>4. m[i + 1] \in Closing BY <1>2, <2>1, <3>1, <3>3 DEF Sound
    <3> QED BY <3>2, <3>4
  <2>2. CASE i = a
    <3>1. a \in 1 .. a /\ 1 \in 1 .. c /\ n # <<>>
      <4>1. c # 0 BY <1>3, <1>4, <2>2
      <4>2. Len(<<>>) = 0 OBVIOUS
      <4> QED BY <1>2, <1>3, <2>2, <4>1, <4>2
    <3>2. w[a] = m[a] /\ w[a + 1] = n[1] BY <1>3, <3>1
    <3>3. Wordy(m[a]) BY <1>4, <2>2, <3>2
    <3>4. n[1] \in Closing BY <1>2, <3>1, <3>3
    <3> QED BY <2>2, <3>2, <3>4
  <2>3. CASE i > a
    <3>1. PICK j : j = i - a OBVIOUS
    <3>2. j \in 1 .. c /\ j + 1 \in 1 .. c /\ a + j = i /\ a + (j + 1) = i + 1 /\ j < c
      BY <1>3, <1>4, <2>3, <3>1
    <3>3. w[i] = n[j] /\ w[i + 1] = n[j + 1] BY <1>3, <3>2
    <3>4. Wordy(n[j]) BY <1>4, <3>3
    <3>5. n[j + 1] \in Closing BY <1>2, <3>2, <3>4 DEF Sound
    <3> QED BY <3>3, <3>5
  <2> QED BY <1>3, <2>1, <2>2, <2>3
<1>5. Sound(w) BY <1>3, <1>4 DEF Sound
<1> QED BY <1>2, <1>5

(* What comes behind an item begins with a comma or a parenthesis. *)
Sep(i, n) == IF i < n THEN <<Comma>> ELSE <<>>

(* The items and what follows each of them. *)
LEMMA ListedSound ==
    ASSUME NEW ms, Len(ms) \in Nat, \A i \in 1 .. Len(ms) : Sound(ms[i])
    PROVE  /\ \A i \in 1 .. Len(ms) + 1 : Sound(Listed(ms)[i])
           /\ \A i \in 1 .. Len(ms) : Sound(Sep(i, Len(ms)) \o Listed(ms)[i + 1])
<1> DEFINE L == Listed(ms)
           n == Len(ms)
           S == {k \in 0 .. n : Sound(L[n + 1 - k])}
<1>1. /\ L[n + 1] = <<Parens[2]>>
      /\ \A i \in 1 .. n : L[i] = ms[i] \o Sep(i, n) \o L[i + 1]
  BY ListedIs DEF Sep
<1> HIDE DEF L
<1>2. 0 \in S
  <2>1. n + 1 - 0 = n + 1 /\ 0 \in 0 .. n OBVIOUS
  <2>2. Sound(L[n + 1]) BY <1>1, SoundOne
  <2> QED BY <2>1, <2>2
<1>3. ASSUME NEW i \in 1 .. n, Sound(L[i + 1])
      PROVE  /\ Sound(Sep(i, n) \o L[i + 1]) /\ Sound(L[i])
  <2>1. PICK a, b, c : a = ms[i] /\ b = Sep(i, n) /\ c = L[i + 1] OBVIOUS
  <2>2. Sound(a) /\ Sound(b) /\ Sound(c)
    <3>1. Sound(b)
      <4>1. b = <<Comma>> \/ b = <<>> BY <2>1 DEF Sep
      <4> QED BY <4>1, SoundOne
    <3> QED BY <1>3, <2>1, <3>1
  <2>5. ASSUME NEW d, d = b \o c, Sound(d), d[1] \in Closing
        PROVE  /\ Sound(Sep(i, n) \o L[i + 1]) /\ Sound(L[i])
    <3>1. Sound(a \o d) BY <2>2, <2>5, SoundJoin
    <3>2. IsSeq(a) /\ IsSeq(b) /\ IsSeq(c) BY <2>2 DEF Sound
    <3>3. (a \o b) \o c = a \o d
      <4>1. (a \o b) \o c = a \o (b \o c) BY <3>2, Grouped
      <4> QED BY <2>5, <4>1
    <3>4. L[i] = (a \o b) \o c BY <1>1, <2>1
    <3>5. Sep(i, n) \o L[i + 1] = d BY <2>1, <2>5
    <3> QED BY <2>5, <3>1, <3>3, <3>4, <3>5
  <2>3. CASE i < n
    <3>1. b = <<Comma>> BY <2>1, <2>3 DEF Sep
    <3>2. IsSeq(b) /\ Len(b) = 1 /\ b[1] = Comma BY <3>1, OneLong
    <3>3. ~Wordy(b[Len(b)])
      <4>1. Comma[1] = "comma" BY DEF Comma
      <4> QED BY <3>2, <4>1 DEF Wordy
    <3>4. Sound(b \o c) BY <2>2, <3>3, SoundJoin
    <3>5. (b \o c)[1] = Comma
      <4>1. 1 \in 1 .. Len(b) BY <3>2
      <4>2. IsSeq(c) BY <2>2 DEF Sound
      <4>3. IsSeq(b) BY <3>2
      <4>4. \A k \in 1 .. Len(b) : (b \o c)[k] = b[k] BY <4>2, <4>3, Joined
      <4> QED BY <3>2, <4>1, <4>4
    <3>6. (b \o c)[1] \in Closing BY <3>5 DEF Closing
    <3>7. PICK d : d = b \o c OBVIOUS
    <3>8. Sound(d) /\ d[1] \in Closing BY <3>4, <3>6, <3>7
    <3> QED BY <2>5, <3>7, <3>8
  <2>4. CASE ~(i < n)
    <3>1. b = <<>> /\ c = <<Parens[2]>>
      <4>1. i + 1 = n + 1 BY <2>4
      <4> QED BY <1>1, <2>1, <2>4, <4>1 DEF Sep
    <3>2. IsSeq(c) /\ c[1] = Parens[2] BY <3>1, OneLong
    <3>3. b \o c = c BY <3>1, <3>2, NoneBeside
    <3>4. (b \o c)[1] \in Closing BY <3>2, <3>3 DEF Closing
    <3>5. Sound(b \o c) BY <2>2, <3>3
    <3>7. PICK d : d = b \o c OBVIOUS
    <3>8. Sound(d) /\ d[1] \in Closing BY <3>4, <3>5, <3>7
    <3> QED BY <2>5, <3>7, <3>8
  <2> QED BY <2>3, <2>4
<1>4. ASSUME NEW k \in 0 .. n, k < n, k \in S PROVE k + 1 \in S
  <2>1. PICK i : i = n - k OBVIOUS
  <2>2. i \in 1 .. n /\ n + 1 - k = i + 1 /\ n + 1 - (k + 1) = i /\ k + 1 \in 0 .. n
    BY <1>4, <2>1
  <2>3. Sound(L[i + 1]) BY <1>4, <2>2
  <2>4. Sound(L[i]) BY <1>3, <2>2, <2>3
  <2> QED BY <2>2, <2>4
<1>5. \A k \in 0 .. n : k \in S
  <2> HIDE DEF S
  <2> QED BY <1>2, <1>4, Counting
<1>6. ASSUME NEW i \in 1 .. n + 1 PROVE Sound(L[i])
  <2>1. PICK k : k = n + 1 - i OBVIOUS
  <2>2. k \in 0 .. n /\ n + 1 - k = i BY <2>1
  <2> QED BY <1>5, <2>2
<1>7. \A i \in 1 .. n : i + 1 \in 1 .. n + 1 OBVIOUS
<1> QED BY <1>3, <1>6, <1>7 DEF L

Inner(o) == [i \in DOMAIN o.items |-> Shown[o.items[i]]]
RestOf(o) == Listed(Inner(o))

(* What is written of an object, from what is written of its items. *)
LEMMA ShownShows == \A o \in Trees : Shown[o] = Shows(o, Inner(o))
BY ShownIs DEF Says, Inner

(* What is written of the items, item by item. *)
LEMMA InnerIs ==
    ASSUME NEW o \in Trees
    PROVE  /\ Len(o.items) \in Nat /\ DOMAIN o.items = 1 .. Len(o.items)
           /\ Len(Inner(o)) = Len(o.items)
           /\ \A i \in 1 .. Len(o.items) : /\ o.items[i] \in Trees
                                           /\ Inner(o)[i] = Shown[o.items[i]]
<1>1. o.items \in Seq(Trees) BY ItemsLower
<1>2. /\ Len(o.items) \in Nat /\ DOMAIN o.items = 1 .. Len(o.items)
      /\ \A i \in 1 .. Len(o.items) : o.items[i] \in Trees
  BY <1>1
<1>3. Inner(o) \in Seq({Shown[p] : p \in Trees}) /\ Len(Inner(o)) = Len(o.items)
  BY <1>2 DEF Inner
<1>4. \A i \in 1 .. Len(o.items) : Inner(o)[i] = Shown[o.items[i]]
  BY <1>2 DEF Inner
<1> QED BY <1>2, <1>3, <1>4

(* A sequence of two elements. *)
LEMMA TwoLong ==
    ASSUME NEW x, NEW y PROVE IsSeq(<<x, y>>) /\ <<x, y>> = <<x>> \o <<y>>
<1>1. PICK S : S = {x, y} OBVIOUS
<1>2. <<x, y>> \in Seq(S) /\ <<x>> \in Seq(S) /\ <<y>> \in Seq(S) BY <1>1
<1>3. <<x, y>> = <<x>> \o <<y>>
  <2>1. PICK a, b, w : a = <<x>> /\ b = <<y>> /\ w = a \o b OBVIOUS
  <2>2. IsSeq(a) /\ IsSeq(b) /\ Len(a) = 1 /\ Len(b) = 1 /\ a[1] = x /\ b[1] = y
    BY <2>1, OneLong
  <2>3. /\ Len(w) = Len(a) + Len(b)
        /\ \A i \in 1 .. Len(a) : w[i] = a[i]
        /\ \A i \in 1 .. Len(b) : w[Len(a) + i] = b[i]
    <3>1. IsSeq(a) /\ IsSeq(b) BY <2>2
    <3> QED BY <2>1, <3>1, Joined
  <2>4. 1 \in 1 .. 1 /\ 1 + 1 = 2 OBVIOUS
  <2>5. Len(w) = 2 /\ w[1] = x /\ w[2] = y BY <2>2, <2>3, <2>4
  <2>6. w \in Seq(S) BY <1>2, <2>1, ConcatProperties
  <2>7. PICK v : v = <<x, y>> OBVIOUS
  <2>8. v \in Seq(S) /\ Len(v) = 2 /\ v[1] = x /\ v[2] = y BY <1>2, <2>7
  <2>9. v = [i \in 1 .. 2 |-> v[i]] /\ w = [i \in 1 .. 2 |-> w[i]]
    BY <2>5, <2>6, <2>8
  <2>10. \A i \in 1 .. 2 : i = 1 \/ i = 2 OBVIOUS
  <2>11. \A i \in 1 .. 2 : v[i] = w[i] BY <2>5, <2>8, <2>10
  <2>12. v = w BY <2>9, <2>11
  <2> QED BY <2>1, <2>7, <2>12
<1> QED BY <1>2, <1>3 DEF IsSeq

LEMMA SoundTwo ==
    ASSUME NEW x, NEW y, ~Wordy(x) \/ y \in Closing
    PROVE  Sound(<<x, y>>)
<1>1. PICK m, n : m = <<x>> /\ n = <<y>> OBVIOUS
<1>2. Sound(m) /\ Sound(n) /\ m[Len(m)] = x /\ n[1] = y BY <1>1, SoundOne, OneLong
<1>3. Sound(m \o n) BY <1>2, SoundJoin
<1> QED BY <1>1, <1>3, TwoLong

(* The parentheses of a map. *)
LEMMA ParensSound ==
    Sound(Parens) /\ Parens[1] \in Closing /\ Parens = <<Parens[1]>> \o <<Parens[2]>>
<1>1. PICK x, y : x = <<"lparen", <<"(">>>> /\ y = <<"rparen", <<")">>>> OBVIOUS
<1>2. Parens = <<x, y>> BY <1>1 DEF Parens
<1>3. Parens[1] = x /\ Parens[2] = y BY <1>2
<1>4. ~Wordy(x) BY <1>1 DEF Wordy
<1> QED BY <1>2, <1>3, <1>4, SoundTwo, TwoLong DEF Closing

(* Words and numbers are ended by a comma, a parenthesis or the end. *)
LEMMA ShownSound == \A o \in Trees : Sound(Shown[o])
<1> DEFINE T == {h \in Nat : \E p \in Trees : Height[p] = h /\ ~Sound(Shown[p])}
<1>1. SUFFICES ASSUME T # {} PROVE FALSE
  <2>1. \A o \in Trees : Height[o] \in Nat BY ItemsLower
  <2> QED BY <2>1
<1>2. PICK h \in T : \A x \in T : h <= x
  <2>1. T \subseteq Nat OBVIOUS
  <2> HIDE DEF T
  <2> QED BY <1>1, <2>1, Least
<1>3. PICK o \in Trees : Height[o] = h /\ ~Sound(Shown[o]) BY <1>2
<1>4. ASSUME NEW i \in 1 .. Len(o.items) PROVE Sound(Shown[o.items[i]])
  <2>1. PICK q : q = o.items[i] OBVIOUS
  <2>2. i \in DOMAIN o.items BY InnerIs
  <2>3. q \in Trees /\ Height[q] \in Nat /\ Height[q] < h
    BY <1>3, <2>1, <2>2, ItemsLower
  <2>4. Height[q] \notin T
    <3>1. ~(h <= Height[q]) BY <1>2, <2>3
    <3> HIDE DEF T
    <3> QED BY <1>2, <3>1
  <2> QED BY <2>1, <2>3, <2>4
<1>5. PICK ms : ms = Inner(o) OBVIOUS
<1>6. Len(ms) \in Nat /\ \A i \in 1 .. Len(ms) : Sound(ms[i])
  BY <1>4, <1>5, InnerIs
<1>7. Sound(Listed(ms)[1])
  <2>1. 1 \in 1 .. Len(ms) + 1 BY <1>6
  <2> QED BY <1>6, <2>1, ListedSound
<1>8. Shown[o] = Shows(o, ms) BY <1>5, ShownShows
<1>9. CASE o.type \in {"integer", "float"}
  <2>1. PICK x : x = <<"minus", <<"-">>>> OBVIOUS
  <2>2. ~Wordy(x) BY <2>1 DEF Wordy
  <2>3. \/ Shown[o] = <<x, <<"integer", Tail(o.text)>>>>
        \/ Shown[o] = <<<<"integer", o.text>>>>
    BY <1>8, <1>9, <2>1 DEF Shows, Stands
  <2>4. Sound(<<x, <<"integer", Tail(o.text)>>>>) BY <2>2, SoundTwo
  <2> QED BY <1>3, <2>3, <2>4, SoundOne
<1>10. CASE o.type = "array"
  <2>1. Shown[o] = <<Parens[1]>> \o Listed(ms)[1] BY <1>8, <1>10 DEF Shows, Stands
  <2>2. PICK m, n : m = <<Parens[1]>> /\ n = Listed(ms)[1] OBVIOUS
  <2>3. Sound(m) /\ Sound(n) /\ m[Len(m)] = Parens[1] BY <1>7, <2>2, SoundOne, OneLong
  <2>4. ~Wordy(Parens[1]) BY DEF Parens, Wordy
  <2>5. Sound(m \o n) BY <2>3, <2>4, SoundJoin
  <2> QED BY <1>3, <2>1, <2>2, <2>5
<1>11. CASE o.type = "instance"
  <2>1. PICK h1, x : h1 = <<"hash", <<"#">>>> /\ x = <<"ident", o.text>> OBVIOUS
  <2>2. Shown[o] = <<h1>> \o (IF o.text = <<>> THEN <<>> ELSE <<x>>) \o Parens
    BY <1>8, <1>11, <2>1 DEF Shows, Stands
  <2>3. ~Wordy(h1) BY <2>1 DEF Wordy
  <2>4. PICK m, n : m = <<h1>> /\ n = IF o.text = <<>> THEN <<>> ELSE <<x>> OBVIOUS
  <2>5. n = <<>> \/ n = <<x>> BY <2>4
  <2>6. Sound(m) /\ Sound(n) /\ m[Len(m)] = h1 BY <2>4, <2>5, SoundOne, OneLong
  <2>7. Sound(m \o n) BY <2>3, <2>6, SoundJoin
  <2>8. Sound((m \o n) \o Parens) BY <2>7, ParensSound, SoundJoin
  <2> QED BY <1>3, <2>2, <2>4, <2>8
<1>12. CASE o.type = "map"
  <2>1. Shown[o] = Parens BY <1>8, <1>12 DEF Shows, Stands
  <2> QED BY <1>3, <2>1, ParensSound
<1>13. CASE o.type \notin {"integer", "float", "array", "instance", "map"}
  <2>1. Shown[o] = <<>> \/ \E tok : Shown[o] = <<tok>> BY <1>8, <1>13 DEF Shows, Stands
  <2> QED BY <1>3, <2>1, SoundOne
<1> QED BY <1>9, <1>10, <1>11, <1>12, <1>13

(* What is left of an array, round by round. *)
LEMMA RestSound ==
    ASSUME NEW o \in Trees
    PROVE  /\ \A i \in 1 .. Len(o.items) + 1 : Sound(RestOf(o)[i])
           /\ RestOf(o)[Len(o.items) + 1] = <<Parens[2]>>
           /\ \A i \in 1 .. Len(o.items) :
                RestOf(o)[i] = Shown[o.items[i]] \o Sep(i, Len(o.items))
                                 \o RestOf(o)[i + 1]
<1>1. PICK ms : ms = Inner(o) OBVIOUS
<1>2. Len(ms) \in Nat /\ Len(ms) = Len(o.items) BY <1>1, InnerIs
<1>3. \A i \in 1 .. Len(ms) : ms[i] = Shown[o.items[i]] /\ Sound(ms[i])
  BY <1>1, <1>2, InnerIs, ShownSound
<1>4. \A i \in 1 .. Len(ms) + 1 : Sound(Listed(ms)[i]) BY <1>2, <1>3, ListedSound
<1>5. /\ Listed(ms)[Len(ms) + 1] = <<Parens[2]>>
      /\ \A i \in 1 .. Len(ms) :
           Listed(ms)[i] = ms[i] \o Sep(i, Len(ms)) \o Listed(ms)[i + 1]
  BY <1>2, ListedIs DEF Sep
<1> QED BY <1>1, <1>2, <1>3, <1>4, <1>5 DEF RestOf

-----------------------------------------------------------------------------
(* What the steps that are left write *)

(* A step writes what a begins with and leaves b. *)
Writes(x, m) == x.text \in Seq(Char) /\ LaidOut(x.text, m) /\ (~x.checked => m = <<>>)
Fits(x, a, b) ==
    /\ IsSeq(a) /\ IsSeq(b)
    /\ \/ x.do = "append" /\ \E m : IsSeq(m) /\ a = m \o b /\ Writes(x, m)
       \/ /\ x.do = "object" /\ x.of \in Trees /\ x.indent \in Nat
          /\ a = Shown[x.of] \o b
       \/ /\ x.do = "items" /\ x.of \in Trees /\ x.indent \in Nat
          /\ x.from \in 1 .. Len(x.of.items) + 1
          /\ a = RestOf(x.of)[x.from] \o b

Chain(p, a, b, r) ==
    /\ r[0] = a /\ r[Len(p)] = b
    /\ \A i \in 1 .. Len(p) : Fits(p[i], r[i - 1], r[i])
Leaves(p, a, b) == IsSeq(p) /\ IsSeq(a) /\ \E r : Chain(p, a, b, r)

(* No step leaves what there was. *)
LEMMA LeavesNone == ASSUME NEW a, IsSeq(a) PROVE Leaves(<<>>, a, a)
<1> DEFINE r == [i \in 0 .. 0 |-> a]
<1>1. Len(<<>>) = 0 /\ IsSeq(<<>>) BY DEF IsSeq
<1>2. r[0] = a OBVIOUS
<1> HIDE DEF r
<1>3. \A i \in 1 .. 0 : FALSE OBVIOUS
<1>4. Chain(<<>>, a, a, r) BY <1>1, <1>2, <1>3 DEF Chain
<1> QED BY <1>1, <1>4 DEF Leaves

(* One step. *)
LEMMA LeavesOne ==
    ASSUME NEW x, NEW a, NEW b, Fits(x, a, b) PROVE Leaves(<<x>>, a, b)
<1> DEFINE r == [i \in 0 .. 1 |-> IF i = 0 THEN a ELSE b]
<1>1. IsSeq(<<x>>) /\ Len(<<x>>) = 1 /\ <<x>>[1] = x BY OneLong
<1>2. r[0] = a /\ r[1] = b OBVIOUS
<1> HIDE DEF r
<1>3. \A i \in 1 .. 1 : i = 1 /\ i - 1 = 0 OBVIOUS
<1>4. Chain(<<x>>, a, b, r) BY <1>1, <1>2, <1>3 DEF Chain
<1> QED BY <1>1, <1>4 DEF Leaves, Fits

(* Steps behind steps. *)
LEMMA LeavesJoin ==
    ASSUME NEW p, NEW q, NEW a, NEW b, NEW c, Leaves(p, a, b), Leaves(q, b, c)
    PROVE  Leaves(p \o q, a, c)
<1>1. PICK r : Chain(p, a, b, r) BY DEF Leaves
<1>2. PICK s : Chain(q, b, c, s) BY DEF Leaves
<1>3. IsSeq(p) /\ IsSeq(q) BY DEF Leaves
<1>4. PICK w, n, k : w = p \o q /\ n = Len(p) /\ k = Len(q) OBVIOUS
<1>5. /\ IsSeq(w) /\ n \in Nat /\ k \in Nat /\ Len(w) = n + k
      /\ \A i \in 1 .. n : w[i] = p[i]
      /\ \A i \in 1 .. k : w[n + i] = q[i]
  BY <1>3, <1>4, Joined
<1> DEFINE t == [i \in 0 .. n + k |-> IF i <= n THEN r[i] ELSE s[i - n]]
<1>6. \A i \in 0 .. n : t[i] = r[i] BY <1>5
<1>7. \A i \in 0 .. n + k : i > n => t[i] = s[i - n] BY <1>5
<1> HIDE DEF t
<1>8. r[0] = a /\ r[n] = b /\ s[0] = b /\ s[k] = c BY <1>1, <1>2, <1>4 DEF Chain
<1>9. t[0] = a
  <2>1. 0 \in 0 .. n BY <1>5
  <2> QED BY <1>6, <1>8, <2>1
<1>10. t[n + k] = c
  <2>1. CASE k = 0
    <3>1. n + k = n /\ n \in 0 .. n BY <1>5, <2>1
    <3> QED BY <1>6, <1>8, <2>1, <3>1
  <2>2. CASE k # 0
    <3>1. PICK z : z = n + k OBVIOUS
    <3>2. z \in 0 .. n + k /\ z > n /\ z - n = k BY <1>5, <2>2, <3>1
    <3>3. t[z] = s[k] BY <1>7, <3>2
    <3> QED BY <1>8, <3>1, <3>3
  <2> QED BY <2>1, <2>2
<1>11. ASSUME NEW i \in 1 .. n + k PROVE Fits(w[i], t[i - 1], t[i])
  <2>1. CASE i <= n
    <3>1. i \in 1 .. n /\ i \in 0 .. n /\ i - 1 \in 0 .. n BY <1>5, <2>1
    <3>2. w[i] = p[i] /\ t[i] = r[i] /\ t[i - 1] = r[i - 1] BY <1>5, <1>6, <3>1
    <3>3. Fits(p[i], r[i - 1], r[i]) BY <1>1, <1>4, <3>1 DEF Chain
    <3> QED BY <3>2, <3>3
  <2>2. CASE i > n
    <3>1. PICK j : j = i - n OBVIOUS
    <3>2. j \in 1 .. k /\ n + j = i /\ i \in 0 .. n + k BY <1>5, <2>2, <3>1
    <3>3. w[i] = q[j] /\ t[i] = s[j] BY <1>5, <1>7, <2>2, <3>1, <3>2
    <3>4. t[i - 1] = s[j - 1]
      <4>1. CASE j = 1
        <5>1. i - 1 = n /\ j - 1 = 0 /\ n \in 0 .. n BY <1>5, <3>2, <4>1
        <5> QED BY <1>6, <1>8, <5>1
      <4>2. CASE j # 1
        <5>1. i - 1 \in 0 .. n + k /\ i - 1 > n /\ i - 1 - n = j - 1
          BY <1>5, <3>2, <4>2
        <5> QED BY <1>7, <5>1
      <4> QED BY <4>1, <4>2
    <3>5. Fits(q[j], s[j - 1], s[j]) BY <1>2, <1>4, <3>2 DEF Chain
    <3> QED BY <3>3, <3>4, <3>5
  <2> QED BY <1>5, <2>1, <2>2
<1>12. Chain(w, a, c, t) BY <1>5, <1>9, <1>10, <1>11 DEF Chain
<1>13. IsSeq(a) BY DEF Leaves
<1> QED BY <1>4, <1>5, <1>12, <1>13 DEF Leaves

(* The first step, and those behind it. *)
LEMMA LeavesHead ==
    ASSUME NEW p, NEW a, NEW c, Leaves(p, a, c), p # <<>>
    PROVE  \E b : Fits(Head(p), a, b) /\ Leaves(Tail(p), b, c)
<1>1. PICK r : Chain(p, a, c, r) BY DEF Leaves
<1>2. PICK S : p \in Seq(S) BY DEF Leaves, IsSeq
<1>3. PICK n : n = Len(p) OBVIOUS
<1>4. n \in Nat \ {0} /\ Head(p) = p[1]
  <2>1. p # <<>> OBVIOUS
  <2> QED BY <1>2, <1>3, <2>1
<1>5. /\ Tail(p) \in Seq(S) /\ Len(Tail(p)) = n - 1
      /\ \A i \in 1 .. n - 1 : Tail(p)[i] = p[i + 1]
  BY <1>2, <1>3, <1>4
<1>6. PICK q : q = Tail(p) OBVIOUS
<1> DEFINE s == [i \in 0 .. n - 1 |-> r[i + 1]]
<1>7. \A i \in 0 .. n - 1 : s[i] = r[i + 1] OBVIOUS
<1> HIDE DEF s
<1>8. Fits(p[1], a, r[1])
  <2>1. 1 \in 1 .. n /\ 1 - 1 = 0 BY <1>4
  <2>2. Fits(p[1], r[1 - 1], r[1]) BY <1>1, <1>3, <2>1 DEF Chain
  <2>3. r[0] = a BY <1>1 DEF Chain
  <2> QED BY <2>1, <2>2, <2>3
<1>9. s[0] = r[1] /\ s[n - 1] = c
  <2>1. 0 \in 0 .. n - 1 /\ 0 + 1 = 1 /\ n - 1 \in 0 .. n - 1 /\ n - 1 + 1 = n BY <1>4
  <2>2. r[n] = c BY <1>1, <1>3 DEF Chain
  <2> QED BY <1>7, <2>1, <2>2
<1>10. ASSUME NEW i \in 1 .. n - 1 PROVE Fits(q[i], s[i - 1], s[i])
  <2>1. PICK j : j = i + 1 OBVIOUS
  <2>2. j \in 1 .. n /\ i - 1 \in 0 .. n - 1 /\ i \in 0 .. n - 1 /\ i - 1 + 1 = j - 1
    BY <1>4, <2>1
  <2>3. q[i] = p[j] /\ s[i] = r[j] /\ s[i - 1] = r[j - 1]
    BY <1>5, <1>6, <1>7, <2>1, <2>2
  <2>4. Fits(p[j], r[j - 1], r[j]) BY <1>1, <1>3, <2>2 DEF Chain
  <2> QED BY <2>3, <2>4
<1>11. Chain(q, r[1], c, s) BY <1>5, <1>6, <1>9, <1>10 DEF Chain
<1>12. IsSeq(r[1]) /\ IsSeq(q) BY <1>5, <1>6, <1>8 DEF Fits, IsSeq
<1>13. Leaves(q, r[1], c) BY <1>11, <1>12 DEF Leaves
<1> QED BY <1>4, <1>6, <1>8, <1>13

(* Steps and tokens are sequences; without steps no token is left over. *)
LEMMA LeavesSeq ==
    ASSUME NEW p, NEW a, NEW b, Leaves(p, a, b)
    PROVE  IsSeq(p) /\ IsSeq(a) /\ (p = <<>> => a = b)
<1>1. PICK r : Chain(p, a, b, r) BY DEF Leaves
<1>2. Len(<<>>) = 0 OBVIOUS
<1>3. p = <<>> => a = b BY <1>1, <1>2 DEF Chain
<1> QED BY <1>3 DEF Leaves

-----------------------------------------------------------------------------
(* Every piece is laid out as its tokens *)

(* A token that is written as its text is laid out by it. *)
LEMMA PlainLaid ==
    ASSUME NEW tok, Plain(tok), NEW s, s = tok[2], s \in Seq(Char), s # <<>>
    PROVE  LaidOut(s, <<tok>>)
<1>1. IsSeq(s) /\ Len(s) \in Nat /\ Len(s) # 0 BY DEF IsSeq
<1>2. 1 < Len(s) + 1 /\ Len(s) + 1 \in Nat BY <1>1
<1>3. \A k \in 1 .. Len(s) : 1 + k - 1 = k BY <1>1
<1>4. At(s, 1, s) BY <1>3 DEF At
<1>5. Len(s) + 1 = 1 + Len(s) BY <1>1
<1>6. Spelt(s, 1, Len(s) + 1, tok)
  <2>1. 1 \in Nat /\ 1 <= 1 /\ Len(s) + 1 <= Len(s) + 1 BY <1>1
  <2> QED BY <1>1, <1>2, <1>4, <1>5, <2>1 DEF Spelt
<1> QED BY <1>1, <1>6, TokenLaid

LEMMA CharOne == ASSUME NEW c \in Marks PROVE <<c>> \in Seq(Char) /\ <<c>> # <<>>
<1>1. c # End BY DEF Marks, End, NL, Quote, Backslash
<1>2. c \in Char BY <1>1 DEF Char
<1>3. <<c>> \in Seq(Char) /\ Len(<<c>>) = 1 BY <1>2
<1>4. Len(<<>>) = 0 OBVIOUS
<1> QED BY <1>3, <1>4

(* The symbols the serializer writes. *)
LEMMA SymbolLaid ==
    /\ LaidOut(<<"(">>, <<Parens[1]>>) /\ LaidOut(<<")">>, <<Parens[2]>>)
    /\ LaidOut(<<",">>, <<Comma>>)
    /\ LaidOut(<<"#">>, <<<<"hash", <<"#">>>>>>)
    /\ LaidOut(<<"-">>, <<<<"minus", <<"-">>>>>>)
<1>1. ASSUME NEW type, NEW c, NEW tok, tok = <<type, <<c>>>>, Plain(tok)
      PROVE  LaidOut(<<c>>, <<tok>>)
  <2>1. tok[2] = <<c>> BY <1>1
  <2>2. PICK s : s = <<c>> OBVIOUS
  <2>3. IsSeq(s) /\ Len(s) = 1 /\ s[1] = c BY <2>2, OneLong
  <2>4. \A k \in 1 .. 1 : 1 + k - 1 = k OBVIOUS
  <2>5. At(s, 1, s) BY <2>3, <2>4 DEF At
  <2>6. Spelt(s, 1, Len(s) + 1, tok)
    <3>1. Len(s) + 1 = 2 /\ 1 + Len(s) = 2 BY <2>3
    <3>2. 1 \in Nat /\ 2 \in Nat /\ 1 <= 1 /\ 1 < 2 /\ 2 <= 2 OBVIOUS
    <3> QED BY <1>1, <2>1, <2>2, <2>3, <2>5, <3>1, <3>2 DEF Spelt
  <2> QED BY <2>2, <2>3, <2>6, TokenLaid
<1>2. PICK x, y : x = Parens[1] /\ y = Parens[2] OBVIOUS
<1>3. x = <<"lparen", <<"(">>>> /\ y = <<"rparen", <<")">>>> BY <1>2 DEF Parens
<1>4. Plain(x) /\ Plain(y) BY <1>3 DEF Plain
<1>5. PICK z : z = Comma OBVIOUS
<1>6. z = <<"comma", <<",">>>> BY <1>5 DEF Comma
<1>7. Plain(z) BY <1>6 DEF Plain
<1>8. PICK h, k : h = <<"hash", <<"#">>>> /\ k = <<"minus", <<"-">>>> OBVIOUS
<1>9. Plain(h) /\ Plain(k) BY <1>8 DEF Plain
<1>10. LaidOut(<<"(">>, <<x>>) BY <1>1, <1>3, <1>4
<1>11. LaidOut(<<")">>, <<y>>) BY <1>1, <1>3, <1>4
<1>12. LaidOut(<<",">>, <<z>>) BY <1>1, <1>6, <1>7
<1>13. LaidOut(<<"#">>, <<h>>) BY <1>1, <1>8, <1>9
<1>14. LaidOut(<<"-">>, <<k>>) BY <1>1, <1>8, <1>9
<1> QED BY <1>2, <1>5, <1>8, <1>10, <1>11, <1>12, <1>13, <1>14

(* Two texts one behind the other. *)
LEMMA TwoLaid ==
    ASSUME NEW s, NEW u, NEW m, NEW n, s \in Seq(Char), u \in Seq(Char),
           IsSeq(m), IsSeq(n), LaidOut(s, m), LaidOut(u, n)
    PROVE  s \o u \in Seq(Char) /\ IsSeq(m \o n) /\ LaidOut(s \o u, m \o n)
<1>1. s \o u \in Seq(Char) BY ConcatProperties
<1>2. IsSeq(s) /\ IsSeq(u) BY DEF IsSeq
<1>3. LaidOut(s \o u, m \o n) BY <1>2, LayoutsJoin
<1>4. IsSeq(m \o n) BY Joined
<1> QED BY <1>1, <1>3, <1>4

(* A character of white space alone. *)
LEMMA BlankOne == ASSUME NEW c, c \in Blank PROVE LaidOut(<<c>>, <<>>)
<1>1. PICK s : s = <<c>> OBVIOUS
<1>2. Len(s) = 1 /\ s[1] = c BY <1>1, OneLong
<1>3. \A p \in 1 .. 1 : p = 1 OBVIOUS
<1>4. \A p \in 1 .. Len(s) : s[p] \in Blank BY <1>2, <1>3
<1>5. Len(s) \in Nat BY <1>2
<1>6. LaidOut(s, <<>>) BY <1>4, <1>5, BlankLaid
<1> QED BY <1>1, <1>6

(* What is lost when an append is not looked at is white space. *)
LEMMA SpaceLaid == \A c \in {" ", NL} : <<c>> \in Seq(Char) /\ LaidOut(<<c>>, <<>>)
<1> TAKE c \in {" ", NL}
<1>1. <<c>> \in Seq(Char) BY CharOne DEF Marks
<1>2. c \in Blank BY DEF Blank
<1>3. LaidOut(<<c>>, <<>>) BY <1>2, BlankOne
<1> QED BY <1>1, <1>3

LEMMA ParensLaid ==
    <<"(", ")">> \in Seq(Char) /\ LaidOut(<<"(", ")">>, Parens) /\ IsSeq(Parens)
<1>1. PICK x, y : x = Parens[1] /\ y = Parens[2] OBVIOUS
<1>2. PICK s, u : s = <<"(">> /\ u = <<")">> OBVIOUS
<1>3. s \in Seq(Char) /\ u \in Seq(Char) BY <1>2, CharOne DEF Marks
<1>4. IsSeq(<<x>>) /\ IsSeq(<<y>>) BY OneLong
<1>5. LaidOut(s, <<x>>) /\ LaidOut(u, <<y>>) BY <1>1, <1>2, SymbolLaid
<1>6. s \o u \in Seq(Char) /\ LaidOut(s \o u, <<x>> \o <<y>>)
  BY <1>3, <1>4, <1>5, TwoLaid
<1>7. <<"(", ")">> = s \o u BY <1>2, TwoLong
<1>8. Parens = <<x>> \o <<y>> /\ IsSeq(Parens) BY <1>1, ParensSound DEF Sound
<1> QED BY <1>6, <1>7, <1>8

LEMMA CommaNewline ==
    <<",", NL>> \in Seq(Char) /\ LaidOut(<<",", NL>>, <<Comma>>)
<1>1. PICK s, u, m : s = <<",">> /\ u = <<NL>> /\ m = <<Comma>> OBVIOUS
<1>2. s \in Seq(Char) /\ u \in Seq(Char) BY <1>1, CharOne DEF Marks
<1>3. IsSeq(m) /\ IsSeq(<<>>) /\ m \o <<>> = m BY <1>1, OneLong, NoneBeside
<1>4. LaidOut(s, m) /\ LaidOut(u, <<>>) BY <1>1, SymbolLaid, SpaceLaid
<1>5. s \o u \in Seq(Char) /\ LaidOut(s \o u, m \o <<>>)
  BY <1>2, <1>3, <1>4, TwoLaid
<1>6. <<",", NL>> = s \o u BY <1>1, TwoLong
<1> QED BY <1>1, <1>3, <1>5, <1>6

(* The words it writes. *)
LEMMA WordLaid ==
    /\ \A w \in {None, True, False} : w \in Seq(Char)
    /\ LaidOut(None, <<<<"none", None>>>>) /\ LaidOut(True, <<<<"true", True>>>>)
    /\ LaidOut(False, <<<<"false", False>>>>)
<1>1. \A x, y, z, v \in Char : /\ <<x, y, z, v>> \in Seq(Char)
                               /\ Len(<<x, y, z, v>>) = 4
  OBVIOUS
<1>2. \A x, y, z, v, w \in Char : /\ <<x, y, z, v, w>> \in Seq(Char)
                                  /\ Len(<<x, y, z, v, w>>) = 5
  OBVIOUS
<1>3. {"N", "o", "n", "e", "t", "r", "u", "f", "a", "l", "s"} \subseteq Char
  BY DEF Char, Marks, End
<1>4. None \in Seq(Char) /\ True \in Seq(Char) /\ False \in Seq(Char)
      /\ Len(None) = 4 /\ Len(True) = 4 /\ Len(False) = 5
  BY <1>1, <1>2, <1>3 DEF None, True, False
<1>5. WordType(None) = "none" BY DEF WordType, None
<1>6. None # True /\ None # False /\ True # False
  <2>1. None[1] = "N" /\ True[1] = "t" /\ False[1] = "f" BY DEF None, True, False
  <2> QED BY <2>1
<1>7. WordType(True) = "true"
  <2>1. True # <<"N", "o", "n", "e">> BY <1>6 DEF None
  <2> QED BY <2>1 DEF WordType, True
<1>8. WordType(False) = "false"
  <2>1. False # <<"N", "o", "n", "e">> /\ False # <<"t", "r", "u", "e">>
    BY <1>6 DEF None, True
  <2> QED BY <2>1 DEF WordType, False
<1>9. ASSUME NEW w \in {None, True, False} PROVE Name(w) /\ w # <<>>
  <2>1. w # <<>>
    <3>1. Len(<<>>) = 0 OBVIOUS
    <3> QED BY <1>4, <3>1
  <2>2. \A i \in DOMAIN w : w[i] \in Letter BY TextAssumption
  <2>3. 1 \in DOMAIN w
    <3>1. w \in Seq(Char) /\ Len(w) >= 1 BY <1>4
    <3>2. DOMAIN w = 1 .. Len(w) /\ Len(w) \in Nat BY <3>1
    <3> QED BY <3>1, <3>2
  <2> QED BY <2>1, <2>2, <2>3 DEF Name
<1>10. ASSUME NEW w \in {None, True, False}, NEW tok, tok = <<WordType(w), w>>
       PROVE  LaidOut(w, <<tok>>)
  <2>1. tok[1] = WordType(w) /\ tok[2] = w BY <1>10
  <2>2. Plain(tok) BY <1>9, <2>1 DEF Plain
  <2> QED BY <1>4, <1>9, <2>1, <2>2, PlainLaid
<1> QED BY <1>4, <1>5, <1>7, <1>8, <1>10

(* A number without a sign. *)
LEMMA NumeralLaid ==
    ASSUME NEW t, t \in Seq(Char), Numeral(t)
    PROVE  LaidOut(t, <<<<"integer", t>>>>)
<1>1. PICK tok : tok = <<"integer", t>> OBVIOUS
<1>2. tok[1] = "integer" /\ tok[2] = t BY <1>1
<1>3. Plain(tok) BY <1>2 DEF Plain
<1>4. t # <<>> BY DEF Numeral
<1> QED BY <1>1, <1>2, <1>3, <1>4, PlainLaid

LEMMA TextOf ==
    ASSUME NEW o \in Trees PROVE o.text \in Seq(Char)
<1>1. o.text \in Seq(STRING \ {End}) BY TreeAssumption
<1>2. PICK t : t = o.text OBVIOUS
<1>3. STRING \ {End} \subseteq Char BY DEF Char
<1>4. t \in Seq(Char) BY <1>1, <1>2, <1>3
<1> QED BY <1>2, <1>4

(* A number: its sign is a token of its own. *)
LEMMA NumberLaid ==
    ASSUME NEW o \in Trees, o.type \in {"integer", "float"} PROVE LaidOut(o.text, Shown[o])
<1>1. PICK t : t = o.text OBVIOUS
<1>2. t \in Seq(Char) /\ t # <<>> /\ Numeral(IF Head(t) = "-" THEN Tail(t) ELSE t)
  BY <1>1, TextOf, TreeAssumption
<1>3. CASE Head(t) # "-"
  <2>1. Shown[o] = <<<<"integer", t>>>>
    BY <1>1, <1>3, ShownShows DEF Shows, Stands
  <2> QED BY <1>1, <1>2, <1>3, <2>1, NumeralLaid
<1>4. CASE Head(t) = "-"
  <2>1. PICK u, d, x, y : /\ u = Tail(t) /\ d = <<"-">>
                          /\ x = <<"minus", <<"-">>>> /\ y = <<"integer", u>>
    OBVIOUS
  <2>2. Shown[o] = <<x, y>> BY <1>1, <1>4, <2>1, ShownShows DEF Shows, Stands
  <2>3. u \in Seq(Char) /\ "-" \in Char BY <1>2, <1>4, <2>1
  <2>4. d \in Seq(Char) BY <2>1, <2>3
  <2>5. LaidOut(u, <<y>>) BY <1>2, <1>4, <2>1, <2>3, NumeralLaid
  <2>6. LaidOut(d, <<x>>) BY <2>1, SymbolLaid
  <2>7. IsSeq(<<x>>) /\ IsSeq(<<y>>) BY OneLong
  <2>8. LaidOut(d \o u, <<x>> \o <<y>>) BY <2>3, <2>4, <2>5, <2>6, <2>7, TwoLaid
  <2>9. t = d \o u
    <3>1. PICK w : w = d \o u OBVIOUS
    <3>2. IsSeq(d) /\ IsSeq(u) /\ Len(d) = 1 /\ d[1] = "-"
      BY <2>1, <2>3, OneLong DEF IsSeq
    <3>3. /\ Len(w) = Len(d) + Len(u)
          /\ \A i \in 1 .. Len(d) : w[i] = d[i]
          /\ \A i \in 1 .. Len(u) : w[Len(d) + i] = u[i]
      <4>1. IsSeq(d) /\ IsSeq(u) BY <3>2
      <4> QED BY <3>1, <4>1, Joined
    <3>4. w \in Seq(Char) BY <2>3, <2>4, <3>1, ConcatProperties
    <3>5. Len(t) \in Nat /\ Len(t) # 0 /\ Len(u) = Len(t) - 1 /\ t[1] = "-"
          /\ \A i \in 1 .. Len(u) : u[i] = t[i + 1]
      BY <1>2, <1>4, <2>1
    <3>6. Len(w) = Len(t) BY <3>2, <3>3, <3>5
    <3>7. ASSUME NEW i \in 1 .. Len(t) PROVE w[i] = t[i]
      <4>1. CASE i = 1
        <5>1. 1 \in 1 .. Len(d) BY <3>2
        <5> QED BY <3>2, <3>3, <3>5, <4>1, <5>1
      <4>2. CASE i # 1
        <5>1. PICK j : j = i - 1 OBVIOUS
        <5>2. j \in 1 .. Len(u) /\ Len(d) + j = i /\ j + 1 = i
          BY <3>2, <3>5, <4>2, <5>1
        <5> QED BY <3>3, <3>5, <5>2
      <4> QED BY <4>1, <4>2
    <3>8. t = [i \in 1 .. Len(t) |-> t[i]] /\ w = [i \in 1 .. Len(t) |-> w[i]]
      BY <1>2, <3>4, <3>6
    <3>9. t = w BY <3>7, <3>8
    <3> QED BY <3>1, <3>9
  <2> QED BY <1>1, <2>2, <2>8, <2>9, TwoLong
<1> QED BY <1>3, <1>4

-----------------------------------------------------------------------------
(* What each step leaves *)

(* An append that is looked at writes its tokens. *)
LEMMA PieceLeaves ==
    ASSUME NEW s \in Seq(Char), NEW m, IsSeq(m), LaidOut(s, m), NEW b, IsSeq(b)
    PROVE  Leaves(<<Piece(s)>>, m \o b, b) /\ IsSeq(m \o b)
<1>1. PICK x : x = Piece(s) OBVIOUS
<1>2. x.do = "append" /\ x.text = s /\ x.checked = TRUE BY <1>1 DEF Piece
<1>3. IsSeq(m \o b) BY Joined
<1>4. Writes(x, m) BY <1>2 DEF Writes
<1>5. Fits(x, m \o b, b) BY <1>2, <1>3, <1>4 DEF Fits
<1> QED BY <1>1, <1>3, <1>5, LeavesOne

(* One that is not looked at writes none. *)
LEMMA LooseLeaves ==
    ASSUME NEW s \in Seq(Char), LaidOut(s, <<>>), NEW b, IsSeq(b)
    PROVE  Leaves(<<Loose(s)>>, b, b)
<1>1. PICK x : x = Loose(s) OBVIOUS
<1>2. x.do = "append" /\ x.text = s /\ x.checked = FALSE BY <1>1 DEF Loose
<1>3. <<>> \o b = b /\ IsSeq(<<>>) BY NoneBeside
<1>4. Writes(x, <<>>) BY <1>2 DEF Writes
<1>5. Fits(x, b, b) BY <1>2, <1>3, <1>4 DEF Fits
<1> QED BY <1>1, <1>5, LeavesOne

(* print_indent writes no token. *)
LEMMA IndentLeaves ==
    ASSUME NEW k \in Int, NEW b, IsSeq(b) PROVE Leaves(Indent(k), b, b)
<1>1. PICK p : p = Indent(k) OBVIOUS
<1>2. PICK x : x = Loose(<<" ">>) OBVIOUS
<1>3. p = [i \in 1 .. k |-> x] BY <1>1, <1>2 DEF Indent
<1>4. x.do = "append" /\ x.text = <<" ">> /\ x.checked = FALSE BY <1>2 DEF Loose
<1>5. <<>> \o b = b /\ IsSeq(<<>>) BY NoneBeside
<1>6. Writes(x, <<>>)
  <2>1. <<" ">> \in Seq(Char) /\ LaidOut(<<" ">>, <<>>) BY SpaceLaid
  <2>2. PICK s : s = <<" ">> OBVIOUS
  <2>3. x.text = s /\ s \in Seq(Char) /\ LaidOut(s, <<>>) BY <1>4, <2>1, <2>2
  <2>4. ~x.checked => <<>> = <<>> OBVIOUS
  <2> QED BY <2>3, <2>4 DEF Writes
<1>7. Fits(x, b, b)
  <2>1. x.do = "append" BY <1>4
  <2> QED BY <1>5, <1>6, <2>1 DEF Fits
<1>8. PICK n \in Nat : p = [i \in 1 .. n |-> x]
  <2>1. CASE k \in Nat BY <1>3, <2>1
  <2>2. CASE k \notin Nat
    <3>1. 1 .. k = 1 .. 0 BY <2>2
    <3>2. p = [i \in 1 .. 0 |-> x] BY <1>3, <3>1
    <3> QED BY <3>2
  <2> QED BY <2>1, <2>2
<1>9. p \in Seq({x}) /\ Len(p) = n /\ \A i \in 1 .. n : p[i] = x BY <1>8
<1> DEFINE r == [i \in 0 .. n |-> b]
<1>10. \A i \in 0 .. n : r[i] = b OBVIOUS
<1> HIDE DEF r
<1>11. 0 \in 0 .. n /\ n \in 0 .. n /\ \A i \in 1 .. n : i \in 0 .. n /\ i - 1 \in 0 .. n
  OBVIOUS
<1>12. \A i \in 1 .. n : Fits(p[i], r[i - 1], r[i]) BY <1>7, <1>9, <1>10, <1>11
<1>13. Chain(p, b, b, r) BY <1>9, <1>10, <1>11, <1>12 DEF Chain
<1>14. IsSeq(p) BY <1>9 DEF IsSeq
<1> QED BY <1>1, <1>13, <1>14 DEF Leaves

(* A call is to write the tokens of its object. *)
LEMMA CallLeaves ==
    ASSUME NEW o \in Trees, NEW indent \in Nat, NEW b, IsSeq(b)
    PROVE  /\ Leaves(<<Call(o, indent)>>, Shown[o] \o b, b)
           /\ IsSeq(Shown[o]) /\ IsSeq(Shown[o] \o b)
<1>1. PICK x : x = Call(o, indent) OBVIOUS
<1>2. x.do = "object" /\ x.of = o /\ x.indent = indent BY <1>1 DEF Call
<1>3. IsSeq(Shown[o]) BY ShownSound DEF Sound
<1>4. IsSeq(Shown[o] \o b) BY <1>3, Joined
<1>5. Fits(x, Shown[o] \o b, b) BY <1>2, <1>4 DEF Fits
<1> QED BY <1>1, <1>3, <1>4, <1>5, LeavesOne

(* A loop is to write the items from one on. *)
LEMMA ItemsLeaves ==
    ASSUME NEW o \in Trees, NEW indent \in Nat, NEW b, IsSeq(b),
           NEW i \in 1 .. Len(o.items) + 1
    PROVE  /\ Leaves(<<ItemsFrom(o, i, indent)>>, RestOf(o)[i] \o b, b)
           /\ IsSeq(RestOf(o)[i]) /\ IsSeq(RestOf(o)[i] \o b)
<1>1. PICK x : x = ItemsFrom(o, i, indent) OBVIOUS
<1>2. x.do = "items" /\ x.of = o /\ x.from = i /\ x.indent = indent
  BY <1>1 DEF ItemsFrom
<1>3. IsSeq(RestOf(o)[i]) BY RestSound DEF Sound
<1>4. IsSeq(RestOf(o)[i] \o b) BY <1>3, Joined
<1>5. Fits(x, RestOf(o)[i] \o b, b) BY <1>2, <1>4 DEF Fits
<1> QED BY <1>1, <1>3, <1>4, <1>5, LeavesOne

LEMMA IndentNat == IndentSpaces \in Nat
BY Zenon, TextAssumption

(* A loose append in front, or none. *)
LEMMA LooseOr ==
    ASSUME NEW c \in BOOLEAN, NEW b, IsSeq(b)
    PROVE  Leaves(IF c THEN <<Loose(<<NL>>)>> ELSE <<>>, b, b)
<1>1. CASE c
  <2>1. PICK s : s = <<NL>> OBVIOUS
  <2>2. s \in Seq(Char) /\ LaidOut(s, <<>>) BY <2>1, SpaceLaid
  <2>3. Leaves(<<Loose(s)>>, b, b) BY <2>2, LooseLeaves
  <2> QED BY <1>1, <2>1, <2>3
<1>2. CASE ~c BY <1>2, LeavesNone
<1> QED BY <1>1, <1>2

LEMMA IndentOr ==
    ASSUME NEW c \in BOOLEAN, NEW k \in Int, NEW b, IsSeq(b)
    PROVE  Leaves(IF c THEN Indent(k) ELSE <<>>, b, b)
<1>1. CASE c BY <1>1, IndentLeaves
<1>2. CASE ~c BY <1>2, LeavesNone
<1> QED BY <1>1, <1>2

(* The name of a template. *)
LEMMA NamedLaid ==
    ASSUME NEW o \in Trees, o.type = "instance", o.text # <<>>
    PROVE  o.text \in Seq(Char) /\ LaidOut(o.text, <<<<"ident", o.text>>>>)
<1>1. PICK t, tok : t = o.text /\ tok = <<"ident", t>> OBVIOUS
<1>2. t \in Seq(Char) BY <1>1, TextOf
<1>3. Name(t) /\ t \notin {None, True, False} BY <1>1, TreeAssumption
<1>4. WordType(t) = "ident" BY <1>3 DEF WordType, None, True, False
<1>5. tok[1] = WordType(tok[2]) /\ tok[2] = t BY <1>1, <1>4
<1>6. Plain(tok) BY <1>3, <1>5 DEF Plain
<1> QED BY <1>1, <1>2, <1>5, <1>6, PlainLaid

(* What a call is replaced with writes the tokens of its object. *)
LEMMA BeginLeaves ==
    ASSUME NEW o \in Trees, o.type # "null", NEW indent \in Nat, NEW b, IsSeq(b),
           pretty \in BOOLEAN
    PROVE  Leaves(Begin(o, indent), Shown[o] \o b, b)
<1>1. Shown[o] = Shows(o, Inner(o)) BY ShownShows
<1>2. o.type \in Types BY TreeAssumption
<1>3. IsSeq(Shown[o]) BY ShownSound DEF Sound
(* What is one piece. *)
<1>4. ASSUME NEW s \in Seq(Char), LaidOut(s, Shown[o]), Begin(o, indent) = <<Piece(s)>>
      PROVE  Leaves(Begin(o, indent), Shown[o] \o b, b)
  BY <1>3, <1>4, PieceLeaves
<1>5. CASE o.type = "none"
  <2>1. Shown[o] = <<<<"none", None>>>> BY <1>1, <1>5 DEF Shows, Stands
  <2>2. Begin(o, indent) = <<Piece(None)>> BY <1>5 DEF Begin
  <2> QED BY <1>4, <2>1, <2>2, WordLaid
<1>6. CASE o.type = "true"
  <2>1. Shown[o] = <<<<"true", True>>>> BY <1>1, <1>6 DEF Shows, Stands
  <2>2. Begin(o, indent) = <<Piece(True)>> BY <1>6 DEF Begin
  <2> QED BY <1>4, <2>1, <2>2, WordLaid
<1>7. CASE o.type = "false"
  <2>1. Shown[o] = <<<<"false", False>>>> BY <1>1, <1>7 DEF Shows, Stands
  <2>2. Begin(o, indent) = <<Piece(False)>> BY <1>7 DEF Begin
  <2> QED BY <1>4, <2>1, <2>2, WordLaid
<1>8. CASE o.type \in {"integer", "float"}
  <2>1. Begin(o, indent) = <<Piece(o.text)>> BY <1>8 DEF Begin
  <2>2. o.text \in Seq(Char) /\ LaidOut(o.text, Shown[o]) BY <1>8, TextOf, NumberLaid
  <2> QED BY <1>4, <2>1, <2>2
<1>9. CASE o.type = "string"
  <2>1. Shown[o] = <<<<"string", o.text>>>> BY <1>1, <1>9 DEF Shows, Stands
  <2>2. Begin(o, indent) = <<Piece(Quoted(o.text))>> BY <1>9 DEF Begin
  <2>3. o.text \in Seq(Char) BY TextOf
  <2> QED BY <1>4, <2>1, <2>2, <2>3, QuotedLaid
<1>10. CASE o.type = "map"
  <2>1. Shown[o] = Parens BY <1>1, <1>10 DEF Shows, Stands
  <2>2. Begin(o, indent) = <<Piece(<<"(", ")">>)>> BY <1>10 DEF Begin
  <2> QED BY <1>4, <2>1, <2>2, ParensLaid
<1>11. CASE o.type = "array"
  <2>1. PICK x, l : x = Parens[1] /\ l = RestOf(o)[1] OBVIOUS
  <2>2. Shown[o] = <<x>> \o l BY <1>1, <1>11, <2>1 DEF Shows, Stands, RestOf
  <2>3. 1 \in 1 .. Len(o.items) + 1
    <3>1. Len(o.items) \in Nat BY InnerIs
    <3> QED BY <3>1
  <2>4. IsSeq(<<x>>) /\ IsSeq(l) BY <2>1, <2>3, OneLong, RestSound DEF Sound
  <2>5. PICK k : k = indent + IndentSpaces OBVIOUS
  <2>6. k \in Nat BY <2>5, IndentNat
  <2>7. PICK p, q, r : /\ p = <<Piece(<<"(">>)>> /\ r = <<ItemsFrom(o, 1, k)>>
                       /\ q = IF pretty /\ o.items # <<>> THEN <<Loose(<<NL>>)>> ELSE <<>>
    OBVIOUS
  <2>8. Begin(o, indent) = p \o q \o r BY <1>11, <2>5, <2>7 DEF Begin
  <2>9. Leaves(r, l \o b, b) /\ IsSeq(l \o b) BY <2>1, <2>3, <2>6, <2>7, ItemsLeaves
  <2>10. Leaves(q, l \o b, l \o b)
    <3>1. (pretty /\ o.items # <<>>) \in BOOLEAN OBVIOUS
    <3> QED BY <2>7, <2>9, <3>1, LooseOr
  <2>11. Leaves(p, <<x>> \o (l \o b), l \o b)
    <3>1. <<"(">> \in Seq(Char) BY CharOne DEF Marks
    <3>2. LaidOut(<<"(">>, <<x>>) BY <2>1, SymbolLaid
    <3>3. PICK s : s = <<"(">> OBVIOUS
    <3>4. Leaves(<<Piece(s)>>, <<x>> \o (l \o b), l \o b)
      BY <2>4, <2>9, <3>1, <3>2, <3>3, PieceLeaves
    <3> QED BY <2>7, <3>3, <3>4
  <2>12. Leaves(p \o q, <<x>> \o (l \o b), l \o b) BY <2>10, <2>11, LeavesJoin
  <2>13. Leaves(p \o q \o r, <<x>> \o (l \o b), b) BY <2>9, <2>12, LeavesJoin
  <2>14. (<<x>> \o l) \o b = <<x>> \o (l \o b) BY <2>4, Grouped
  <2> QED BY <2>2, <2>8, <2>13, <2>14
<1>12. CASE o.type = "instance"
  <2>1. PICK h, x : /\ h = <<<<"hash", <<"#">>>>>>
                    /\ x = IF o.text = <<>> THEN <<>> ELSE <<<<"ident", o.text>>>>
    OBVIOUS
  <2>2. Shown[o] = (h \o x) \o Parens BY <1>1, <1>12, <2>1 DEF Shows, Stands
  <2>3. IsSeq(h) /\ IsSeq(x) BY <2>1, OneLong, NoneBeside
  <2>4. PICK p, q, r : /\ p = <<Piece(<<"#">>)>> /\ r = <<Piece(<<"(", ")">>)>>
                       /\ q = IF o.text = <<>> THEN <<>> ELSE <<Piece(o.text)>>
    OBVIOUS
  <2>5. Begin(o, indent) = p \o q \o r BY <1>12, <2>4 DEF Begin
  <2>6. PICK c : c = Parens \o b OBVIOUS
  <2>7. Leaves(r, c, b) /\ IsSeq(c) BY <2>4, <2>6, ParensLaid, PieceLeaves
  <2>8. Leaves(q, x \o c, c) /\ IsSeq(x \o c)
    <3>1. CASE o.text = <<>>
      <4>1. q = <<>> /\ x \o c = c BY <2>1, <2>4, <2>7, <3>1, NoneBeside
      <4> QED BY <2>7, <4>1, LeavesNone
    <3>2. CASE o.text # <<>>
      <4>1. x = <<<<"ident", o.text>>>> /\ q = <<Piece(o.text)>> BY <2>1, <2>4, <3>2
      <4>2. o.text \in Seq(Char) /\ LaidOut(o.text, x) BY <1>12, <3>2, <4>1, NamedLaid
      <4> QED BY <2>3, <2>7, <4>1, <4>2, PieceLeaves
    <3> QED BY <3>1, <3>2
  <2>9. Leaves(p, h \o (x \o c), x \o c)
    <3>1. PICK s : s = <<"#">> OBVIOUS
    <3>2. s \in Seq(Char) BY <3>1, CharOne DEF Marks
    <3>3. LaidOut(s, h) BY <2>1, <3>1, SymbolLaid
    <3>4. Leaves(<<Piece(s)>>, h \o (x \o c), x \o c)
      BY <2>3, <2>8, <3>2, <3>3, PieceLeaves
    <3> QED BY <2>4, <3>1, <3>4
  <2>10. Leaves(p \o q, h \o (x \o c), c) BY <2>8, <2>9, LeavesJoin
  <2>11. Leaves(p \o q \o r, h \o (x \o c), b) BY <2>7, <2>10, LeavesJoin
  <2>12. ((h \o x) \o Parens) \o b = h \o (x \o c)
    <3>1. PICK y : y = h \o x OBVIOUS
    <3>2. IsSeq(y) /\ IsSeq(Parens) BY <2>3, <3>1, Joined, ParensLaid
    <3>3. (y \o Parens) \o b = y \o c BY <2>6, <3>2, Grouped
    <3>4. (h \o x) \o c = h \o (x \o c) BY <2>3, <2>7, Grouped
    <3> QED BY <3>1, <3>3, <3>4
  <2> QED BY <2>2, <2>5, <2>11, <2>12
<1> QED BY <1>2, <1>5, <1>6, <1>7, <1>8, <1>9, <1>10, <1>11, <1>12 DEF Types

(* What a loop is replaced with writes the items from one on. *)
LEMMA RoundLeaves ==
    ASSUME NEW o \in Trees, NEW indent \in Nat, NEW b, IsSeq(b),
           NEW i \in 1 .. Len(o.items) + 1, pretty \in BOOLEAN
    PROVE  Leaves(Round(o, i, indent), RestOf(o)[i] \o b, b)
<1>1. PICK n : n = Len(o.items) OBVIOUS
<1>2. n \in Nat BY <1>1, InnerIs
<1>3. CASE i <= n
  <2>1. PICK m, k, r, w : /\ m = Shown[o.items[i]] /\ k = Sep(i, n)
                          /\ r = RestOf(o)[i + 1] /\ w = r \o b
    OBVIOUS
  <2>2. i \in 1 .. n /\ i + 1 \in 1 .. n + 1 BY <1>1, <1>2, <1>3
  <2>3. o.items[i] \in Trees BY <1>1, <2>2, InnerIs
  <2>4. RestOf(o)[i] = (m \o k) \o r BY <1>1, <2>1, <2>2, RestSound
  <2>5. IsSeq(m) /\ IsSeq(k) /\ IsSeq(r)
    <3>1. IsSeq(m) BY <2>1, <2>3, ShownSound DEF Sound
    <3>2. IsSeq(k) BY <2>1, OneLong, NoneBeside DEF Sep
    <3>3. IsSeq(r) BY <1>1, <2>1, <2>2, RestSound DEF Sound
    <3> QED BY <3>1, <3>2, <3>3
  <2>6. PICK x, y, z, v :
          /\ x = IF pretty THEN Indent(indent) ELSE <<>>
          /\ y = <<Call(o.items[i], indent)>>
          /\ z = IF i < n THEN <<Piece(IF pretty THEN <<",", NL>> ELSE <<",">>)>>
                 ELSE IF pretty THEN <<Loose(<<NL>>)>> ELSE <<>>
          /\ v = <<ItemsFrom(o, i + 1, indent)>>
    OBVIOUS
  <2>7. Round(o, i, indent) = ((x \o y) \o z) \o v BY <1>1, <1>3, <2>6 DEF Round
  <2>8. Leaves(v, w, b) /\ IsSeq(w)
    BY <1>1, <2>1, <2>2, <2>6, ItemsLeaves
  <2>9. Leaves(z, k \o w, w) /\ IsSeq(k \o w)
    <3>1. CASE i < n
      <4>1. PICK s : s = IF pretty THEN <<",", NL>> ELSE <<",">> OBVIOUS
      <4>2. k = <<Comma>> /\ z = <<Piece(s)>> BY <2>1, <2>6, <3>1, <4>1 DEF Sep
      <4>3. s \in Seq(Char)
        <5>1. <<",">> \in Seq(Char) BY CharOne DEF Marks
        <5> QED BY <4>1, <5>1, CommaNewline
      <4>4. LaidOut(s, k) BY <4>1, <4>2, SymbolLaid, CommaNewline
      <4> QED BY <2>5, <2>8, <4>2, <4>3, <4>4, PieceLeaves
    <3>2. CASE ~(i < n)
      <4>1. k = <<>> /\ k \o w = w BY <2>1, <2>8, <3>2, NoneBeside DEF Sep
      <4>2. z = IF pretty THEN <<Loose(<<NL>>)>> ELSE <<>> BY <2>6, <3>2
      <4> QED BY <2>8, <4>1, <4>2, LooseOr
    <3> QED BY <3>1, <3>2
  <2>10. Leaves(y, m \o (k \o w), k \o w) /\ IsSeq(m \o (k \o w))
    BY <2>1, <2>3, <2>6, <2>9, CallLeaves
  <2>11. Leaves(x, m \o (k \o w), m \o (k \o w))
    <3>1. indent \in Int OBVIOUS
    <3> QED BY <2>6, <2>10, <3>1, IndentOr
  <2>12. Leaves(x \o y, m \o (k \o w), k \o w) BY <2>10, <2>11, LeavesJoin
  <2>13. Leaves((x \o y) \o z, m \o (k \o w), w) BY <2>9, <2>12, LeavesJoin
  <2>14. Leaves(((x \o y) \o z) \o v, m \o (k \o w), b) BY <2>8, <2>13, LeavesJoin
  <2>15. ((m \o k) \o r) \o b = m \o (k \o w)
    <3>1. PICK u : u = m \o k OBVIOUS
    <3>2. IsSeq(u) BY <2>5, <3>1, Joined
    <3>6. IsSeq(u) /\ IsSeq(r) /\ IsSeq(b) BY <2>5, <3>2
    <3>5. (u \o r) \o b = u \o (r \o b) BY <3>6, Grouped
    <3>3. (u \o r) \o b = u \o w BY <2>1, <3>5
    <3>4. (m \o k) \o w = m \o (k \o w) BY <2>5, <2>8, Grouped
    <3> QED BY <3>1, <3>3, <3>4
  <2> QED BY <2>4, <2>7, <2>14, <2>15
<1>4. CASE ~(i <= n)
  <2>1. i = n + 1 BY <1>1, <1>2, <1>4
  <2>2. PICK p : p = <<Parens[2]>> OBVIOUS
  <2>3. RestOf(o)[i] = p BY <1>1, <2>1, <2>2, RestSound
  <2>4. PICK x, y : /\ x = IF pretty /\ n > 0 THEN Indent(indent - IndentSpaces) ELSE <<>>
                    /\ y = <<Piece(<<")">>)>>
    OBVIOUS
  <2>5. Round(o, i, indent) = x \o y BY <1>1, <1>4, <2>4 DEF Round
  <2>6. IsSeq(p) BY <2>2, OneLong
  <2>7. Leaves(y, p \o b, b) /\ IsSeq(p \o b)
    <3>1. PICK s : s = <<")">> OBVIOUS
    <3>2. s \in Seq(Char) BY <3>1, CharOne DEF Marks
    <3>3. LaidOut(s, p) BY <2>2, <3>1, SymbolLaid
    <3> QED BY <2>4, <2>6, <3>1, <3>2, <3>3, PieceLeaves
  <2>8. Leaves(x, p \o b, p \o b)
    <3>1. indent - IndentSpaces \in Int /\ (pretty /\ n > 0) \in BOOLEAN BY IndentNat
    <3> QED BY <2>4, <2>7, <3>1, IndentOr
  <2>9. Leaves(x \o y, p \o b, b) BY <2>7, <2>8, LeavesJoin
  <2> QED BY <2>3, <2>5, <2>9
<1> QED BY <1>3, <1>4

-----------------------------------------------------------------------------
(* The writing *)

(* s is laid out as the first tokens of o, and the steps p leave the rest.  *)
Half(o, s, p) ==
    /\ o \in Trees /\ s \in Seq(Char)
    /\ \E m, a : /\ IsSeq(m) /\ LaidOut(s, m) /\ m \o a = Shown[o]
                 /\ Leaves(p, a, <<>>)

(* The writing begins with nothing written and all to be written. *)
LEMMA HalfBegins == ASSUME NEW o \in Trees PROVE Half(o, <<>>, <<Call(o, 0)>>)
<1>1. <<>> \in Seq(Char) /\ IsSeq(<<>>) /\ Len(<<>>) = 0 BY DEF IsSeq
<1>2. LaidOut(<<>>, <<>>) BY <1>1, BlankLaid
<1>3. 0 \in Nat OBVIOUS
<1>4. Leaves(<<Call(o, 0)>>, Shown[o] \o <<>>, <<>>) /\ IsSeq(Shown[o])
  BY <1>1, <1>3, CallLeaves
<1>5. PICK a : a = Shown[o] OBVIOUS
<1>6. a \o <<>> = a /\ <<>> \o a = a BY <1>4, <1>5, NoneBeside
<1>7. Leaves(<<Call(o, 0)>>, a, <<>>) BY <1>4, <1>5, <1>6
<1> QED BY <1>1, <1>2, <1>5, <1>6, <1>7 DEF Half

(* An append is done, or fails unseen and only white space is lost. *)
LEMMA HalfAppends ==
    ASSUME NEW o, NEW s, NEW p, Half(o, s, p), p # <<>>, Head(p).do = "append"
    PROVE  /\ Half(o, s \o Head(p).text, Tail(p))
           /\ ~Head(p).checked => Half(o, s, Tail(p))
<1>1. PICK m, a : /\ IsSeq(m) /\ LaidOut(s, m) /\ m \o a = Shown[o]
                  /\ Leaves(p, a, <<>>)
  BY DEF Half
<1>2. o \in Trees /\ s \in Seq(Char) BY DEF Half
<1>3. PICK b : Fits(Head(p), a, b) /\ Leaves(Tail(p), b, <<>>) BY <1>1, LeavesHead
<1>4. PICK x : x = Head(p) OBVIOUS
<1>5. x.do = "append" BY <1>4
<1>6. IsSeq(a) /\ IsSeq(b) BY <1>3 DEF Fits
<1>7. PICK k : IsSeq(k) /\ a = k \o b /\ Writes(x, k)
  <2>1. x.do # "object" /\ x.do # "items" BY <1>5
  <2> QED BY <1>3, <1>4, <2>1 DEF Fits
<1>8. x.text \in Seq(Char) /\ LaidOut(x.text, k) /\ (~x.checked => k = <<>>)
  BY <1>7 DEF Writes
<1>9. (m \o k) \o b = Shown[o]
  <2>1. (m \o k) \o b = m \o (k \o b) BY <1>1, <1>6, <1>7, Grouped
  <2> QED BY <1>1, <1>7, <2>1
<1>10. Half(o, s \o Head(p).text, Tail(p))
  <2>1. PICK u, w : u = s \o x.text /\ w = m \o k OBVIOUS
  <2>2. s \o x.text \in Seq(Char) /\ IsSeq(m \o k) /\ LaidOut(s \o x.text, m \o k)
    <3>1. PICK y : y = x.text OBVIOUS
    <3>2. y \in Seq(Char) /\ LaidOut(y, k) BY <1>8, <3>1
    <3>3. s \o y \in Seq(Char) /\ IsSeq(m \o k) /\ LaidOut(s \o y, m \o k)
      BY <1>1, <1>2, <1>7, <3>2, TwoLaid
    <3> QED BY <3>1, <3>3
  <2>3. u \in Seq(Char) /\ IsSeq(w) /\ LaidOut(u, w) BY <2>1, <2>2
  <2>4. w \o b = Shown[o] BY <1>9, <2>1
  <2>5. Half(o, u, Tail(p)) BY <1>2, <1>3, <2>3, <2>4 DEF Half
  <2> QED BY <1>4, <2>1, <2>5
<1>11. ASSUME ~Head(p).checked PROVE Half(o, s, Tail(p))
  <2>1. k = <<>> BY <1>4, <1>8, <1>11
  <2>2. a = b BY <1>6, <1>7, <2>1, NoneBeside
  <2> QED BY <1>1, <1>2, <1>3, <2>2 DEF Half
<1> QED BY <1>10, <1>11

(* Steps that are others in their place. *)
LEMMA HalfReplaced ==
    ASSUME NEW o, NEW s, NEW p, Half(o, s, p), p # <<>>, NEW q,
           \A a, b : Fits(Head(p), a, b) => Leaves(q, a, b)
    PROVE  Half(o, s, q \o Tail(p))
<1>1. PICK m, a : /\ IsSeq(m) /\ LaidOut(s, m) /\ m \o a = Shown[o]
                  /\ Leaves(p, a, <<>>)
  BY DEF Half
<1>2. o \in Trees /\ s \in Seq(Char) BY DEF Half
<1>3. PICK b : Fits(Head(p), a, b) /\ Leaves(Tail(p), b, <<>>) BY <1>1, LeavesHead
<1>4. Leaves(q, a, b) BY <1>3
<1>5. Leaves(q \o Tail(p), a, <<>>) BY <1>3, <1>4, LeavesJoin
<1> QED BY <1>1, <1>2, <1>5 DEF Half

(* A call begins. *)
LEMMA HalfCalls ==
    ASSUME NEW o, NEW s, NEW p, Half(o, s, p), p # <<>>, Head(p).do = "object",
           Head(p).of.type # "null", pretty \in BOOLEAN
    PROVE  Half(o, s, Begin(Head(p).of, Head(p).indent) \o Tail(p))
<1>1. PICK x : x = Head(p) OBVIOUS
<1>2. PICK q : q = Begin(x.of, x.indent) OBVIOUS
<1>3. ASSUME NEW a, NEW b, Fits(x, a, b) PROVE Leaves(q, a, b)
  <2>1. x.do # "append" /\ x.do # "items" BY <1>1
  <2>2. x.of \in Trees /\ x.indent \in Nat /\ a = Shown[x.of] \o b /\ IsSeq(b)
    BY <1>3, <2>1 DEF Fits
  <2>3. PICK e, i : e = x.of /\ i = x.indent OBVIOUS
  <2>4. e \in Trees /\ e.type # "null" /\ i \in Nat BY <1>1, <2>2, <2>3
  <2>5. Leaves(Begin(e, i), Shown[e] \o b, b) BY <2>2, <2>4, BeginLeaves
  <2> QED BY <1>2, <2>2, <2>3, <2>5
<1>4. Half(o, s, q \o Tail(p)) BY <1>1, <1>3, HalfReplaced
<1> QED BY <1>1, <1>2, <1>4

(* A loop goes on. *)
LEMMA HalfLoops ==
    ASSUME NEW o, NEW s, NEW p, Half(o, s, p), p # <<>>, Head(p).do = "items",
           pretty \in BOOLEAN
    PROVE  Half(o, s, Round(Head(p).of, Head(p).from, Head(p).indent) \o Tail(p))
<1>1. PICK x : x = Head(p) OBVIOUS
<1>2. PICK q : q = Round(x.of, x.from, x.indent) OBVIOUS
<1>3. ASSUME NEW a, NEW b, Fits(x, a, b) PROVE Leaves(q, a, b)
  <2>1. x.do # "append" /\ x.do # "object" BY <1>1
  <2>2. /\ x.of \in Trees /\ x.indent \in Nat /\ IsSeq(b)
        /\ x.from \in 1 .. Len(x.of.items) + 1
        /\ a = RestOf(x.of)[x.from] \o b
    BY <1>3, <2>1 DEF Fits
  <2>3. PICK e, i, j : e = x.of /\ i = x.indent /\ j = x.from OBVIOUS
  <2>4. e \in Trees /\ i \in Nat /\ j \in 1 .. Len(e.items) + 1 BY <2>2, <2>3
  <2>5. Leaves(Round(e, j, i), RestOf(e)[j] \o b, b) BY <2>2, <2>4, RoundLeaves
  <2> QED BY <1>2, <2>2, <2>3, <2>5
<1>4. Half(o, s, q \o Tail(p)) BY <1>1, <1>3, HalfReplaced
<1> QED BY <1>1, <1>2, <1>4

(* As no step is left, all tokens are written. *)
LEMMA HalfIsAll ==
    ASSUME NEW o, NEW s, Half(o, s, <<>>)
    PROVE  o \in Trees /\ s \in Seq(Char) /\ LaidOut(s, Shown[o])
<1>1. PICK m, a : /\ IsSeq(m) /\ LaidOut(s, m) /\ m \o a = Shown[o]
                  /\ Leaves(<<>>, a, <<>>)
  BY DEF Half
<1>2. a = <<>> BY <1>1, LeavesSeq
<1>3. m = Shown[o] BY <1>1, <1>2, NoneBeside
<1> QED BY <1>1, <1>3 DEF Half

-----------------------------------------------------------------------------
(* The states of the writing *)

Unread == /\ src = <<>> /\ at = [pos |-> 1, line |-> 1, col |-> 1]
          /\ mode = "skip" /\ start = at /\ reads = <<>>
WritingInv ==
    outcome = "writing" => Unread /\ pretty \in BOOLEAN /\ Half(tree, out, todo)

(* The writing begins so. *)
LEMMA WritingBegins == TextInit => WritingInv
<1>1. ASSUME TextInit, outcome = "writing"
      PROVE  Unread /\ pretty \in BOOLEAN /\ Half(tree, out, todo)
  <2>1. /\ LexInit(<<>>) /\ tree \in Trees /\ pretty \in BOOLEAN
        /\ todo = <<Call(tree, 0)>> /\ out = <<>>
    BY <1>1 DEF TextInit
  <2>2. Half(tree, <<>>, <<Call(tree, 0)>>) BY <2>1, HalfBegins
  <2>3. Unread BY <2>1 DEF LexInit, Unread
  <2> QED BY <2>1, <2>2, <2>3
<1> QED BY <1>1 DEF WritingInv

(* What each step of the writing does to what is written. *)
LEMMA WritingStays == ASSUME WritingInv, TextNext PROVE WritingInv'
<1> SUFFICES ASSUME outcome' = "writing"
             PROVE  /\ Unread' /\ pretty' \in BOOLEAN
                    /\ Half(tree', out', todo')
  BY DEF WritingInv
<1>1. ASSUME outcome = "writing", todo # <<>>, UNCHANGED <<lexVars, tree, pretty>>,
             Half(tree, out', todo')
      PROVE  Unread' /\ pretty' \in BOOLEAN /\ Half(tree', out', todo')
  <2>1. Unread /\ pretty \in BOOLEAN BY <1>1 DEF WritingInv
  <2>2. UNCHANGED <<src, at, mode, start, reads>> /\ tree' = tree /\ pretty' = pretty
    BY <1>1 DEF lexVars
  <2>3. Unread' BY <2>1, <2>2 DEF Unread
  <2> QED BY <1>1, <2>1, <2>2, <2>3
<1>2. ASSUME outcome = "writing" PROVE pretty \in BOOLEAN /\ Half(tree, out, todo)
  BY <1>2 DEF WritingInv
<1>3. CASE AppendDone
  <2>1. /\ outcome = "writing" /\ todo # <<>> /\ UNCHANGED <<lexVars, tree, pretty>>
        /\ Head(todo).do = "append" /\ out' = out \o Head(todo).text
        /\ todo' = Tail(todo)
    BY <1>3 DEF AppendDone, Appends, Writing
  <2>2. Half(tree, out \o Head(todo).text, Tail(todo)) BY <1>2, <2>1, HalfAppends
  <2> QED BY <1>1, <2>1, <2>2
<1>4. CASE LooseFails
  <2>1. /\ outcome = "writing" /\ todo # <<>> /\ UNCHANGED <<lexVars, tree, pretty>>
        /\ Head(todo).do = "append" /\ ~Head(todo).checked
        /\ out' = out /\ todo' = Tail(todo)
    BY <1>4 DEF LooseFails, Appends, Writing
  <2>2. Half(tree, out, Tail(todo)) BY <1>2, <2>1, HalfAppends
  <2> QED BY <1>1, <2>1, <2>2
<1>5. CASE CallBegins
  <2>1. /\ outcome = "writing" /\ todo # <<>> /\ UNCHANGED <<lexVars, tree, pretty>>
        /\ Head(todo).do = "object" /\ Head(todo).of.type # "null"
        /\ out' = out
        /\ todo' = Begin(Head(todo).of, Head(todo).indent) \o Tail(todo)
    BY <1>5 DEF CallBegins, Writing
  <2>2. Half(tree, out, Begin(Head(todo).of, Head(todo).indent) \o Tail(todo))
    BY <1>2, <2>1, HalfCalls
  <2> QED BY <1>1, <2>1, <2>2
<1>6. CASE LoopGoesOn
  <2>1. /\ outcome = "writing" /\ todo # <<>> /\ UNCHANGED <<lexVars, tree, pretty>>
        /\ Head(todo).do = "items" /\ out' = out
        /\ todo' = Round(Head(todo).of, Head(todo).from, Head(todo).indent)
                     \o Tail(todo)
    BY <1>6 DEF LoopGoesOn, Writing
  <2>2. Half(tree, out, Round(Head(todo).of, Head(todo).from, Head(todo).indent)
                          \o Tail(todo))
    BY <1>2, <2>1, HalfLoops
  <2> QED BY <1>1, <2>1, <2>2
<1>7. CASE PieceFails \/ CallRefused \/ Returned
  BY <1>7 DEF PieceFails, CallRefused, Returned
<1>8. CASE Lexes BY <1>8 DEF Lexes, serVars
<1>9. CASE Rests
  <2>1. UNCHANGED <<src, at, mode, start, reads, tree, pretty, todo, out, outcome>>
    BY <1>9 DEF Rests, textVars, lexVars, serVars
  <2>2. Unread /\ pretty \in BOOLEAN /\ Half(tree, out, todo) BY <2>1 DEF WritingInv
  <2>3. Unread' BY <2>1, <2>2 DEF Unread
  <2> QED BY <2>1, <2>2, <2>3
<1> QED BY <1>3, <1>4, <1>5, <1>6, <1>7, <1>8, <1>9 DEF TextNext

-----------------------------------------------------------------------------
(* The characters of a text that was written *)

Signs == {"(", ")", ",", "#", "-"}

(* White space is no other character. *)
LEMMA BlankApart ==
    /\ End \notin Blank /\ FF \notin Blank /\ Quote \notin Blank
    /\ "/" \notin Blank /\ "_" \notin Blank /\ "." \notin Blank
    /\ \A c \in Signs : c \notin Blank
<1>1. \A c \in Signs : c \notin Blank BY Zenon DEF Signs, Blank, NL
<1>2. End \notin Blank /\ FF \notin Blank /\ Quote \notin Blank
  BY Zenon DEF Blank, NL, End, FF, Quote
<1>3. "/" \notin Blank /\ "_" \notin Blank /\ "." \notin Blank
  BY Zenon DEF Blank, NL
<1> QED BY <1>1, <1>2, <1>3

(* Letters and digits are no other characters. *)
LEMMA ClassesApart ==
    \A c \in Letter \cup Digit :
        /\ c \notin Blank /\ c \notin Signs
        /\ c \notin {End, FF, Quote, Backslash, "$", "_", "/", "*"}
<1>1. \A c \in Letter \cup Digit :
        /\ c \notin Blank
        /\ c \notin {End, FF, Quote, Backslash, "$", "_", "-", "/", "*"}
  BY ClassAssumption, Zenon
<1>2. \A c \in Letter \cup Digit : c \notin {"(", ")", ",", "#"}
  BY TextAssumption, Zenon
<1> QED BY <1>1, <1>2 DEF Signs

LEMMA LetterNoDigit == \A c \in Letter : c \notin Digit
BY TextAssumption, Zenon

(* The characters of names and numbers can be read again. *)
LEMMA PlainReads ==
    \A c : c \in Letter \cup Digit \cup Signs \cup {"_", "."} => c \notin Control \cup {FF}
<1>1. Control \cap (Letter \cup Digit \cup {"(", ")", ",", "#", "-", "_", ".", NL,
                                            "\t", "\r", Quote, Backslash}) = {}
  BY TextAssumption, Zenon
<1>2. \A c : c \in Letter \cup Digit \cup Signs \cup {"_", "."} => c \notin Control
  BY <1>1, Zenon DEF Signs
<1>3. \A c \in Letter \cup Digit : c # FF BY ClassesApart
<1>4. \A c \in Signs \cup {"_", "."} : c # FF BY DEF Signs, FF
<1> QED BY <1>2, <1>3, <1>4

(* The characters that are written as an escape can be read again. *)
LEMMA EscapedReads ==
    \A c \in {NL, "\t", "\r", Quote, Backslash} : c \notin Control \cup {FF}
<1>1. Control \cap (Letter \cup Digit \cup {"(", ")", ",", "#", "-", "_", ".", NL,
                                            "\t", "\r", Quote, Backslash}) = {}
  BY TextAssumption, Zenon
<1>2. \A c \in {NL, "\t", "\r", Quote, Backslash} : c \notin Control
  BY <1>1, Zenon
<1>3. \A c \in {NL, "\t", "\r", Quote, Backslash} : c # FF
  BY Zenon DEF NL, FF, Quote, Backslash
<1> QED BY <1>2, <1>3

-----------------------------------------------------------------------------
(* What a token begins with *)

IsString(tok, b, e, c) ==
    tok[1] = "string" /\ c = Quote /\ \E d : Literal(src, b, e, tok[2], d)
IsWord(tok, b, e, c) ==
    /\ Name(tok[2]) /\ tok[1] = WordType(tok[2]) /\ c \in Letter \cup {"_"}
    /\ e = b + Len(tok[2]) /\ At(src, b, tok[2])
IsNumber(tok, b, e, c) ==
    /\ Numeral(tok[2]) /\ tok[1] = "integer" /\ c \in Digit
    /\ e = b + Len(tok[2]) /\ At(src, b, tok[2])
IsSign(tok, b, e, c) ==
    /\ c \in Signs /\ tok[1] = Single[c] /\ tok[2] = <<c>> /\ e = b + 1
Begins(tok, b, e) ==
    \E c : /\ src[b] = c /\ Peek(b) = c /\ c \notin Blank /\ c # End /\ c # "/"
           /\ \/ IsString(tok, b, e, c) \/ IsWord(tok, b, e, c)
              \/ IsNumber(tok, b, e, c) \/ IsSign(tok, b, e, c)

(* The types of the signs; none of them begins a symbol of two. *)
LEMMA SignIs ==
    /\ Single["("] = "lparen" /\ Single[")"] = "rparen" /\ Single[","] = "comma"
    /\ Single["#"] = "hash" /\ Single["-"] = "minus"
    /\ Signs \subseteq DOMAIN Single /\ \A c \in Signs : c \notin DOMAIN Second
<1>1. DOMAIN Single = {"(", ")", "{", "}", "[", "]", ":", ",", "+", "-", "*",
                       "/", "=", "!", "<", ">", "|", ".", "#"}
  BY DEF Single
<1>2. DOMAIN Second = {"=", "!", "<", ">", "&", "|"} BY DEF Second
<1>3. /\ Single["("] = "lparen" /\ Single[")"] = "rparen" /\ Single[","] = "comma"
      /\ Single["#"] = "hash" /\ Single["-"] = "minus"
  BY DEF Single
<1> QED BY <1>1, <1>2, <1>3 DEF Signs

(* A token that is spelt in the text begins as the lexer expects. *)
LEMMA TokenBegins ==
    ASSUME Text, NEW tok, NEW b, NEW e, Spelt(src, b, e, tok)
    PROVE  Begins(tok, b, e)
<1>1. /\ b \in Nat /\ e \in Nat /\ 1 <= b /\ b < e /\ e <= Len(src) + 1
      /\ IsSeq(tok[2])
  BY DEF Spelt
<1>2. Len(src) \in Nat BY DEF Text
<1>3. PICK c : c = src[b] OBVIOUS
<1>4. PICK t : t = tok[2] OBVIOUS
<1>5. Len(t) \in Nat BY <1>1, <1>4 DEF IsSeq
<1>6. c # FF => Peek(b) = c
  <2>1. ~(b > Len(src)) BY <1>1, <1>2
  <2> QED BY <1>3, <2>1 DEF Peek
<1>7. SUFFICES
        /\ c \notin Blank /\ c # End /\ c # "/" /\ c # FF
        /\ \/ IsString(tok, b, e, c) \/ IsWord(tok, b, e, c)
           \/ IsNumber(tok, b, e, c) \/ IsSign(tok, b, e, c)
  BY <1>3, <1>6 DEF Begins
<1>8. ASSUME At(src, b, t), 1 \in 1 .. Len(t) PROVE c = t[1]
  <2>1. b + 1 - 1 = b BY <1>1
  <2> QED BY <1>3, <1>8, <2>1 DEF At
<1>9. CASE tok[1] = "string" /\ \E d : Literal(src, b, e, t, d)
  <2>1. c = Quote BY <1>3, <1>9 DEF Literal
  <2>2. Quote # End /\ Quote # "/" /\ Quote # FF BY DEF Quote, End, FF
  <2>3. IsString(tok, b, e, c) BY <1>4, <1>9, <2>1 DEF IsString
  <2> QED BY <2>1, <2>2, <2>3, BlankApart
<1>10. CASE Name(t) /\ tok[1] = WordType(t) /\ e = b + Len(t) /\ At(src, b, t)
  <2>1. 1 \in 1 .. Len(t) BY <1>1, <1>5, <1>10
  <2>2. c \in Letter \cup {"_"} BY <1>8, <1>10, <2>1 DEF Name
  <2>3. "_" # End /\ "_" # "/" /\ "_" # FF BY DEF End, FF
  <2>4. IsWord(tok, b, e, c) BY <1>4, <1>10, <2>2 DEF IsWord
  <2> QED BY <2>2, <2>3, <2>4, BlankApart, ClassesApart
<1>11. CASE Numeral(t) /\ tok[1] = "integer" /\ e = b + Len(t) /\ At(src, b, t)
  <2>1. 1 \in 1 .. Len(t) BY <1>1, <1>5, <1>11
  <2>2. c \in Digit BY <1>8, <1>11, <2>1 DEF Numeral
  <2>3. IsNumber(tok, b, e, c) BY <1>4, <1>11, <2>2 DEF IsNumber
  <2> QED BY <2>2, <2>3, ClassesApart
<1>12. CASE /\ tok \in {<<"lparen", <<"(">>>>, <<"rparen", <<")">>>>,
                        <<"comma", <<",">>>>, <<"hash", <<"#">>>>, <<"minus", <<"-">>>>}
            /\ e = b + Len(t) /\ At(src, b, t)
  <2>1. \E d \in Signs : t = <<d>> /\ tok[1] = Single[d]
    <3>1. ASSUME NEW type, NEW d \in Signs, Single[d] = type, tok = <<type, <<d>>>>
          PROVE  \E x \in Signs : t = <<x>> /\ tok[1] = Single[x]
      <4>1. tok[1] = type /\ t = <<d>> BY <1>4, <3>1
      <4> QED BY <3>1, <4>1
    <3>2. {"(", ")", ",", "#", "-"} \subseteq Signs BY DEF Signs
    <3>3. CASE tok = <<"lparen", <<"(">>>> BY <3>1, <3>2, <3>3, SignIs
    <3>4. CASE tok = <<"rparen", <<")">>>> BY <3>1, <3>2, <3>4, SignIs
    <3>5. CASE tok = <<"comma", <<",">>>> BY <3>1, <3>2, <3>5, SignIs
    <3>6. CASE tok = <<"hash", <<"#">>>> BY <3>1, <3>2, <3>6, SignIs
    <3>7. CASE tok = <<"minus", <<"-">>>> BY <3>1, <3>2, <3>7, SignIs
    <3> QED BY <1>12, <3>3, <3>4, <3>5, <3>6, <3>7
  <2>9. PICK d \in Signs : t = <<d>> /\ tok[1] = Single[d] BY <2>1
  <2>2. Len(t) = 1 /\ t[1] = d BY <2>9
  <2>3. c = d /\ e = b + 1
    <3>1. 1 \in 1 .. Len(t) BY <2>2
    <3> QED BY <1>8, <1>12, <2>2, <3>1
  <2>4. IsSign(tok, b, e, c) BY <1>4, <2>9, <2>3 DEF IsSign
  <2>5. c # End /\ c # "/" /\ c # FF BY <2>3 DEF Signs, End, FF
  <2> QED BY <2>3, <2>4, <2>5, BlankApart
<1> QED BY <1>4, <1>9, <1>10, <1>11, <1>12 DEF Spelt, Plain

(* The types of tokens, none of them an error. *)
LEMMA TokenTypes ==
    ASSUME Text, NEW tok, NEW b, NEW e, Spelt(src, b, e, tok)
    PROVE  tok[1] # "error" /\ tok[1] # "eof"
<1>1. Begins(tok, b, e) BY TokenBegins
<1>2. WordType(tok[2]) \notin {"error", "eof"} BY WordTypes
<1>3. \A c \in Signs : Single[c] \notin {"error", "eof"} BY SymbolTypes, SignIs
<1> QED BY <1>1, <1>2, <1>3 DEF Begins, IsString, IsWord, IsNumber, IsSign

-----------------------------------------------------------------------------
(* The states of the reading *)

Clear(tok) == \A j \in DOMAIN tok[2] : tok[2][j] \notin Control \cup {FF}
Right(r, tok) == Clear(tok) /\ r.type = tok[1] /\ (r.whole => r.text = tok[2])
Broken(m, rs) == ~Readable(m) /\ \E i \in DOMAIN rs : rs[i].type = "error"
Upto(m, rs) == \A i \in 1 .. Len(rs) : i <= Len(m) => Right(rs[i], m[i])
Ended(m, rs) ==
    /\ Len(rs) = Len(m) + 1 /\ rs[Len(m) + 1].type = "eof"
    /\ rs[Len(m) + 1].text = <<>>

(* Within a token from b to e, with the text x read of it, or some of x    *)
(* lost.                                                                   *)
InString(p, x, l, tok, b, e) ==
    /\ tok[1] = "string"
    /\ \E c, j :
         /\ Literal(src, b, e, tok[2], c) /\ j \in 0 .. Len(tok[2]) /\ p = c[j]
         /\ \A i \in 1 .. j : tok[2][i] \notin Control \cup {FF}
         /\ ~l => IsSeq(x) /\ Len(x) = j /\ \A i \in 1 .. j : x[i] = tok[2][i]
InPlain(p, md, tok, b, e) ==
    /\ b <= p /\ p <= e /\ e = b + Len(tok[2]) /\ At(src, b, tok[2])
    /\ \/ md = "word" /\ Name(tok[2]) /\ tok[1] = WordType(tok[2])
       \/ md = "number" /\ Numeral(tok[2]) /\ tok[1] = "integer"

(* Before the token k + 1 or within it. *)
AtGap(p, md, k, m, f, t) ==
    md = "skip" /\ k <= Len(m) /\ t[k] <= p /\ p <= f[k + 1]
Amid(p, b, md, x, l, k, m, f, t) ==
    /\ k < Len(m) /\ b = f[k + 1]
    /\ \/ md = "string" /\ InString(p, x, l, m[k + 1], f[k + 1], t[k + 1])
       \/ InPlain(p, md, m[k + 1], f[k + 1], t[k + 1])
Comes(m, f, t) ==
    /\ Upto(m, reads)
    /\ \/ AtGap(at.pos, mode, Len(reads), m, f, t)
       \/ Amid(at.pos, start.pos, mode, text, lost, Len(reads), m, f, t)
       \/ mode = "done" /\ Ended(m, reads)
ReadsOn(m, f, t) == Broken(m, reads) \/ Comes(m, f, t)

Stage(m, f, t) == LInv /\ Sound(m) /\ Laid(src, m, f, t)

(* What the lexer and the layout are made of. *)
LEMMA StageIs ==
    ASSUME NEW m, NEW f, NEW t, Stage(m, f, t)
    PROVE  /\ Text /\ Good(at) /\ Good(start) /\ IsSeq(reads) /\ IsSeq(m)
           /\ Len(reads) \in Nat /\ Len(m) \in Nat /\ Len(src) \in Nat
           /\ DOMAIN reads = 1 .. Len(reads) /\ DOMAIN m = 1 .. Len(m)
           /\ at.pos \in Nat /\ 1 <= at.pos /\ at.pos <= Len(src) + 1
<1>1. Text /\ Good(at) /\ Good(start) /\ IsSeq(reads) /\ IsSeq(m)
  BY DEF Stage, LInv, Sound
<1>2. /\ Len(reads) \in Nat /\ Len(m) \in Nat
      /\ DOMAIN reads = 1 .. Len(reads) /\ DOMAIN m = 1 .. Len(m)
  BY <1>1 DEF IsSeq
<1>3. Len(src) \in Nat BY <1>1 DEF Text
<1> QED BY <1>1, <1>2, <1>3 DEF Good, Place

(* The layout, place by place. *)
LEMMA StageAt ==
    ASSUME NEW m, NEW f, NEW t, Stage(m, f, t)
    PROVE  /\ \A i \in 0 .. Len(m) :
                /\ t[i] \in Nat /\ f[i + 1] \in Nat /\ 1 <= t[i]
                /\ t[i] <= f[i + 1] /\ f[i + 1] <= Len(src) + 1
                /\ \A p \in t[i] .. f[i + 1] - 1 : src[p] \in Blank
           /\ \A i \in 1 .. Len(m) :
                /\ f[i] < t[i] /\ f[i] \in Nat /\ Spelt(src, f[i], t[i], m[i])
           /\ f[Len(m) + 1] = Len(src) + 1
<1>1. Laid(src, m, f, t) BY DEF Stage
<1>2. Len(src) \in Nat /\ Len(m) \in Nat BY StageIs
<1>3. /\ \A i \in 1 .. Len(m) + 1 :
           f[i] \in Nat /\ 1 <= f[i] /\ f[i] <= Len(src) + 1
      /\ \A i \in 0 .. Len(m) :
           t[i] \in Nat /\ 1 <= t[i] /\ t[i] <= Len(src) + 1
      /\ \A i \in 1 .. Len(m) : f[i] < t[i] /\ f[i] <= Len(src)
  BY <1>1, <1>2, LaidRange
<1>4. \A i \in 0 .. Len(m) : i + 1 \in 1 .. Len(m) + 1 BY <1>2
<1>5. \A i \in 1 .. Len(m) : i \in 1 .. Len(m) + 1 BY <1>2
<1>6. /\ f[Len(m) + 1] = Len(src) + 1
      /\ \A i \in 0 .. Len(m) :
           t[i] <= f[i + 1] /\ \A p \in t[i] .. f[i + 1] - 1 : src[p] \in Blank
      /\ \A i \in 1 .. Len(m) : Spelt(src, f[i], t[i], m[i])
  BY <1>1 DEF Laid
<1> QED BY <1>3, <1>4, <1>5, <1>6

(* What lies ahead between two tokens. *)
Nears(k, m, f, t) ==
    \/ at.pos < f[k + 1] /\ Ahead \in Blank
    \/ at.pos = f[k + 1] /\ k = Len(m) /\ Ahead = End
    \/ at.pos = f[k + 1] /\ k < Len(m) /\ Begins(m[k + 1], f[k + 1], t[k + 1])

(* The lexer sees white space where it stands. *)
LEMMA BlankAt ==
    ASSUME Text, NEW p \in Nat, 1 <= p, p <= Len(src), src[p] \in Blank
    PROVE  Peek(p) = src[p]
<1>1. src[p] # FF BY BlankApart
<1>2. ~(p > Len(src))
  <2>1. Len(src) \in Nat BY DEF Text
  <2> QED BY <2>1
<1> QED BY <1>1, <1>2 DEF Peek

(* Between two tokens the lexer sees white space, the end or a token. *)
LEMMA NearsIs ==
    ASSUME NEW m, NEW f, NEW t, Stage(m, f, t), NEW k \in Nat,
           AtGap(at.pos, mode, k, m, f, t)
    PROVE  Nears(k, m, f, t)
<1>1. PICK p, x : p = at.pos /\ x = f[k + 1] OBVIOUS
<1>2. /\ Text /\ Len(src) \in Nat /\ Len(m) \in Nat /\ p \in Nat /\ 1 <= p
      /\ p <= Len(src) + 1
  BY <1>1, StageIs
<1>3. k \in 0 .. Len(m) /\ t[k] <= p /\ p <= x BY <1>1, <1>2 DEF AtGap
<1>4. t[k] \in Nat /\ x \in Nat /\ x <= Len(src) + 1 BY <1>1, <1>3, StageAt
<1>5. CASE p < x
  <2>1. p \in t[k] .. x - 1 /\ p <= Len(src) BY <1>2, <1>3, <1>4, <1>5
  <2>2. src[p] \in Blank BY <1>1, <1>3, <2>1, StageAt
  <2>3. Peek(p) \in Blank BY <1>2, <2>1, <2>2, BlankAt
  <2> QED BY <1>1, <1>5, <2>3 DEF Nears, Ahead
<1>6. CASE p = x /\ k = Len(m)
  <2>1. x = Len(src) + 1 BY <1>1, <1>6, StageAt
  <2>2. p > Len(src) BY <1>2, <1>6, <2>1
  <2>3. Peek(p) = End BY <2>2 DEF Peek
  <2> QED BY <1>1, <1>6, <2>3 DEF Nears, Ahead
<1>7. CASE p = x /\ k < Len(m)
  <2>1. PICK j : j = k + 1 OBVIOUS
  <2>2. j \in 1 .. Len(m) BY <1>2, <1>3, <1>7, <2>1
  <2>3. Spelt(src, f[j], t[j], m[j]) BY <2>2, StageAt
  <2>4. Begins(m[j], f[j], t[j]) BY <1>2, <2>3, TokenBegins
  <2> QED BY <1>1, <1>7, <2>1, <2>4 DEF Nears
<1> QED BY <1>2, <1>3, <1>4, <1>5, <1>6, <1>7

(* It never sees the beginning of a comment. *)
LEMMA NearsNoComment ==
    ASSUME NEW m, NEW f, NEW t, NEW k, Nears(k, m, f, t)
    PROVE  Ahead # "/"
<1>1. CASE Ahead \in Blank BY <1>1, BlankApart
<1>2. CASE Ahead = End BY <1>2 DEF End
<1>3. CASE at.pos = f[k + 1] /\ Begins(m[k + 1], f[k + 1], t[k + 1])
  BY <1>3 DEF Begins, Ahead
<1> QED BY <1>1, <1>2, <1>3 DEF Nears

-----------------------------------------------------------------------------
(* What becomes of the states *)

(* One more token is right. *)
LEMMA UptoGrows ==
    ASSUME NEW m, NEW rs, IsSeq(rs), IsSeq(m), Upto(m, rs), NEW r,
           Len(rs) < Len(m) => Right(r, m[Len(rs) + 1])
    PROVE  Upto(m, Append(rs, r)) /\ Len(Append(rs, r)) = Len(rs) + 1
<1>1. PICK q : q = Append(rs, r) OBVIOUS
<1>2. /\ Len(rs) \in Nat /\ Len(q) = Len(rs) + 1
      /\ \A i \in 1 .. Len(rs) : q[i] = rs[i]
      /\ q[Len(rs) + 1] = r
  BY <1>1, Grown
<1>3. Len(m) \in Nat BY DEF IsSeq
<1>4. ASSUME NEW i \in 1 .. Len(q), i <= Len(m) PROVE Right(q[i], m[i])
  <2>1. CASE i <= Len(rs)
    <3>1. i \in 1 .. Len(rs) BY <1>2, <2>1
    <3> QED BY <1>2, <1>4, <3>1 DEF Upto
  <2>2. CASE ~(i <= Len(rs))
    <3>1. i = Len(rs) + 1 /\ Len(rs) < Len(m) BY <1>2, <1>3, <1>4, <2>2
    <3> QED BY <1>2, <3>1
  <2> QED BY <2>1, <2>2
<1> QED BY <1>1, <1>2, <1>4 DEF Upto

(* A token is returned and the lexer is behind it. *)
LEMMA TokenRead ==
    ASSUME NEW m, NEW f, NEW t, Stage(m, f, t), Upto(m, reads),
           NEW k, k = Len(reads), k < Len(m), NEW j, j = k + 1,
           NEW type, NEW from, NEW to, NEW x, Returns(type, from, to, x),
           type = m[j][1], to.pos = t[j], Clear(m[j]),
           ~(type = "string" /\ lost) => x = m[j][2]
    PROVE  ReadsOn(m, f, t)'
<1>1. PICK r : r = Read(type, from.pos, to.pos, from, x) OBVIOUS
<1>2. Right(r, m[j]) BY <1>1 DEF Read, Right
<1>3. IsSeq(reads) /\ IsSeq(m) /\ Text /\ k \in Nat /\ Len(m) \in Nat BY StageIs
<1>4. j \in 1 .. Len(m) /\ j \in 0 .. Len(m) /\ j <= Len(m) BY <1>3
<1>5. reads' = Append(reads, r) /\ at' = to BY <1>1 DEF Returns
<1>6. type # "eof"
  <2>1. Spelt(src, f[j], t[j], m[j]) BY <1>4, StageAt
  <2> QED BY <1>3, <2>1, TokenTypes
<1>7. mode' = "skip" BY <1>6 DEF Returns
<1>8. Upto(m, Append(reads, r)) /\ Len(Append(reads, r)) = j BY <1>2, <1>3, UptoGrows
<1>9. t[j] <= t[j] /\ t[j] <= f[j + 1] BY <1>4, StageAt
<1>10. AtGap(at'.pos, mode', j, m, f, t) BY <1>4, <1>5, <1>7, <1>9 DEF AtGap
<1>11. Upto(m, reads') /\ AtGap(at'.pos, mode', Len(reads'), m, f, t)
  BY <1>5, <1>8, <1>10
<1> QED BY <1>11 DEF ReadsOn, Comes

(* An error is told of a text that cannot be read again. *)
LEMMA ErrorRead ==
    ASSUME NEW m, NEW f, NEW t, Stage(m, f, t), ~Readable(m),
           NEW from, NEW to, NEW told, Fails(from, to, told)
    PROVE  ReadsOn(m, f, t)'
<1>1. PICK r : r = Read("error", from.pos, to.pos, told, <<>>) OBVIOUS
<1>2. r.type = "error" BY <1>1 DEF Read
<1>3. reads' = Append(reads, r) /\ IsSeq(reads) BY <1>1, StageIs DEF Fails
<1>4. PICK q : q = Append(reads, r) OBVIOUS
<1>5. /\ Len(reads) \in Nat /\ DOMAIN q = 1 .. Len(reads) + 1
      /\ q[Len(reads) + 1] = r
  BY <1>3, <1>4, Grown
<1>6. Len(reads) + 1 \in DOMAIN q BY <1>5
<1>7. Broken(m, q) BY <1>2, <1>5, <1>6 DEF Broken
<1>8. Broken(m, reads') BY <1>3, <1>4, <1>7
<1> QED BY <1>8 DEF ReadsOn

(* What is broken stays so. *)
LEMMA BrokenStays ==
    ASSUME NEW m, IsSeq(reads), Broken(m, reads), LexNext
    PROVE  Broken(m, reads')
<1>1. reads' = reads \/ \E r : reads' = Append(reads, r)
  BY DEF LexNext, SkipBlank, CommentOpens, CommentCloses, CommentGoesOn,
         CommentNeverCloses, ReadsEnd, StringOpens, WordStarts, NumberStarts,
         StringChar, StringEscape, BadEscape, StringEnds, StringNeverEnds,
         GoesOn, WordEnds, NumberEnds, Symbol, BadSymbol, Scanning, Enter,
         Returns, Fails
<1>2. ASSUME NEW r, reads' = Append(reads, r) PROVE Broken(m, reads')
  <2>1. PICK q : q = Append(reads, r) OBVIOUS
  <2>2. /\ Len(reads) \in Nat /\ DOMAIN q = 1 .. Len(reads) + 1
        /\ DOMAIN reads = 1 .. Len(reads)
        /\ \A i \in 1 .. Len(reads) : q[i] = reads[i]
    BY <2>1, Grown
  <2>3. PICK i \in DOMAIN reads : reads[i].type = "error" BY DEF Broken
  <2>4. i \in DOMAIN q /\ q[i].type = "error" BY <2>2, <2>3
  <2>5. Broken(m, q) BY <2>4 DEF Broken
  <2> QED BY <1>2, <2>1, <2>5
<1> QED BY <1>1, <1>2

-----------------------------------------------------------------------------
(* Between the tokens *)

(* Where the lexer is while it skips. *)
LEMMA InSkip ==
    ASSUME NEW m, NEW f, NEW t, Stage(m, f, t), Comes(m, f, t), mode = "skip"
    PROVE  /\ AtGap(at.pos, mode, Len(reads), m, f, t)
           /\ Nears(Len(reads), m, f, t) /\ Ahead # "/" /\ Upto(m, reads)
<1>1. mode # "string" /\ mode # "word" /\ mode # "number" /\ mode # "done" OBVIOUS
<1>2. Upto(m, reads) /\ AtGap(at.pos, mode, Len(reads), m, f, t)
  BY <1>1 DEF Comes, Amid, InPlain
<1>3. Len(reads) \in Nat BY StageIs
<1>4. Nears(Len(reads), m, f, t) BY <1>2, <1>3, NearsIs
<1> QED BY <1>2, <1>4, NearsNoComment

(* No comment begins, so that none goes on or ends. *)
LEMMA NoCommentHere ==
    ASSUME NEW m, NEW f, NEW t, Stage(m, f, t), Comes(m, f, t)
    PROVE  /\ ~CommentOpens /\ ~CommentCloses /\ ~CommentGoesOn
           /\ ~CommentNeverCloses
<1>1. mode # "comment" BY DEF Comes, AtGap, Amid, InPlain
<1>2. ~CommentOpens BY InSkip DEF CommentOpens, CommentAhead
<1> QED BY <1>1, <1>2 DEF CommentCloses, CommentGoesOn, CommentNeverCloses

(* White space is skipped, up to the next token. *)
LEMMA ReadsSkipBlank ==
    ASSUME NEW m, NEW f, NEW t, Stage(m, f, t), Comes(m, f, t), SkipBlank
    PROVE  ReadsOn(m, f, t)'
<1>1. PICK k : k = Len(reads) OBVIOUS
<1>2. mode = "skip" /\ Ahead \in Blank /\ at' = Step(at) /\ mode' = mode
      /\ reads' = reads
  BY DEF SkipBlank, Scanning
<1>3. AtGap(at.pos, mode, k, m, f, t) /\ Nears(k, m, f, t) /\ Upto(m, reads)
  BY <1>1, <1>2, InSkip
<1>4. at.pos < f[k + 1]
  <2>1. Ahead # End BY <1>2, BlankApart
  <2>2. ~(at.pos = f[k + 1] /\ Begins(m[k + 1], f[k + 1], t[k + 1]))
    BY <1>2 DEF Begins, Ahead
  <2> QED BY <1>3, <2>1, <2>2 DEF Nears
<1>5. /\ Text /\ Good(at) /\ at.pos \in Nat /\ k \in Nat BY <1>1, StageIs
<1>6. Step(at).pos = at.pos + 1
  <2>1. Peek(at.pos) # End BY <1>2, BlankApart DEF Ahead
  <2> QED BY <1>5, <2>1, StepGoes
<1>7. PICK p, x, y : p = at.pos /\ x = f[k + 1] /\ y = t[k] OBVIOUS
<1>8. k <= Len(m) /\ y <= p BY <1>3, <1>7 DEF AtGap
<1>9. k \in 0 .. Len(m)
  <2>1. Len(m) \in Nat BY StageIs
  <2> QED BY <1>5, <1>8, <2>1
<1>10. x \in Nat /\ y \in Nat BY <1>7, <1>9, StageAt
<1>11. y <= p + 1 /\ p + 1 <= x BY <1>4, <1>5, <1>7, <1>8, <1>10
<1>12. AtGap(at'.pos, mode', k, m, f, t) BY <1>2, <1>6, <1>7, <1>8, <1>11 DEF AtGap
<1>13. Upto(m, reads') /\ AtGap(at'.pos, mode', Len(reads'), m, f, t)
  BY <1>1, <1>2, <1>3, <1>12
<1> QED BY <1>13 DEF ReadsOn, Comes

(* The end is read behind all tokens. *)
LEMMA ReadsTheEnd ==
    ASSUME NEW m, NEW f, NEW t, Stage(m, f, t), Comes(m, f, t), ReadsEnd
    PROVE  ReadsOn(m, f, t)'
<1>1. PICK k : k = Len(reads) OBVIOUS
<1>2. mode = "skip" /\ Ahead = End /\ Returns("eof", at, at, <<>>)
  BY DEF ReadsEnd, TokenAhead
<1>3. Nears(k, m, f, t) /\ Upto(m, reads) BY <1>1, <1>2, InSkip
<1>4. k = Len(m)
  <2>1. Ahead \notin Blank BY <1>2, BlankApart
  <2>2. ~(at.pos = f[k + 1] /\ Begins(m[k + 1], f[k + 1], t[k + 1]))
    BY <1>2 DEF Begins, Ahead
  <2> QED BY <1>3, <2>1, <2>2 DEF Nears
<1>5. PICK r : r = Read("eof", at.pos, at.pos, at, <<>>) OBVIOUS
<1>6. r.type = "eof" /\ r.text = <<>> BY <1>5 DEF Read
<1>7. IsSeq(reads) /\ IsSeq(m) /\ k \in Nat BY <1>1, StageIs
<1>8. reads' = Append(reads, r) /\ mode' = "done" BY <1>2, <1>5 DEF Returns
<1>9. PICK q : q = Append(reads, r) OBVIOUS
<1>10. Upto(m, q) /\ Len(q) = k + 1
  <2>1. ~(Len(reads) < Len(m)) BY <1>1, <1>4, <1>7
  <2>2. Upto(m, Append(reads, r)) /\ Len(Append(reads, r)) = Len(reads) + 1
    BY <1>3, <1>7, <2>1, UptoGrows
  <2> QED BY <1>1, <1>9, <2>2
<1>11. q[k + 1] = r BY <1>1, <1>7, <1>9, Grown
<1>12. Ended(m, q) BY <1>4, <1>6, <1>10, <1>11 DEF Ended
<1>13. Upto(m, reads') /\ mode' = "done" /\ Ended(m, reads')
  BY <1>8, <1>9, <1>10, <1>12
<1> QED BY <1>13 DEF ReadsOn, Comes

(* A token lies ahead, at the first of its characters. *)
LEMMA TokenHere ==
    ASSUME NEW m, NEW f, NEW t, Stage(m, f, t), Comes(m, f, t), mode = "skip",
           Ahead \notin Blank, Ahead # End, NEW k, k = Len(reads), NEW j, j = k + 1
    PROVE  /\ Upto(m, reads) /\ k \in Nat /\ k < Len(m) /\ j \in 1 .. Len(m)
           /\ at.pos = f[j] /\ f[j] < t[j] /\ f[j] \in Nat /\ t[j] \in Nat
           /\ t[j] <= Len(src) + 1
           /\ Spelt(src, f[j], t[j], m[j])
           /\ \/ IsString(m[j], f[j], t[j], Ahead) \/ IsWord(m[j], f[j], t[j], Ahead)
              \/ IsNumber(m[j], f[j], t[j], Ahead) \/ IsSign(m[j], f[j], t[j], Ahead)
<1>1. Nears(k, m, f, t) /\ Upto(m, reads) BY InSkip
<1>2. k < Len(m) /\ at.pos = f[j] /\ Begins(m[j], f[j], t[j]) BY <1>1 DEF Nears
<1>3. k \in Nat /\ j \in 1 .. Len(m) /\ j \in 0 .. Len(m)
  <2>1. Len(reads) \in Nat /\ Len(m) \in Nat BY StageIs
  <2> QED BY <1>2, <2>1
<1>4. f[j] < t[j] /\ f[j] \in Nat /\ Spelt(src, f[j], t[j], m[j]) BY <1>3, StageAt
<1>5. t[j] \in Nat /\ t[j] <= Len(src) + 1 BY <1>4 DEF Spelt
<1>6. PICK c : /\ Peek(f[j]) = c
               /\ \/ IsString(m[j], f[j], t[j], c) \/ IsWord(m[j], f[j], t[j], c)
                  \/ IsNumber(m[j], f[j], t[j], c) \/ IsSign(m[j], f[j], t[j], c)
  BY <1>2 DEF Begins
<1>7. Ahead = c BY <1>2, <1>6 DEF Ahead
<1> QED BY <1>1, <1>2, <1>3, <1>4, <1>5, <1>6, <1>7

(* A word begins where a word is spelt. *)
LEMMA ReadsWordStarts ==
    ASSUME NEW m, NEW f, NEW t, Stage(m, f, t), Comes(m, f, t), WordStarts
    PROVE  ReadsOn(m, f, t)'
<1>1. PICK k, j : k = Len(reads) /\ j = k + 1 OBVIOUS
<1>2. /\ mode = "skip" /\ Ahead \notin Blank /\ Ahead \in Letter \cup {"_", "$"}
      /\ start' = at /\ mode' = "word" /\ at' = at /\ src' = src /\ reads' = reads
  BY DEF WordStarts, TokenAhead, Enter
<1>3. Ahead # End
  <2>1. End # "_" /\ End # "$" BY DEF End
  <2> QED BY <1>2, <2>1, ClassesApart
<1>4. /\ Upto(m, reads) /\ k \in Nat /\ k < Len(m) /\ at.pos = f[j] /\ f[j] < t[j]
      /\ f[j] \in Nat /\ t[j] \in Nat
      /\ \/ IsString(m[j], f[j], t[j], Ahead) \/ IsWord(m[j], f[j], t[j], Ahead)
         \/ IsNumber(m[j], f[j], t[j], Ahead) \/ IsSign(m[j], f[j], t[j], Ahead)
  BY <1>1, <1>2, <1>3, TokenHere
<1>5. Ahead # Quote /\ Ahead \notin Digit /\ Ahead \notin Signs
  <2>1. Quote # "_" /\ Quote # "$" /\ "_" \notin Signs /\ "$" \notin Signs
    BY DEF Quote, Signs
  <2>2. "_" \notin Digit /\ "$" \notin Digit BY ClassesApart
  <2> QED BY <1>2, <2>1, <2>2, ClassesApart, LetterNoDigit
<1>6. IsWord(m[j], f[j], t[j], Ahead)
  BY <1>4, <1>5 DEF IsString, IsNumber, IsSign
<1>7. PICK x, y, tok : x = f[j] /\ y = t[j] /\ tok = m[j] OBVIOUS
<1>8. x <= x /\ x <= y /\ x \in Nat /\ y \in Nat BY <1>4, <1>7
<1>9. /\ y = x + Len(tok[2]) /\ At(src, x, tok[2]) /\ Name(tok[2])
      /\ tok[1] = WordType(tok[2])
  BY <1>6, <1>7 DEF IsWord
<1>10. InPlain(x, "word", tok, x, y)' BY <1>2, <1>8, <1>9 DEF InPlain, At
<1>11. at'.pos = x /\ start'.pos = x BY <1>2, <1>4, <1>7
<1>12. Amid(at.pos, start.pos, mode, text, lost, k, m, f, t)'
  BY <1>1, <1>2, <1>4, <1>7, <1>10, <1>11 DEF Amid
<1>13. Upto(m, reads)' BY <1>2, <1>4
<1>14. Len(reads)' = k BY <1>1, <1>2
<1> QED BY <1>12, <1>13, <1>14 DEF ReadsOn, Comes

(* A number begins where a number is spelt. *)
LEMMA ReadsNumberStarts ==
    ASSUME NEW m, NEW f, NEW t, Stage(m, f, t), Comes(m, f, t), NumberStarts
    PROVE  ReadsOn(m, f, t)'
<1>1. PICK k, j : k = Len(reads) /\ j = k + 1 OBVIOUS
<1>2. /\ mode = "skip" /\ Ahead \notin Blank /\ Ahead \in Digit
      /\ start' = at /\ mode' = "number" /\ at' = at /\ src' = src /\ reads' = reads
  BY DEF NumberStarts, TokenAhead, Enter
<1>3. Ahead # End BY <1>2, ClassesApart
<1>4. /\ Upto(m, reads) /\ k \in Nat /\ k < Len(m) /\ at.pos = f[j] /\ f[j] < t[j]
      /\ f[j] \in Nat /\ t[j] \in Nat
      /\ \/ IsString(m[j], f[j], t[j], Ahead) \/ IsWord(m[j], f[j], t[j], Ahead)
         \/ IsNumber(m[j], f[j], t[j], Ahead) \/ IsSign(m[j], f[j], t[j], Ahead)
  BY <1>1, <1>2, <1>3, TokenHere
<1>5. Ahead # Quote /\ Ahead \notin Letter /\ Ahead # "_" /\ Ahead \notin Signs
  BY <1>2, ClassesApart, LetterNoDigit
<1>6. IsNumber(m[j], f[j], t[j], Ahead)
  BY <1>4, <1>5 DEF IsString, IsWord, IsSign
<1>7. PICK x, y, tok : x = f[j] /\ y = t[j] /\ tok = m[j] OBVIOUS
<1>8. x <= x /\ x <= y /\ x \in Nat /\ y \in Nat BY <1>4, <1>7
<1>9. /\ y = x + Len(tok[2]) /\ At(src, x, tok[2]) /\ Numeral(tok[2])
      /\ tok[1] = "integer"
  BY <1>6, <1>7 DEF IsNumber
<1>10. InPlain(x, "number", tok, x, y)' BY <1>2, <1>8, <1>9 DEF InPlain, At
<1>11. at'.pos = x /\ start'.pos = x BY <1>2, <1>4, <1>7
<1>12. Amid(at.pos, start.pos, mode, text, lost, k, m, f, t)'
  BY <1>1, <1>2, <1>4, <1>7, <1>10, <1>11 DEF Amid
<1>13. Upto(m, reads)' BY <1>2, <1>4
<1>14. Len(reads)' = k BY <1>1, <1>2
<1> QED BY <1>12, <1>13, <1>14 DEF ReadsOn, Comes

(* Any other character is one of the signs. *)
LEMMA SignHere ==
    ASSUME NEW m, NEW f, NEW t, Stage(m, f, t), Comes(m, f, t), SymbolAhead,
           NEW k, k = Len(reads), NEW j, j = k + 1
    PROVE  /\ Upto(m, reads) /\ k \in Nat /\ k < Len(m) /\ at.pos = f[j]
           /\ f[j] \in Nat
           /\ IsSign(m[j], f[j], t[j], Ahead) /\ ~IsDouble /\ Ahead \in DOMAIN Single
<1>1. /\ mode = "skip" /\ Ahead \notin Blank /\ Ahead # End /\ Ahead # Quote
      /\ Ahead \notin Letter \cup {"_"} /\ Ahead \notin Digit
  BY DEF SymbolAhead, TokenAhead
<1>2. /\ Upto(m, reads) /\ k \in Nat /\ k < Len(m) /\ at.pos = f[j]
      /\ f[j] \in Nat
      /\ \/ IsString(m[j], f[j], t[j], Ahead) \/ IsWord(m[j], f[j], t[j], Ahead)
         \/ IsNumber(m[j], f[j], t[j], Ahead) \/ IsSign(m[j], f[j], t[j], Ahead)
  BY <1>1, TokenHere
<1>3. IsSign(m[j], f[j], t[j], Ahead) BY <1>1, <1>2 DEF IsString, IsWord, IsNumber
<1>4. Ahead \in Signs BY <1>3 DEF IsSign
<1> QED BY <1>2, <1>3, <1>4, SignIs DEF IsDouble

(* It is read as the symbol it is. *)
LEMMA ReadsSymbol ==
    ASSUME NEW m, NEW f, NEW t, Stage(m, f, t), Comes(m, f, t), Symbol
    PROVE  ReadsOn(m, f, t)'
<1>1. PICK k, j : k = Len(reads) /\ j = k + 1 OBVIOUS
<1>2. SymbolAhead BY DEF Symbol
<1>3. /\ Upto(m, reads) /\ k \in Nat /\ k < Len(m) /\ at.pos = f[j]
      /\ f[j] \in Nat
      /\ IsSign(m[j], f[j], t[j], Ahead) /\ ~IsDouble
  BY <1>1, <1>2, SignHere
<1>4. Returns(Single[Ahead], at, Step(at), <<Ahead>>) BY <1>3 DEF Symbol
<1>5. /\ Ahead \in Signs /\ m[j][1] = Single[Ahead] /\ m[j][2] = <<Ahead>>
      /\ t[j] = f[j] + 1
  BY <1>3 DEF IsSign
<1>6. Step(at).pos = t[j]
  <2>1. Peek(at.pos) # End BY <1>2 DEF SymbolAhead, Ahead
  <2>2. Text /\ Good(at) BY StageIs
  <2>3. Step(at).pos = at.pos + 1 BY <2>1, <2>2, StepGoes
  <2> QED BY <1>3, <1>5, <2>3
<1>7. Clear(m[j])
  <2>1. Ahead \notin Control \cup {FF} BY <1>5, PlainReads
  <2>2. PICK x : x = m[j][2] OBVIOUS
  <2>3. DOMAIN x = 1 .. 1 /\ x[1] = Ahead BY <1>5, <2>2
  <2>4. \A i \in 1 .. 1 : i = 1 OBVIOUS
  <2> QED BY <2>1, <2>2, <2>3, <2>4 DEF Clear
<1>8. PICK to, type, x : to = Step(at) /\ type = Single[Ahead] /\ x = <<Ahead>> OBVIOUS
<1>9. Returns(type, at, to, x) /\ type = m[j][1] /\ to.pos = t[j] /\ x = m[j][2]
  BY <1>4, <1>5, <1>6, <1>8
<1>10. at \in Place BY StageIs DEF Good
<1> QED BY <1>1, <1>3, <1>7, <1>9, TokenRead

(* No symbol is refused. *)
LEMMA NoBadSymbol ==
    ASSUME NEW m, NEW f, NEW t, Stage(m, f, t), Comes(m, f, t)
    PROVE  ~BadSymbol
<1>1. PICK k, j : k = Len(reads) /\ j = k + 1 OBVIOUS
<1>2. SymbolAhead => Ahead \in DOMAIN Single BY <1>1, SignHere
<1> QED BY <1>2 DEF BadSymbol

-----------------------------------------------------------------------------
(* Within words and numbers *)

(* The tokens that end a word or a number. *)
LEMMA ClosingIs ==
    ASSUME NEW tok \in Closing
    PROVE  /\ tok[1] \in {"lparen", "rparen", "comma"}
           /\ tok[2] \in {<<"(">>, <<")">>, <<",">>}
<1>1. PICK x, y, z : x = Parens[1] /\ y = Parens[2] /\ z = Comma OBVIOUS
<1>2. /\ x = <<"lparen", <<"(">>>> /\ y = <<"rparen", <<")">>>>
      /\ z = <<"comma", <<",">>>>
  BY <1>1 DEF Parens, Comma
<1>3. tok = x \/ tok = y \/ tok = z BY <1>1 DEF Closing
<1>7. ASSUME NEW a, NEW b, tok = <<a, b>> PROVE tok[1] = a /\ tok[2] = b BY <1>7
<1>4. tok = x => tok[1] = "lparen" /\ tok[2] = <<"(">> BY <1>2, <1>7
<1>5. tok = y => tok[1] = "rparen" /\ tok[2] = <<")">> BY <1>2, <1>7
<1>6. tok = z => tok[1] = "comma" /\ tok[2] = <<",">> BY <1>2, <1>7
<1> QED BY <1>3, <1>4, <1>5, <1>6

LEMMA WordIs ==
    ASSUME NEW w PROVE WordType(w) \in {"none", "true", "false", "ident"}
BY DEF WordType

(* Behind a word or a number no character goes on with it. *)
LEMMA EndsThere ==
    ASSUME NEW m, NEW f, NEW t, Stage(m, f, t), NEW j \in 1 .. Len(m), Wordy(m[j])
    PROVE  Peek(t[j]) \in Blank \/ Peek(t[j]) \in {"(", ")", ",", End}
<1>1. Text /\ Len(src) \in Nat /\ Len(m) \in Nat BY StageIs
<1>2. j \in 0 .. Len(m) BY <1>1
<1>3. PICK x, y : x = t[j] /\ y = f[j + 1] OBVIOUS
<1>4. /\ x \in Nat /\ y \in Nat /\ 1 <= x /\ x <= y /\ y <= Len(src) + 1
      /\ \A p \in x .. y - 1 : src[p] \in Blank
  BY <1>2, <1>3, StageAt
<1>5. CASE x < y
  <2>1. x \in x .. y - 1 /\ x <= Len(src) BY <1>1, <1>4, <1>5
  <2>2. src[x] \in Blank BY <1>4, <2>1
  <2>3. Peek(x) = src[x] BY <1>1, <1>4, <2>1, <2>2, BlankAt
  <2> QED BY <1>3, <2>2, <2>3
<1>6. CASE x = y /\ j = Len(m)
  <2>1. x > Len(src)
    <3>1. y = Len(src) + 1 BY <1>3, <1>6, StageAt
    <3> QED BY <1>1, <1>6, <3>1
  <2> QED BY <1>3, <2>1 DEF Peek
<1>7. CASE x = y /\ j < Len(m)
  <2>1. PICK i : i = j + 1 OBVIOUS
  <2>2. i \in 1 .. Len(m) BY <1>1, <1>7, <2>1
  <2>3. m[i] \in Closing BY <1>7, <2>1 DEF Stage, Sound
  <2>4. Begins(m[i], f[i], t[i])
    <3>1. Spelt(src, f[i], t[i], m[i]) BY <2>2, StageAt
    <3> QED BY <1>1, <3>1, TokenBegins
  <2>5. PICK c : /\ Peek(f[i]) = c
                 /\ \/ IsString(m[i], f[i], t[i], c) \/ IsWord(m[i], f[i], t[i], c)
                    \/ IsNumber(m[i], f[i], t[i], c) \/ IsSign(m[i], f[i], t[i], c)
    BY <2>4 DEF Begins
  <2>6. PICK tok : tok = m[i] OBVIOUS
  <2>7. tok[1] \in {"lparen", "rparen", "comma"} /\ tok[2] \in {<<"(">>, <<")">>, <<",">>}
    BY <2>3, <2>6, ClosingIs
  <2>8. tok[2] = <<c>>
    <3>1. WordType(tok[2]) \in {"none", "true", "false", "ident"} BY WordIs
    <3> QED BY <2>5, <2>6, <2>7, <3>1 DEF IsString, IsWord, IsNumber, IsSign
  <2>9. c \in {"(", ")", ","}
    <3>1. PICK s : s = tok[2] OBVIOUS
    <3>2. s[1] = c BY <2>8, <3>1
    <3>4. \A d : s = <<d>> => s[1] = d OBVIOUS
    <3>3. s[1] \in {"(", ")", ","} BY <2>7, <3>1, <3>4
    <3> QED BY <3>2, <3>3
  <2>10. Peek(x) = c BY <1>3, <1>7, <2>1, <2>5
  <2>11. Peek(t[j]) = c BY <1>3, <2>10
  <2> QED BY <2>9, <2>11
<1>8. x < y \/ x = y BY <1>4
<1>9. j < Len(m) \/ j = Len(m) BY <1>1
<1> QED BY <1>5, <1>6, <1>7, <1>8, <1>9

(* In a word or a number the lexer goes on to where it ends, no further. *)
LEMMA InToken ==
    ASSUME NEW m, NEW f, NEW t, Stage(m, f, t), Comes(m, f, t),
           mode \in {"word", "number"}, NEW k, k = Len(reads), NEW j, j = k + 1
    PROVE  /\ Upto(m, reads) /\ k \in Nat /\ k < Len(m) /\ j \in 1 .. Len(m)
           /\ start.pos = f[j] /\ f[j] \in Nat /\ t[j] \in Nat
           /\ 1 <= f[j] /\ t[j] <= Len(src) + 1
           /\ InPlain(at.pos, mode, m[j], f[j], t[j])
           /\ at.pos = t[j] => ~InWord /\ ~InNumber
           /\ at.pos # t[j] => IF mode = "word" THEN InWord ELSE InNumber
           /\ Clear(m[j]) /\ IsSeq(m[j][2])
<1>1. mode # "skip" /\ mode # "string" /\ mode # "done" OBVIOUS
<1>2. /\ Upto(m, reads) /\ k < Len(m) /\ start.pos = f[j]
      /\ InPlain(at.pos, mode, m[j], f[j], t[j])
  BY <1>1 DEF Comes, AtGap, Amid
<1>3. k \in Nat /\ j \in 1 .. Len(m) /\ Text /\ Len(src) \in Nat /\ at.pos \in Nat
  <2>1. Len(reads) \in Nat /\ Len(m) \in Nat /\ Text /\ Len(src) \in Nat /\ at.pos \in Nat
    BY StageIs
  <2> QED BY <1>2, <2>1
<1>4. Spelt(src, f[j], t[j], m[j]) BY <1>3, StageAt
<1>5. PICK p, x, y, s : p = at.pos /\ x = f[j] /\ y = t[j] /\ s = m[j][2] OBVIOUS
<1>6. /\ x \in Nat /\ y \in Nat /\ 1 <= x /\ y <= Len(src) + 1 /\ IsSeq(s)
  BY <1>4, <1>5 DEF Spelt
<1>7. Len(s) \in Nat /\ DOMAIN s = 1 .. Len(s) BY <1>6 DEF IsSeq
<1>8. x <= p /\ p <= y /\ y = x + Len(s) /\ At(src, x, s)
      /\ \/ mode = "word" /\ Name(s) /\ m[j][1] = WordType(s)
         \/ mode = "number" /\ Numeral(s) /\ m[j][1] = "integer"
  BY <1>2, <1>5 DEF InPlain
<1>9. Wordy(m[j])
  <2>1. WordType(s) \in {"none", "true", "false", "ident"} BY WordIs
  <2> QED BY <1>8, <2>1 DEF Wordy
<1>10. ASSUME p = y PROVE ~InWord /\ ~InNumber
  <2>1. Ahead \in Blank \/ Ahead \in {"(", ")", ",", End}
    BY <1>3, <1>5, <1>9, <1>10, EndsThere DEF Ahead
  <2>2. Ahead \notin Letter \cup Digit
    <3>1. {"(", ")", ","} \subseteq Signs BY DEF Signs
    <3> QED BY <2>1, <3>1, ClassesApart
  <2>3. Ahead \notin {"_", "-", "."}
    <3>1. End \notin {"_", "-", "."} BY DEF End
    <3>2. \A c \in {"_", "-", "."} : c \notin Blank BY BlankApart DEF Signs
    <3> QED BY <2>1, <3>1, <3>2
  <2> QED BY <2>2, <2>3 DEF InWord, InNumber
<1>11. \A i \in 1 .. Len(s) :
         /\ mode = "word" => s[i] \in Letter \cup Digit \cup {"_", "-"}
         /\ mode = "number" => s[i] \in Digit \cup {"."}
  BY <1>7, <1>8 DEF Name, Numeral
<1>12. \A i \in 1 .. Len(s) : s[i] \notin Control \cup {FF}
  <2>1. "-" \in Signs BY DEF Signs
  <2> QED BY <1>8, <1>11, <2>1, PlainReads
<1>13. Clear(m[j]) BY <1>5, <1>7, <1>12 DEF Clear
<1>14. ASSUME p # y PROVE IF mode = "word" THEN InWord ELSE InNumber
  <2>1. PICK i : i = p - x + 1 OBVIOUS
  <2>2. i \in 1 .. Len(s) /\ x + i - 1 = p /\ ~(p > Len(src))
    <3>1. PICK n, h : n = Len(s) /\ h = Len(src) OBVIOUS
    <3>2. /\ n \in Nat /\ h \in Nat /\ p \in Nat /\ x \in Nat /\ x <= p /\ p <= y
          /\ y = x + n /\ y <= h + 1 /\ p # y
      BY <1>3, <1>5, <1>6, <1>7, <1>8, <1>14, <3>1
    <3>3. i \in 1 .. n /\ x + i - 1 = p /\ ~(p > h) BY <2>1, <3>2
    <3> QED BY <3>1, <3>3
  <2>3. src[p] = s[i] BY <1>8, <2>2 DEF At
  <2>4. src[p] # FF BY <1>12, <2>2, <2>3
  <2>5. Ahead = s[i] BY <1>5, <2>2, <2>3, <2>4 DEF Ahead, Peek
  <2> QED BY <1>8, <1>11, <2>2, <2>5 DEF InWord, InNumber
<1> QED BY <1>2, <1>3, <1>5, <1>6, <1>10, <1>13, <1>14

(* A word or a number goes on within what is spelt. *)
LEMMA ReadsGoesOn ==
    ASSUME NEW m, NEW f, NEW t, Stage(m, f, t), Comes(m, f, t), GoesOn
    PROVE  ReadsOn(m, f, t)'
<1>1. PICK k, j : k = Len(reads) /\ j = k + 1 OBVIOUS
<1>2. /\ (mode = "word" /\ InWord) \/ (mode = "number" /\ InNumber)
      /\ at' = Step(at) /\ mode' = mode /\ src' = src /\ start' = start
      /\ text' = text /\ lost' = lost /\ reads' = reads
  BY DEF GoesOn, Scanning
<1>3. /\ Upto(m, reads) /\ k \in Nat /\ k < Len(m)
      /\ start.pos = f[j] /\ f[j] \in Nat /\ t[j] \in Nat
      /\ InPlain(at.pos, mode, m[j], f[j], t[j])
      /\ at.pos = t[j] => ~InWord /\ ~InNumber
  BY <1>1, <1>2, InToken
<1>4. at.pos # t[j] BY <1>2, <1>3
<1>5. Step(at).pos = at.pos + 1
  <2>1. Ahead # End
    <3>1. End \notin {"_", "-", "."} BY DEF End
    <3> QED BY <1>2, <3>1, ClassesApart DEF InWord, InNumber
  <2>2. Text /\ Good(at) BY StageIs
  <2> QED BY <2>1, <2>2, StepGoes DEF Ahead
<1>6. PICK p, x, y, tok : p = at.pos /\ x = f[j] /\ y = t[j] /\ tok = m[j] OBVIOUS
<1>7. InPlain(p, mode, tok, x, y) /\ p # y /\ p \in Nat /\ x \in Nat /\ y \in Nat
  BY <1>3, <1>4, <1>6, StageIs
<1>8. x <= p + 1 /\ p + 1 <= y BY <1>7 DEF InPlain
<1>9. InPlain(p + 1, mode, tok, x, y)' BY <1>2, <1>7, <1>8 DEF InPlain, At
<1>10. at'.pos = p + 1 /\ start'.pos = x BY <1>2, <1>3, <1>5, <1>6
<1>11. Amid(at.pos, start.pos, mode, text, lost, k, m, f, t)'
  BY <1>1, <1>3, <1>6, <1>9, <1>10 DEF Amid
<1>12. Upto(m, reads)' BY <1>2, <1>3
<1>13. Len(reads)' = k BY <1>1, <1>2
<1> QED BY <1>11, <1>12, <1>13 DEF ReadsOn, Comes

(* What was read is the text of the token. *)
LEMMA SameText ==
    ASSUME Text, NEW x \in Nat, NEW y \in Nat, NEW s, 1 <= x, x <= y,
           y <= Len(src) + 1, IsSeq(s), y = x + Len(s), At(src, x, s)
    PROVE  Between(x, y) = s
<1>1. PICK u : u = Between(x, y) OBVIOUS
<1>2. PICK n : n = Len(s) OBVIOUS
<1>3. n \in Nat /\ y - x = n BY <1>2 DEF IsSeq
<1>4. IsSeq(u) /\ Len(u) = n /\ \A i \in 1 .. n : u[i] = src[x + i - 1]
  BY <1>1, <1>3, SliceIs
<1>5. \A i \in 1 .. n : u[i] = s[i] BY <1>2, <1>4 DEF At
<1>6. u = [i \in 1 .. n |-> u[i]] /\ s = [i \in 1 .. n |-> s[i]]
  BY <1>2, <1>4 DEF IsSeq
<1> QED BY <1>1, <1>5, <1>6

(* It ends where it was spelt to end. *)
LEMMA PlainEnds ==
    ASSUME NEW m, NEW f, NEW t, Stage(m, f, t), Comes(m, f, t),
           (mode = "word" /\ ~InWord) \/ (mode = "number" /\ ~InNumber),
           NEW k, k = Len(reads), NEW j, j = k + 1
    PROVE  /\ Upto(m, reads) /\ k < Len(m) /\ at.pos = t[j] /\ Clear(m[j])
           /\ Between(start.pos, at.pos) = m[j][2]
           /\ mode = "word" => m[j][1] = WordType(m[j][2])
           /\ mode = "number" => m[j][1] = "integer"
<1>1. mode \in {"word", "number"} OBVIOUS
<1>2. /\ Upto(m, reads) /\ k < Len(m) /\ start.pos = f[j]
      /\ f[j] \in Nat /\ t[j] \in Nat /\ 1 <= f[j] /\ t[j] <= Len(src) + 1
      /\ InPlain(at.pos, mode, m[j], f[j], t[j])
      /\ at.pos # t[j] => IF mode = "word" THEN InWord ELSE InNumber
      /\ Clear(m[j]) /\ IsSeq(m[j][2])
  BY <1>1, InToken
<1>3. at.pos = t[j] BY <1>2
<1>4. PICK x, y, s : x = f[j] /\ y = t[j] /\ s = m[j][2] OBVIOUS
<1>5. /\ x \in Nat /\ y \in Nat /\ 1 <= x /\ x <= y /\ y <= Len(src) + 1
      /\ IsSeq(s) /\ y = x + Len(s) /\ At(src, x, s)
  BY <1>2, <1>3, <1>4 DEF InPlain
<1>6. Text BY StageIs
<1>7. Between(x, y) = s BY <1>5, <1>6, SameText
<1>8. /\ mode = "word" => m[j][1] = WordType(m[j][2])
      /\ mode = "number" => m[j][1] = "integer"
  BY <1>2 DEF InPlain
<1> QED BY <1>2, <1>3, <1>4, <1>7, <1>8

(* It is returned as it was spelt. *)
LEMMA ReadsPlainEnds ==
    ASSUME NEW m, NEW f, NEW t, Stage(m, f, t), Comes(m, f, t),
           WordEnds \/ NumberEnds
    PROVE  ReadsOn(m, f, t)'
<1>1. PICK k, j : k = Len(reads) /\ j = k + 1 OBVIOUS
<1>2. (mode = "word" /\ ~InWord) \/ (mode = "number" /\ ~InNumber)
  BY DEF WordEnds, NumberEnds
<1>3. /\ Upto(m, reads) /\ k < Len(m) /\ at.pos = t[j] /\ Clear(m[j])
      /\ Between(start.pos, at.pos) = m[j][2]
      /\ mode = "word" => m[j][1] = WordType(m[j][2])
      /\ mode = "number" => m[j][1] = "integer"
  BY <1>1, <1>2, PlainEnds
<1>4. PICK x : x = m[j][2] OBVIOUS
<1>5. \E type : Returns(type, start, at, x) /\ type = m[j][1]
  BY <1>3, <1>4 DEF WordEnds, NumberEnds
<1>6. PICK type : Returns(type, start, at, x) /\ type = m[j][1] BY <1>5
<1> QED BY <1>1, <1>3, <1>4, <1>6, TokenRead

(* The escapes the lexer knows, and that \\x is none of them. *)
LEMMA UnescapedIs ==
    /\ DOMAIN Unescaped = {"n", "t", "r", Quote, Backslash}
    /\ Unescaped["n"] = NL /\ Unescaped["t"] = "\t" /\ Unescaped["r"] = "\r"
    /\ Unescaped[Quote] = Quote /\ Unescaped[Backslash] = Backslash
    /\ "x" \notin DOMAIN Unescaped /\ "x" # FF /\ "x" # End
<1>1. DOMAIN Unescaped = {"n", "t", "r", Quote, Backslash} BY DEF Unescaped
<1>2. "x" \notin {"n", "t", "r", Quote, Backslash} BY DEF Quote, Backslash
<1>3. Unescaped["n"] = NL BY DEF Unescaped
<1>4. Unescaped["t"] = "\t" BY DEF Unescaped
<1>5. Unescaped["r"] = "\r" BY DEF Unescaped
<1>6. Unescaped[Quote] = Quote BY DEF Unescaped, Quote
<1>7. Unescaped[Backslash] = Backslash BY DEF Unescaped, Backslash
<1>8. "x" # FF /\ "x" # End BY DEF FF, End
<1> QED BY <1>1, <1>2, <1>3, <1>4, <1>5, <1>6, <1>7, <1>8

LEMMA LengthTwo == ASSUME NEW a, NEW b PROVE Len(<<a, b>>) = 2 /\ <<a, b>>[1] = a /\ <<a, b>>[2] = b
OBVIOUS

(* How a character is written. *)
LEMMA WrittenHow ==
    ASSUME NEW c, NEW w, w = Written(c)
    PROVE  \/ Len(w) = 1 /\ w[1] = c /\ c \notin {Backslash, Quote} /\ c \notin Control
           \/ /\ Len(w) = 2 /\ w[1] = Backslash /\ w[2] \in DOMAIN Unescaped
              /\ Unescaped[w[2]] = c
              /\ c \in {NL, "\t", "\r", Quote, Backslash}
           \/ Len(w) = 4 /\ w[1] = Backslash /\ w[2] = "x" /\ c \in Control
<1>1. ASSUME NEW d \in DOMAIN Unescaped, w = <<Backslash, d>>, Unescaped[d] = c,
             c \in {NL, "\t", "\r", Quote, Backslash}
      PROVE  /\ Len(w) = 2 /\ w[1] = Backslash /\ w[2] \in DOMAIN Unescaped
             /\ Unescaped[w[2]] = c
  BY <1>1, LengthTwo
<1>8. Control \cap {NL, "\t", "\r", Quote, Backslash} = {} BY EscapedReads
<1>9. NL # "\t" /\ NL # "\r" /\ NL # Quote /\ NL # Backslash
  BY DEF NL, Quote, Backslash
<1>10. Quote \notin {NL, "\t", "\r"} /\ Backslash \notin {NL, "\t", "\r"}
  BY DEF NL, Quote, Backslash
<1>11. "\t" # "\r" /\ "\t" \notin {Quote, Backslash} /\ "\r" \notin {Quote, Backslash}
  BY DEF Quote, Backslash
<1>2. CASE c = NL
  <2>1. w = <<Backslash, "n">> BY <1>2, <1>8, <1>9, <1>10, <1>11 DEF Written
  <2> QED BY <1>1, <1>2, <2>1, UnescapedIs
<1>3. CASE c # NL /\ c = "\t"
  <2>1. w = <<Backslash, "t">> BY <1>3, <1>8, <1>9, <1>10, <1>11 DEF Written
  <2> QED BY <1>1, <1>3, <2>1, UnescapedIs
<1>4. CASE c # NL /\ c # "\t" /\ c = "\r"
  <2>1. w = <<Backslash, "r">> BY <1>4, <1>8, <1>9, <1>10, <1>11 DEF Written
  <2> QED BY <1>1, <1>4, <2>1, UnescapedIs
<1>5. CASE c \notin {NL, "\t", "\r"} /\ c \in {Backslash, Quote}
  <2>1. w = <<Backslash, c>> BY <1>5, <1>8, <1>9, <1>10, <1>11 DEF Written
  <2> QED BY <1>1, <1>5, <2>1, UnescapedIs
<1>6. CASE c \notin {NL, "\t", "\r", Backslash, Quote} /\ c \in Control
  <2>1. w = Hex BY <1>6 DEF Written
  <2>2. Len(Hex) = 4 /\ Hex[1] = Backslash /\ Hex[2] = "x" BY DEF Hex
  <2> QED BY <1>6, <2>1, <2>2
<1>7. CASE c \notin {NL, "\t", "\r", Backslash, Quote} /\ c \notin Control
  <2>1. w = <<c>> BY <1>7 DEF Written
  <2> QED BY <1>7, <2>1, OneLong
<1> QED BY <1>2, <1>3, <1>4, <1>5, <1>6, <1>7

-----------------------------------------------------------------------------
(* Within strings *)

(* The string s stands from b to e, and i of its characters are read.      *)
Inside(s, b, e, c, i) ==
    /\ Literal(src, b, e, s, c) /\ i \in 0 .. Len(s) /\ at.pos = c[i]
    /\ \A h \in 1 .. i : s[h] \notin Control \cup {FF}
    /\ ~lost => IsSeq(text) /\ Len(text) = i /\ \A h \in 1 .. i : text[h] = s[h]

(* What may come next: a character, two that stand for one, four that do.  *)
One(to, d) ==
    /\ to = at.pos + 1 /\ d \notin {Backslash, Quote} \cup Control
    /\ d = FF => Ahead = End
    /\ d # FF => Ahead = d /\ d # End
Two(to, d) ==
    /\ to = at.pos + 2 /\ Ahead = Backslash
    /\ Escaped \in DOMAIN Unescaped /\ Unescaped[Escaped] = d
    /\ d \notin Control \cup {FF}
Four(d) == Ahead = Backslash /\ Escaped \notin DOMAIN Unescaped /\ d \in Control

(* What peek gives within the text. *)
LEMMA PeekIs ==
    ASSUME Text, NEW p \in Nat, 1 <= p, p <= Len(src)
    PROVE  /\ src[p] = FF => Peek(p) = End
           /\ src[p] # FF => Peek(p) = src[p]
           /\ src[p] # End
<1>1. Len(src) \in Nat BY DEF Text
<1>2. ~(p > Len(src)) BY <1>1
<1>3. PICK S : src \in Seq(S) /\ End \notin S BY DEF Text
<1>4. p \in 1 .. Len(src) BY <1>1
<1>5. src[p] \in S BY <1>3, <1>4
<1> QED BY <1>2, <1>3, <1>5 DEF Peek

(* Before the next character of a string stands what was written of it. *)
LEMMA ComesNext ==
    ASSUME Text, NEW b \in Nat, NEW e \in Nat, 1 <= b, e <= Len(src) + 1,
           NEW s, IsSeq(s), NEW c, NEW i, Inside(s, b, e, c, i), i < Len(s),
           NEW h, h = i + 1
    PROVE  One(c[h], s[h]) \/ Two(c[h], s[h]) \/ Four(s[h])
<1>1. Literal(src, b, e, s, c) /\ i \in 0 .. Len(s) /\ at.pos = c[i]
  BY DEF Inside
<1>2. Len(s) \in Nat /\ Len(src) \in Nat BY DEF IsSeq, Text
<1>3. h \in 1 .. Len(s) /\ h - 1 = i /\ h \in 0 .. Len(s) BY <1>1, <1>2
<1>4. \A j \in 0 .. Len(s) : c[j] \in Nat /\ b + 1 <= c[j] /\ c[j] <= e - 1
  BY <1>1, LiteralRange
<1>5. PICK p, q, w, d : p = c[i] /\ q = c[h] /\ d = s[h] /\ w = Written(d) OBVIOUS
<1>6. p \in Nat /\ q \in Nat /\ b + 1 <= p /\ q <= e - 1 BY <1>1, <1>3, <1>4, <1>5
<1>7. q = p + Len(w) /\ At(src, p, w) BY <1>1, <1>3, <1>5 DEF Literal
<1>8. at.pos = p BY <1>1, <1>5
<1>9. ASSUME NEW n \in {1, 2, 4}, Len(w) = n
      PROVE  /\ src[p] = w[1] /\ 1 <= p /\ p <= Len(src)
             /\ n # 1 => /\ src[p + 1] = w[2] /\ p + 1 <= Len(src)
                         /\ 1 <= p + 1 /\ p + 1 \in Nat
  <2>1. 1 \in 1 .. n /\ p + 1 - 1 = p /\ p + 2 - 1 = p + 1 BY <1>6
  <2>2. src[p] = w[1] BY <1>7, <1>9, <2>1 DEF At
  <2>3. n # 1 => 2 \in 1 .. n OBVIOUS
  <2>4. n # 1 => src[p + 1] = w[2] BY <1>7, <1>9, <2>1, <2>3 DEF At
  <2>5. 1 <= p /\ p <= Len(src) BY <1>2, <1>6, <1>7, <1>9
  <2>6. n # 1 => p + 1 <= Len(src) BY <1>2, <1>6, <1>7, <1>9
  <2> QED BY <1>6, <2>2, <2>4, <2>5, <2>6
<1>10. Quote # FF /\ Backslash # FF /\ Backslash # End BY DEF Quote, FF, End, Backslash
<1>11. \/ Len(w) = 1 /\ w[1] = d /\ d \notin {Backslash, Quote} /\ d \notin Control
       \/ /\ Len(w) = 2 /\ w[1] = Backslash /\ w[2] \in DOMAIN Unescaped
          /\ Unescaped[w[2]] = d
          /\ d \in {NL, "\t", "\r", Quote, Backslash}
       \/ Len(w) = 4 /\ w[1] = Backslash /\ w[2] = "x" /\ d \in Control
  BY <1>5, WrittenHow
<1>12. CASE Len(w) = 1 /\ w[1] = d /\ d \notin {Backslash, Quote} /\ d \notin Control
  <2>1. src[p] = d /\ 1 <= p /\ p <= Len(src) BY <1>9, <1>12
  <2>2. /\ d = FF => Peek(p) = End
        /\ d # FF => Peek(p) = d
        /\ d # End
    BY <1>6, <2>1, PeekIs
  <2>3. q = p + 1 BY <1>7, <1>12
  <2>4. One(q, d) BY <1>8, <1>12, <2>2, <2>3 DEF One, Ahead
  <2> QED BY <1>5, <2>4
<1>13. ASSUME w[1] = Backslash, Len(w) # 1, Len(w) \in {1, 2, 4}
       PROVE  Ahead = Backslash /\ (w[2] # FF => Escaped = w[2])
  <2>1. /\ src[p] = Backslash /\ src[p + 1] = w[2] /\ 1 <= p /\ p <= Len(src)
        /\ p + 1 <= Len(src) /\ 1 <= p + 1 /\ p + 1 \in Nat
    BY <1>9, <1>13
  <2>2. Peek(p) = Backslash BY <1>6, <1>10, <2>1, PeekIs
  <2>3. w[2] # FF => Peek(p + 1) = w[2] BY <2>1, PeekIs
  <2> QED BY <1>8, <2>2, <2>3 DEF Ahead, Escaped
<1>14. CASE /\ Len(w) = 2 /\ w[1] = Backslash /\ w[2] \in DOMAIN Unescaped
            /\ Unescaped[w[2]] = d
            /\ d \in {NL, "\t", "\r", Quote, Backslash}
  <2>1. w[2] # FF
    <3>1. FF \notin {"n", "t", "r", Quote, Backslash} BY DEF FF, Quote, Backslash
    <3> QED BY <1>14, <3>1, UnescapedIs
  <2>2. Ahead = Backslash /\ Escaped = w[2] BY <1>13, <1>14, <2>1
  <2>3. d \notin Control \cup {FF} BY <1>14, EscapedReads
  <2>4. q = p + 2 BY <1>7, <1>14
  <2>5. Two(q, d) BY <1>8, <1>14, <2>2, <2>3, <2>4 DEF Two
  <2> QED BY <1>5, <2>5
<1>15. CASE Len(w) = 4 /\ w[1] = Backslash /\ w[2] = "x" /\ d \in Control
  <2>1. w[2] # FF BY <1>15, UnescapedIs
  <2>2. Ahead = Backslash /\ Escaped = w[2] BY <1>13, <1>15, <2>1
  <2>3. Four(d) BY <1>15, <2>2, UnescapedIs DEF Four
  <2> QED BY <1>5, <2>3
<1> QED BY <1>11, <1>12, <1>14, <1>15

(* Behind the last stands the quote. *)
LEMMA QuoteNext ==
    ASSUME Text, NEW b \in Nat, NEW e \in Nat, 1 <= b, b < e, e <= Len(src) + 1,
           NEW s, IsSeq(s), NEW c, NEW i, Inside(s, b, e, c, i), i = Len(s)
    PROVE  Ahead = Quote /\ at.pos + 1 = e
<1>1. Literal(src, b, e, s, c) /\ i \in 0 .. Len(s) /\ at.pos = c[i] BY DEF Inside
<1>2. Len(s) \in Nat /\ Len(src) \in Nat BY DEF IsSeq, Text
<1>3. PICK p : p = at.pos OBVIOUS
<1>4. p = e - 1 /\ src[e - 1] = Quote BY <1>1, <1>3 DEF Literal
<1>5. p \in Nat /\ 1 <= p /\ p <= Len(src) /\ p + 1 = e BY <1>2, <1>4
<1>6. Quote # FF BY DEF Quote, FF
<1>7. Peek(p) = Quote BY <1>4, <1>5, <1>6, PeekIs
<1> QED BY <1>3, <1>5, <1>7 DEF Ahead

(* A string begins where a string is spelt. *)
LEMMA ReadsStringOpens ==
    ASSUME NEW m, NEW f, NEW t, Stage(m, f, t), Comes(m, f, t), StringOpens
    PROVE  ReadsOn(m, f, t)'
<1>1. PICK k, j : k = Len(reads) /\ j = k + 1 OBVIOUS
<1>2. /\ mode = "skip" /\ Ahead \notin Blank /\ Ahead = Quote
      /\ start' = at /\ mode' = "string" /\ at' = Step(at) /\ src' = src
      /\ reads' = reads /\ text' = <<>> /\ lost' = FALSE
  BY DEF StringOpens, TokenAhead, Enter
<1>3. Ahead # End BY <1>2 DEF End, Quote
<1>4. /\ Upto(m, reads) /\ k \in Nat /\ k < Len(m) /\ at.pos = f[j] /\ f[j] < t[j]
      /\ f[j] \in Nat /\ t[j] \in Nat
      /\ Spelt(src, f[j], t[j], m[j])
      /\ \/ IsString(m[j], f[j], t[j], Ahead) \/ IsWord(m[j], f[j], t[j], Ahead)
         \/ IsNumber(m[j], f[j], t[j], Ahead) \/ IsSign(m[j], f[j], t[j], Ahead)
  BY <1>1, <1>2, <1>3, TokenHere
<1>5. Ahead \notin Letter /\ Ahead # "_" /\ Ahead \notin Signs /\ Ahead \notin Digit
  <2>1. Quote # "_" /\ Quote \notin Signs BY DEF Quote, Signs
  <2> QED BY <1>2, <2>1, ClassesApart
<1>6. IsString(m[j], f[j], t[j], Ahead)
  BY <1>4, <1>5 DEF IsSign, IsWord, IsNumber
<1>7. PICK x, y, tok, s : x = f[j] /\ y = t[j] /\ tok = m[j] /\ s = tok[2] OBVIOUS
<1>8. PICK c : tok[1] = "string" /\ Literal(src, x, y, s, c)
  BY <1>6, <1>7 DEF IsString
<1>9. IsSeq(s) /\ x \in Nat BY <1>4, <1>7 DEF Spelt
<1>10. Step(at).pos = x + 1
  <2>1. Text /\ Good(at) BY StageIs
  <2>2. Peek(at.pos) # End BY <1>3 DEF Ahead
  <2>3. Step(at).pos = at.pos + 1 BY <2>1, <2>2, StepGoes
  <2> QED BY <1>4, <1>7, <2>3
<1>11. c[0] = x + 1 BY <1>8 DEF Literal
<1>12. 0 \in 0 .. Len(s) BY <1>9 DEF IsSeq
<1>13. IsSeq(<<>>) /\ Len(<<>>) = 0
  <2>1. <<>> \in Seq({}) OBVIOUS
  <2> QED BY <2>1 DEF IsSeq
<1>14. Literal(src, x, y, s, c)' BY <1>2, <1>8 DEF Literal, At
<1>15. InString(x + 1, <<>>, FALSE, tok, x, y)'
  BY <1>7, <1>8, <1>11, <1>12, <1>13, <1>14 DEF InString
<1>16. at'.pos = x + 1 /\ start'.pos = x BY <1>2, <1>4, <1>7, <1>10
<1>17. Amid(at.pos, start.pos, mode, text, lost, k, m, f, t)'
  BY <1>1, <1>2, <1>4, <1>7, <1>15, <1>16 DEF Amid
<1>18. Upto(m, reads)' BY <1>2, <1>4
<1>19. Len(reads)' = k BY <1>1, <1>2
<1> QED BY <1>17, <1>18, <1>19 DEF ReadsOn, Comes

(* In a string *)
LEMMA StringHere ==
    ASSUME NEW m, NEW f, NEW t, Stage(m, f, t), Comes(m, f, t), mode = "string",
           NEW k, k = Len(reads), NEW j, j = k + 1
    PROVE  /\ Upto(m, reads) /\ k \in Nat /\ k < Len(m) /\ j \in 1 .. Len(m)
           /\ m[j][1] = "string" /\ start.pos = f[j] /\ IsSeq(m[j][2])
           /\ f[j] \in Nat /\ t[j] \in Nat /\ 1 <= f[j] /\ f[j] < t[j]
           /\ t[j] <= Len(src) + 1 /\ Text
           /\ \E c, i : Inside(m[j][2], f[j], t[j], c, i)
<1>1. mode # "skip" /\ mode # "word" /\ mode # "number" /\ mode # "done" OBVIOUS
<1>2. /\ Upto(m, reads) /\ k < Len(m) /\ start.pos = f[j]
      /\ InString(at.pos, text, lost, m[j], f[j], t[j])
  BY <1>1 DEF Comes, AtGap, Amid, InPlain
<1>3. Text /\ k \in Nat /\ Len(m) \in Nat BY StageIs
<1>4. j \in 1 .. Len(m) BY <1>2, <1>3
<1>5. Spelt(src, f[j], t[j], m[j]) BY <1>4, StageAt
<1>6. /\ f[j] \in Nat /\ t[j] \in Nat /\ 1 <= f[j] /\ f[j] < t[j]
      /\ t[j] <= Len(src) + 1 /\ IsSeq(m[j][2])
  BY <1>5 DEF Spelt
<1>7. m[j][1] = "string" BY <1>2 DEF InString
<1>8. \E c, i : Inside(m[j][2], f[j], t[j], c, i) BY <1>2 DEF InString, Inside
<1> QED BY <1>2, <1>3, <1>4, <1>6, <1>7, <1>8

(* One more character is read. *)
LEMMA StringGrows ==
    ASSUME NEW m, NEW f, NEW t, Stage(m, f, t), Upto(m, reads), mode = "string",
           NEW k, k = Len(reads), k < Len(m), NEW j, j = k + 1, m[j][1] = "string",
           start.pos = f[j], NEW s, s = m[j][2], IsSeq(s),
           NEW c, NEW i, Inside(s, f[j], t[j], c, i), i < Len(s),
           NEW h, h = i + 1, s[h] \notin Control \cup {FF}, NEW p, p = c[h],
           at'.pos = p, Keeps(s[h]), UNCHANGED <<src, mode, start, reads>>
    PROVE  ReadsOn(m, f, t)'
<1>1. PICK x, y, tok, v, l : x = f[j] /\ y = t[j] /\ tok = m[j] /\ v = text' /\ l = lost'
  OBVIOUS
<1>2. /\ Literal(src, x, y, s, c) /\ i \in 0 .. Len(s)
      /\ \A n \in 1 .. i : s[n] \notin Control \cup {FF}
      /\ ~lost => IsSeq(text) /\ Len(text) = i /\ \A n \in 1 .. i : text[n] = s[n]
  BY <1>1 DEF Inside
<1>3. Len(s) \in Nat BY DEF IsSeq
<1>4. h \in 0 .. Len(s) /\ \A n \in 1 .. h : n \in 1 .. i \/ n = h BY <1>2, <1>3
<1>5. \A n \in 1 .. h : s[n] \notin Control \cup {FF} BY <1>2, <1>4
<1>6. ASSUME ~l PROVE IsSeq(v) /\ Len(v) = h /\ \A n \in 1 .. h : v[n] = s[n]
  <2>1. v = Append(text, s[h]) /\ ~lost BY <1>1, <1>6 DEF Keeps
  <2>2. IsSeq(text) /\ Len(text) = i /\ \A n \in 1 .. i : text[n] = s[n]
    BY <1>2, <2>1
  <2>3. PICK q : q = Append(text, s[h]) OBVIOUS
  <2>4. /\ IsSeq(q) /\ Len(q) = Len(text) + 1 /\ q[Len(text) + 1] = s[h]
        /\ \A n \in 1 .. Len(text) : q[n] = text[n]
    BY <2>2, <2>3, Grown
  <2>5. Len(q) = h /\ q[h] = s[h] BY <2>2, <2>4
  <2>6. \A n \in 1 .. h : q[n] = s[n] BY <1>4, <2>2, <2>4, <2>5
  <2> QED BY <2>1, <2>3, <2>4, <2>5, <2>6
<1>7. Literal(src, x, y, s, c)' BY <1>2 DEF Literal, At
<1>8. InString(p, v, l, tok, x, y)'
  BY <1>1, <1>4, <1>5, <1>6, <1>7 DEF InString
<1>9. start'.pos = x BY <1>1
<1>10. Amid(at.pos, start.pos, mode, text, lost, k, m, f, t)'
  BY <1>1, <1>8, <1>9 DEF Amid
<1>11. Upto(m, reads)' OBVIOUS
<1>12. Len(reads)' = k OBVIOUS
<1> QED BY <1>10, <1>11, <1>12 DEF ReadsOn, Comes

(* A control character or 0xFF in a string cannot be read again. *)
LEMMA CannotRead ==
    ASSUME NEW m, NEW j \in 1 .. Len(m), IsSeq(m), NEW s, s = m[j][2], IsSeq(s),
           NEW h \in 1 .. Len(s), s[h] \in Control \cup {FF}
    PROVE  ~Readable(m)
<1>1. j \in DOMAIN m BY DEF IsSeq
<1>2. h \in DOMAIN s BY DEF IsSeq
<1> QED BY <1>1, <1>2 DEF Readable

(* Over an escape. *)
LEMMA StepOverTwo ==
    ASSUME Text, Good(at), Ahead = Backslash, Escaped # End
    PROVE  Step(Step(at)).pos = at.pos + 2
<1>1. Backslash # End BY DEF Backslash, End
<1>2. Good(Step(at)) /\ Step(at).pos = at.pos + 1 BY <1>1, StepGoes DEF Ahead
<1>3. PICK q : q = Step(at) OBVIOUS
<1>4. Good(q) /\ q.pos = at.pos + 1 BY <1>2, <1>3
<1>5. Peek(q.pos) # End BY <1>4 DEF Escaped
<1>6. Step(q).pos = q.pos + 1 BY <1>4, <1>5, StepGoes
<1>7. at.pos \in Nat BY DEF Good, Place
<1>8. at.pos + 1 + 1 = at.pos + 2 BY <1>7
<1>9. Step(q).pos = at.pos + 2 BY <1>4, <1>6, <1>8
<1>10. Step(Step(at)) = Step(q) BY <1>3
<1> QED BY <1>9, <1>10, Zenon

(* A string is read character by character, and ends at its quote; at a    *)
(* character that cannot be read again an error is told.                   *)
LEMMA ReadsInString ==
    ASSUME NEW m, NEW f, NEW t, Stage(m, f, t), Comes(m, f, t),
           StringChar \/ StringEscape \/ BadEscape \/ StringEnds \/ StringNeverEnds
    PROVE  ReadsOn(m, f, t)'
<1>1. PICK k, j : k = Len(reads) /\ j = k + 1 OBVIOUS
<1>2. mode = "string"
  BY DEF StringChar, StringEscape, BadEscape, StringEnds, StringNeverEnds
<1>3. /\ Upto(m, reads) /\ k \in Nat /\ k < Len(m) /\ j \in 1 .. Len(m)
      /\ m[j][1] = "string" /\ start.pos = f[j] /\ IsSeq(m[j][2])
      /\ f[j] \in Nat /\ t[j] \in Nat /\ 1 <= f[j] /\ f[j] < t[j]
      /\ t[j] <= Len(src) + 1 /\ Text
      /\ \E c, i : Inside(m[j][2], f[j], t[j], c, i)
  BY <1>1, <1>2, StringHere
<1>4. PICK s : s = m[j][2] OBVIOUS
<1>5. PICK c, i : Inside(s, f[j], t[j], c, i) BY <1>3, <1>4
<1>6. IsSeq(s) /\ Len(s) \in Nat /\ i \in 0 .. Len(s)
  BY <1>3, <1>4, <1>5 DEF Inside, IsSeq
<1>7. IsSeq(m) /\ Good(at) /\ at.pos \in Nat BY StageIs
<1>8. Quote # Backslash /\ Quote # End /\ Backslash # End BY DEF Quote, Backslash, End
<1>9. CASE i = Len(s)
  <2>1. PICK b, e : b = f[j] /\ e = t[j] OBVIOUS
  <2>2. b \in Nat /\ e \in Nat /\ 1 <= b /\ b < e /\ e <= Len(src) + 1 /\ Text
    BY <1>3, <2>1
  <2>3. Inside(s, b, e, c, i) BY <1>5, <2>1
  <2>4. Ahead = Quote /\ at.pos + 1 = e BY <1>6, <1>9, <2>2, <2>3, QuoteNext
  <2>5. PICK to : to = Step(at) OBVIOUS
  <2>6. Returns("string", start, to, text)
    BY <1>8, <2>4, <2>5
       DEF StringChar, StringEscape, BadEscape, StringEnds, StringNeverEnds
  <2>7. to.pos = t[j]
    <3>1. Peek(at.pos) # End BY <1>8, <2>4 DEF Ahead
    <3>2. Step(at).pos = at.pos + 1 BY <1>7, <2>2, <3>1, StepGoes
    <3> QED BY <2>1, <2>4, <2>5, <3>2
  <2>8. DOMAIN s = 1 .. Len(s) BY <1>6 DEF IsSeq
  <2>9. Clear(m[j]) BY <1>4, <1>9, <2>3, <2>8 DEF Clear, Inside
  <2>10. ASSUME ~lost PROVE text = m[j][2]
    <3>1. IsSeq(text) /\ Len(text) = i /\ \A h \in 1 .. i : text[h] = s[h]
      BY <2>3, <2>10 DEF Inside
    <3>2. text = [h \in 1 .. i |-> text[h]] BY <3>1 DEF IsSeq
    <3>3. s = [h \in 1 .. i |-> s[h]] BY <1>6, <1>9 DEF IsSeq
    <3> QED BY <1>4, <3>1, <3>2, <3>3
  <2>11. ~("string" = "string" /\ lost) => text = m[j][2] BY <2>10
  <2> QED BY <1>1, <1>3, <2>6, <2>7, <2>9, <2>11, TokenRead
<1>10. CASE i < Len(s)
  <2>1. PICK h, p : h = i + 1 /\ p = c[h] OBVIOUS
  <2>2. h \in 1 .. Len(s) BY <1>6, <1>10, <2>1
  <2>3. One(p, s[h]) \/ Two(p, s[h]) \/ Four(s[h])
    BY <1>3, <1>5, <1>6, <1>10, <2>1, ComesNext
  <2>4. ASSUME s[h] \in Control \cup {FF} PROVE ~Readable(m)
    BY <1>3, <1>4, <1>6, <1>7, <2>2, <2>4, CannotRead
  <2>5. ASSUME at'.pos = p, Keeps(s[h]), UNCHANGED <<src, mode, start, reads>>,
               s[h] \notin Control \cup {FF}
        PROVE  ReadsOn(m, f, t)'
    BY <1>1, <1>2, <1>3, <1>4, <1>5, <1>6, <1>10, <2>1, <2>5, StringGrows
  <2>6. CASE One(p, s[h]) /\ s[h] = FF
    <3>1. Ahead = End BY <2>6 DEF One
    <3>2. Fails(start, at, start)
      BY <1>8, <3>1
         DEF StringChar, StringEscape, BadEscape, StringEnds, StringNeverEnds
    <3>3. ~Readable(m) BY <2>4, <2>6
    <3> QED BY <3>2, <3>3, ErrorRead
  <2>7. CASE One(p, s[h]) /\ s[h] # FF
    <3>1. /\ Ahead = s[h] /\ s[h] # End /\ s[h] \notin {Backslash, Quote} \cup Control
          /\ p = at.pos + 1
      BY <2>7 DEF One
    <3>2. /\ at' = Step(at) /\ Keeps(Ahead) /\ UNCHANGED <<src, mode, start, reads>>
      BY <3>1 DEF StringChar, StringEscape, BadEscape, StringEnds, StringNeverEnds
    <3>3. Peek(at.pos) # End BY <3>1 DEF Ahead
    <3>4. Step(at).pos = at.pos + 1 BY <1>3, <1>7, <3>3, StepGoes
    <3>5. at'.pos = p BY <3>1, <3>2, <3>4
    <3> QED BY <2>5, <2>7, <3>1, <3>2, <3>5
  <2>8. CASE Two(p, s[h])
    <3>1. /\ Ahead = Backslash /\ Escaped \in DOMAIN Unescaped
          /\ Unescaped[Escaped] = s[h] /\ s[h] \notin Control \cup {FF}
          /\ p = at.pos + 2
      BY <2>8 DEF Two
    <3>2. /\ at' = Step(Step(at)) /\ Keeps(Unescaped[Escaped])
          /\ UNCHANGED <<src, mode, start, reads>>
      BY <1>8, <3>1
         DEF StringChar, StringEscape, BadEscape, StringEnds, StringNeverEnds
    <3>3. Escaped # End
      <4>1. End \notin {"n", "t", "r", Quote, Backslash} BY DEF End, Quote, Backslash
      <4> QED BY <3>1, <4>1, UnescapedIs
    <3>4. Step(Step(at)).pos = at.pos + 2 BY <1>3, <1>7, <3>1, <3>3, StepOverTwo, Zenon
    <3>5. at'.pos = p
      <4>1. PICK q : q = Step(Step(at)) OBVIOUS
      <4> QED BY <3>1, <3>2, <3>4, <4>1
    <3> QED BY <2>5, <3>1, <3>2, <3>5
  <2>9. CASE Four(s[h])
    <3>1. Ahead = Backslash /\ Escaped \notin DOMAIN Unescaped /\ s[h] \in Control
      BY <2>9 DEF Four
    <3>2. PICK to : to = Step(Step(at)) OBVIOUS
    <3>3. Fails(start, to, to)
      BY <1>8, <3>1, <3>2
         DEF StringChar, StringEscape, BadEscape, StringEnds, StringNeverEnds
    <3>4. ~Readable(m) BY <2>4, <3>1
    <3> QED BY <3>3, <3>4, ErrorRead
  <2> QED BY <2>3, <2>6, <2>7, <2>8, <2>9
<1>11. i < Len(s) \/ i = Len(s) BY <1>6
<1> QED BY <1>9, <1>10, <1>11

(* Every step of the lexer reads on what is laid out. *)
LEMMA LexReads ==
    ASSUME NEW m, NEW f, NEW t, Stage(m, f, t), ReadsOn(m, f, t), LexNext
    PROVE  ReadsOn(m, f, t)'
<1>1. CASE Broken(m, reads)
  <2>1. IsSeq(reads) BY StageIs
  <2>2. Broken(m, reads') BY <1>1, <2>1, BrokenStays
  <2> QED BY <2>2 DEF ReadsOn
<1>2. CASE Comes(m, f, t)
  <2>1. CASE SkipBlank BY <1>2, <2>1, ReadsSkipBlank
  <2>2. CASE CommentOpens \/ CommentCloses \/ CommentGoesOn \/ CommentNeverCloses
    BY <1>2, <2>2, NoCommentHere
  <2>3. CASE ReadsEnd BY <1>2, <2>3, ReadsTheEnd
  <2>4. CASE StringOpens BY <1>2, <2>4, ReadsStringOpens
  <2>5. CASE WordStarts BY <1>2, <2>5, ReadsWordStarts
  <2>6. CASE NumberStarts BY <1>2, <2>6, ReadsNumberStarts
  <2>7. CASE StringChar \/ StringEscape \/ BadEscape \/ StringEnds \/ StringNeverEnds
    BY <1>2, <2>7, ReadsInString
  <2>8. CASE GoesOn BY <1>2, <2>8, ReadsGoesOn
  <2>9. CASE WordEnds \/ NumberEnds BY <1>2, <2>9, ReadsPlainEnds
  <2>10. CASE Symbol BY <1>2, <2>10, ReadsSymbol
  <2>11. CASE BadSymbol BY <1>2, <2>11, NoBadSymbol
  <2> QED BY <2>1, <2>2, <2>3, <2>4, <2>5, <2>6, <2>7, <2>8, <2>9, <2>10, <2>11
          DEF LexNext
<1> QED BY <1>1, <1>2 DEF ReadsOn

-----------------------------------------------------------------------------
(* The writing and the reading *)

(* A text of which nothing is read. *)
LEMMA UnreadLines ==
    Text /\ reads = <<>> /\ start = at /\ at = [pos |-> 1, line |-> 1, col |-> 1]
        => LInv
<1> SUFFICES ASSUME Text, reads = <<>>, start = at,
                    at = [pos |-> 1, line |-> 1, col |-> 1]
             PROVE  LInv
  OBVIOUS
<1>1. Len(src) \in Nat BY DEF Text
<1>2. {i \in 1 .. 1 - 1 : src[i] = NL} = {} OBVIOUS
<1>3. Counted(1, 1, 1) BY <1>2, FS_EmptySet DEF Counted, LineStart
<1>4. Good(at) BY <1>1, <1>3 DEF Good, Place
<1>5. IsSeq(reads) /\ DOMAIN reads = {}
  <2>1. reads \in Seq({}) /\ DOMAIN reads = {} OBVIOUS
  <2> QED BY <2>1 DEF IsSeq
<1> QED BY <1>4, <1>5 DEF LInv, LinesExact

LEMMA EmptyText == src = <<>> => Text
<1>1. <<>> \in Seq({}) /\ End \notin {} OBVIOUS
<1> QED BY <1>1 DEF Text

ReadingInv ==
    outcome = "ok" =>
        /\ tree \in Trees
        /\ \E m, f, t : m = Shown[tree] /\ Laid(src, m, f, t) /\ ReadsOn(m, f, t)

TextInv == LInv /\ WritingInv /\ ReadingInv

(* The invariant holds in the beginning, *)
LEMMA TextInvBegins == TextInit => TextInv
<1> SUFFICES ASSUME TextInit PROVE LInv /\ outcome # "ok"
  BY WritingBegins DEF TextInv, ReadingInv
<1>1. ASSUME NEW s \in Source, LexInit(s), outcome = "given"
      PROVE  LInv /\ outcome # "ok"
  BY <1>1, LinesBegin
<1>2. ASSUME LexInit(<<>>), outcome = "writing" PROVE LInv /\ outcome # "ok"
  BY <1>2, EmptyText, UnreadLines DEF LexInit
<1> QED BY <1>1, <1>2 DEF TextInit

(* The text that was written is laid out, and its reading begins. *)
LEMMA ReadsBegin ==
    ASSUME TextInv, Returned, outcome' = "ok"
    PROVE  LInv' /\ ReadingInv'
<1>1. /\ outcome = "writing" /\ todo = <<>> /\ src' = out
      /\ UNCHANGED <<tree, pretty, todo, out>>
      /\ UNCHANGED <<at, mode, start, text, lost, reads>>
  BY DEF Returned
<1>2. Unread /\ Half(tree, out, <<>>) BY <1>1 DEF TextInv, WritingInv
<1>3. PICK s, m : s = out /\ m = Shown[tree] OBVIOUS
<1>4. tree \in Trees /\ s \in Seq(Char) /\ LaidOut(s, m) BY <1>2, <1>3, HalfIsAll
<1>5. PICK f, t : Laid(s, m, f, t) BY <1>4 DEF LaidOut
<1>6. /\ src' = s /\ at' = [pos |-> 1, line |-> 1, col |-> 1]
      /\ mode' = "skip" /\ start' = at' /\ reads' = <<>>
  BY <1>1, <1>2, <1>3 DEF Unread
<1>7. End \notin Char BY DEF Char
<1>8. Text' BY <1>4, <1>6, <1>7 DEF Text
<1>9. (Text /\ reads = <<>> /\ start = at /\ at = [pos |-> 1, line |-> 1, col |-> 1]
        => LInv)'
  BY UnreadLines, PTL
<1>10. LInv' BY <1>6, <1>8, <1>9
<1>11. Laid(src, m, f, t)' BY <1>5, <1>6
<1>12. Len(m) \in Nat
  <2>1. Sound(m) BY <1>3, <1>4, ShownSound
  <2> QED BY <2>1 DEF Sound, IsSeq
<1>13. t[0] = 1 /\ t[0] <= f[0 + 1] /\ 0 <= Len(m)
  <2>1. 0 \in 0 .. Len(m) BY <1>12
  <2> QED BY <1>5, <1>12, <2>1 DEF Laid
<1>14. AtGap(1, "skip", 0, m, f, t) BY <1>13 DEF AtGap
<1>15. Len(reads') = 0 BY <1>6
<1>16. Upto(m, reads')
  <2>1. 1 .. 0 = {} OBVIOUS
  <2> QED BY <1>15, <2>1 DEF Upto
<1>17. ReadsOn(m, f, t)' BY <1>6, <1>14, <1>15, <1>16 DEF ReadsOn, Comes
<1>18. tree' \in Trees /\ m = Shown[tree'] BY <1>1, <1>3, <1>4
<1> QED BY <1>10, <1>11, <1>17, <1>18 DEF ReadingInv

(* The lexer reads on. *)
LEMMA ReadingStays ==
    ASSUME TextInv, Lexes
    PROVE  LInv' /\ ReadingInv'
<1>1. LInv /\ LexNext /\ UNCHANGED serVars BY DEF TextInv, Lexes
<1>2. LInv' BY <1>1, LexKeepsLines
<1>3. ASSUME outcome = "ok" PROVE ReadingInv'
  <2>1. /\ tree \in Trees
        /\ \E m, f, t : m = Shown[tree] /\ Laid(src, m, f, t) /\ ReadsOn(m, f, t)
    BY <1>3 DEF TextInv, ReadingInv
  <2>2. PICK m, f, t : m = Shown[tree] /\ Laid(src, m, f, t) /\ ReadsOn(m, f, t)
    BY <2>1
  <2>3. Sound(m) BY <2>1, <2>2, ShownSound
  <2>4. Stage(m, f, t) BY <1>1, <2>2, <2>3 DEF Stage
  <2>5. ReadsOn(m, f, t)' BY <1>1, <2>2, <2>4, LexReads
  <2>6. src' = src
    BY <1>1 DEF LexNext, SkipBlank, CommentOpens, CommentCloses, CommentGoesOn,
         CommentNeverCloses, ReadsEnd, StringOpens, WordStarts, NumberStarts,
         StringChar, StringEscape, BadEscape, StringEnds, StringNeverEnds,
         GoesOn, WordEnds, NumberEnds, Symbol, BadSymbol, Scanning, Enter,
         Returns, Fails
  <2>7. Laid(src, m, f, t)' BY <2>2, <2>6
  <2>8. tree' \in Trees /\ m = Shown[tree'] BY <1>1, <2>1, <2>2 DEF serVars
  <2> QED BY <2>5, <2>7, <2>8 DEF ReadingInv
<1>4. ASSUME outcome # "ok" PROVE ReadingInv' BY <1>1, <1>4 DEF serVars, ReadingInv
<1> QED BY <1>2, <1>3, <1>4

(* when nothing changes as well. *)
LEMMA TextInvRests == ASSUME TextInv, UNCHANGED textVars PROVE TextInv'
<1>1. UNCHANGED lexVars /\ UNCHANGED serVars BY DEF textVars
<1>2. LInv'
  <2>1. Good(at) /\ Good(start) /\ LInv BY DEF TextInv, LInv
  <2> QED BY <1>1, <2>1, GoodMove DEF lexVars
<1>3. WritingInv' BY <1>1 DEF TextInv, WritingInv, Unread, lexVars, serVars, Half
<1>4. ReadingInv'
  <2> SUFFICES ASSUME outcome' = "ok"
               PROVE  /\ tree' \in Trees
                      /\ \E m, f, t : /\ m = Shown[tree'] /\ Laid(src', m, f, t)
                                      /\ ReadsOn(m, f, t)'
    BY DEF ReadingInv
  <2>1. outcome = "ok" BY <1>1 DEF serVars
  <2>2. PICK m, f, t : m = Shown[tree] /\ Laid(src, m, f, t) /\ ReadsOn(m, f, t)
    BY <2>1 DEF TextInv, ReadingInv
  <2>3. ReadsOn(m, f, t)'
    <3>1. /\ src' = src /\ at' = at /\ mode' = mode /\ start' = start
          /\ text' = text /\ lost' = lost /\ reads' = reads
      BY <1>1 DEF lexVars
    <3>2. CASE Broken(m, reads)
      <4>1. Broken(m, reads') BY <3>1, <3>2
      <4> QED BY <4>1 DEF ReadsOn
    <3>3. CASE Upto(m, reads) /\ AtGap(at.pos, mode, Len(reads), m, f, t)
      <4>1. Upto(m, reads') /\ AtGap(at'.pos, mode', Len(reads'), m, f, t)
        BY <3>1, <3>3
      <4> QED BY <4>1 DEF ReadsOn, Comes
    <3>4. CASE Upto(m, reads) /\ mode = "done" /\ Ended(m, reads)
      <4>1. Upto(m, reads') /\ mode' = "done" /\ Ended(m, reads') BY <3>1, <3>4
      <4> QED BY <4>1 DEF ReadsOn, Comes
    <3>5. CASE /\ Upto(m, reads)
               /\ Amid(at.pos, start.pos, mode, text, lost, Len(reads), m, f, t)
      <4>1. Upto(m, reads)' BY <3>1, <3>5
      <4>2. PICK p, b, md, x, l, k : /\ p = at.pos /\ b = start.pos /\ md = mode
                                     /\ x = text /\ l = lost /\ k = Len(reads)
        OBVIOUS
      <4>3. Amid(p, b, md, x, l, k, m, f, t) BY <3>5, <4>2
      <4>4. Amid(p, b, md, x, l, k, m, f, t)'
        BY <3>1, <4>3 DEF Amid, InString, InPlain
      <4>5. /\ p = at'.pos /\ b = start'.pos /\ md = mode'
            /\ x = text' /\ l = lost' /\ k = Len(reads')
        BY <3>1, <4>2
      <4>6. Amid(at.pos, start.pos, mode, text, lost, Len(reads), m, f, t)'
        BY <4>4, <4>5 DEF Amid
      <4> QED BY <4>1, <4>6 DEF ReadsOn, Comes
    <3> QED BY <2>2, <3>2, <3>3, <3>4, <3>5 DEF ReadsOn, Comes
  <2>4. tree \in Trees BY <2>1 DEF TextInv, ReadingInv
  <2> QED BY <1>1, <2>2, <2>3, <2>4 DEF serVars, lexVars
<1> QED BY <1>2, <1>3, <1>4 DEF TextInv

(* and stays, *)
LEMMA TextInvStays == ASSUME TextInv, TextNext PROVE TextInv'
<1>1. WritingInv' BY WritingStays DEF TextInv
<1>2. SUFFICES LInv' /\ ReadingInv' BY <1>1 DEF TextInv
<1>3. Good(at) /\ Good(start) /\ LInv BY DEF TextInv, LInv
<1>4. ASSUME UNCHANGED lexVars, outcome' # "ok" PROVE LInv' /\ ReadingInv'
  BY <1>3, <1>4, GoodMove DEF lexVars, ReadingInv
<1>5. CASE AppendDone \/ LooseFails \/ PieceFails \/ CallRefused \/ CallBegins
           \/ LoopGoesOn
  <2>1. UNCHANGED lexVars /\ outcome' # "ok"
    BY <1>5 DEF AppendDone, LooseFails, PieceFails, CallRefused, CallBegins,
                LoopGoesOn, Appends, Writing
  <2> QED BY <1>4, <2>1
<1>6. CASE Returned
  <2>1. CASE outcome' = "ok" BY <1>6, <2>1, ReadsBegin
  <2>2. CASE outcome' # "ok"
    <3>1. UNCHANGED lexVars BY <1>6, <2>2 DEF Returned, lexVars
    <3> QED BY <1>4, <2>2, <3>1
  <2> QED BY <2>1, <2>2
<1>7. CASE Lexes BY <1>7, ReadingStays
<1>8. CASE Rests
  <2>1. UNCHANGED textVars BY <1>8 DEF Rests
  <2>2. TextInv' BY <2>1, TextInvRests
  <2> QED BY <2>2 DEF TextInv
<1> QED BY <1>5, <1>6, <1>7, <1>8 DEF TextNext

(* What WrittenReads says of the tokens q. *)
Back(q) ==
    /\ Readable(q) <=> \A i \in DOMAIN reads : reads[i].type # "error"
    /\ Readable(q) =>
         /\ Len(reads) = Len(q)
         /\ \A i \in DOMAIN q :
              /\ reads[i].type = q[i][1]
              /\ reads[i].whole => reads[i].text = q[i][2]

(* Everything that is read, to the end. *)
LEMMA ReadToTheEnd ==
    ASSUME NEW m, NEW f, NEW t, Stage(m, f, t), ReadsOn(m, f, t), mode = "done",
           NEW q, q = Append(m, <<"eof", <<>>>>)
    PROVE  Back(q)
<1>1. /\ IsSeq(reads) /\ IsSeq(m) /\ Len(m) \in Nat /\ Len(reads) \in Nat
      /\ DOMAIN reads = 1 .. Len(reads) /\ DOMAIN m = 1 .. Len(m) /\ Text
  BY StageIs
<1>2. PICK z : z = <<"eof", <<>>>> OBVIOUS
<1>3. z[1] = "eof" /\ z[2] = <<>> /\ DOMAIN z[2] = {}
  <2>1. z[1] = "eof" /\ z[2] = <<>> BY <1>2
  <2> QED BY <2>1
<1>4. /\ DOMAIN q = 1 .. Len(m) + 1 /\ Len(q) = Len(m) + 1
      /\ \A i \in 1 .. Len(m) : q[i] = m[i]
      /\ q[Len(m) + 1] = z
  BY <1>1, <1>2, Grown
<1>5. Readable(q) <=> Readable(m)
  <2>1. \A i \in 1 .. Len(m) + 1 : i \in 1 .. Len(m) \/ i = Len(m) + 1 BY <1>1
  <2>2. 1 .. Len(m) \subseteq 1 .. Len(m) + 1 BY <1>1
  <2>3. ASSUME Readable(q) PROVE Readable(m) BY <1>1, <1>4, <2>2, <2>3 DEF Readable
  <2>4. ASSUME Readable(m) PROVE Readable(q)
    <3>1. ASSUME NEW i \in DOMAIN q, NEW j \in DOMAIN q[i][2]
          PROVE  q[i][2][j] \notin Control \cup {FF}
      <4>1. i # Len(m) + 1 BY <1>3, <1>4, <3>1
      <4>2. i \in 1 .. Len(m) BY <1>4, <2>1, <4>1
      <4> QED BY <1>1, <1>4, <2>4, <3>1, <4>2 DEF Readable
    <3> QED BY <3>1 DEF Readable
  <2> QED BY <2>3, <2>4
<1>6. CASE Broken(m, reads) BY <1>5, <1>6 DEF Broken, Back
<1>7. CASE Comes(m, f, t)
  <2>1. Upto(m, reads) /\ Ended(m, reads)
    <3>1. mode # "skip" /\ mode # "string" /\ mode # "word" /\ mode # "number"
      OBVIOUS
    <3> QED BY <1>7, <3>1 DEF Comes, AtGap, Amid, InPlain
  <2>2. /\ Len(reads) = Len(m) + 1 /\ reads[Len(m) + 1].type = "eof"
        /\ reads[Len(m) + 1].text = <<>>
    BY <2>1 DEF Ended
  <2>3. \A i \in 1 .. Len(m) + 1 : i \in 1 .. Len(m) \/ i = Len(m) + 1 BY <1>1
  <2>4. \A i \in 1 .. Len(m) : Right(reads[i], m[i])
    <3>1. \A i \in 1 .. Len(m) : i \in 1 .. Len(reads) /\ i <= Len(m)
      BY <1>1, <2>2
    <3> QED BY <2>1, <3>1 DEF Upto
  <2>5. Readable(m) BY <1>1, <2>4 DEF Readable, Right, Clear
  <2>6. \A i \in 1 .. Len(m) : m[i][1] # "error"
    <3>1. \A i \in 1 .. Len(m) : Spelt(src, f[i], t[i], m[i]) BY StageAt
    <3> QED BY <1>1, <3>1, TokenTypes
  <2>7. ASSUME NEW i \in DOMAIN reads PROVE reads[i].type # "error"
    BY <1>1, <2>2, <2>3, <2>4, <2>6 DEF Right
  <2>8. ASSUME NEW i \in DOMAIN q
        PROVE  /\ reads[i].type = q[i][1]
               /\ reads[i].whole => reads[i].text = q[i][2]
    <3>1. CASE i \in 1 .. Len(m) BY <1>4, <2>4, <3>1 DEF Right
    <3>2. CASE i = Len(m) + 1 BY <1>3, <1>4, <2>2, <3>2
    <3> QED BY <1>4, <2>3, <3>1, <3>2
  <2> QED BY <1>4, <1>5, <2>2, <2>5, <2>7, <2>8 DEF Back
<1> QED BY <1>6, <1>7 DEF ReadsOn

-----------------------------------------------------------------------------
(* Objects of which all is written *)

(* Of a sequence that is kept every part is. *)
LEMMA KeptParts ==
    ASSUME NEW a, NEW b, IsSeq(a), IsSeq(b), Kept(a \o b)
    PROVE  Kept(a) /\ Kept(b)
<1>1. PICK w : w = a \o b OBVIOUS
<1>2. /\ Len(a) \in Nat /\ Len(b) \in Nat /\ DOMAIN w = 1 .. Len(a) + Len(b)
      /\ \A i \in 1 .. Len(a) : w[i] = a[i]
      /\ \A i \in 1 .. Len(b) : w[Len(a) + i] = b[i]
  BY <1>1, Joined
<1>3. DOMAIN a = 1 .. Len(a) /\ DOMAIN b = 1 .. Len(b) BY DEF IsSeq
<1>4. ASSUME NEW i \in DOMAIN a PROVE a[i][1] \notin {"colon", "float"}
  <2>1. i \in DOMAIN w /\ w[i] = a[i] BY <1>2, <1>3
  <2> QED BY <1>1, <2>1 DEF Kept
<1>5. ASSUME NEW i \in DOMAIN b PROVE b[i][1] \notin {"colon", "float"}
  <2>1. Len(a) + i \in DOMAIN w /\ w[Len(a) + i] = b[i] BY <1>2, <1>3
  <2> QED BY <1>1, <2>1 DEF Kept
<1> QED BY <1>4, <1>5 DEF Kept

(* So of a list that is kept every item is. *)
LEMMA ListedKept ==
    ASSUME NEW ms, Len(ms) \in Nat, \A i \in 1 .. Len(ms) : IsSeq(ms[i])
    PROVE  /\ IsSeq(Listed(ms)[1])
           /\ Kept(Listed(ms)[1]) => \A i \in 1 .. Len(ms) : Kept(ms[i])
<1> DEFINE L == Listed(ms)
           n == Len(ms)
           Fine(i) == /\ IsSeq(L[i])
                      /\ Kept(L[i]) => \A j \in i .. n : Kept(ms[j])
           S == {k \in 0 .. n : Fine(n + 1 - k)}
<1>1. /\ L[n + 1] = <<Parens[2]>>
      /\ \A i \in 1 .. n : L[i] = ms[i] \o Sep(i, n) \o L[i + 1]
  BY ListedIs DEF Sep
<1> HIDE DEF L
<1>2. 0 \in S
  <2>1. n + 1 - 0 = n + 1 /\ 0 \in 0 .. n /\ n + 1 .. n = {} OBVIOUS
  <2>2. IsSeq(L[n + 1]) BY <1>1, OneLong
  <2> QED BY <2>1, <2>2
<1>3. ASSUME NEW i \in 1 .. n, Fine(i + 1) PROVE Fine(i)
  <2>1. PICK a, b, c, d : /\ a = ms[i] /\ b = Sep(i, n) /\ c = L[i + 1]
                          /\ d = a \o b
    OBVIOUS
  <2>2. IsSeq(a) /\ IsSeq(b) /\ IsSeq(c)
    <3>1. IsSeq(b) BY <2>1, OneLong, NoneBeside DEF Sep
    <3> QED BY <1>3, <2>1, <3>1
  <2>3. IsSeq(d) BY <2>1, <2>2, Joined
  <2>4. L[i] = d \o c BY <1>1, <2>1
  <2>5. IsSeq(d \o c) BY <2>2, <2>3, Joined
  <2>6. ASSUME Kept(L[i]), NEW j \in i .. n PROVE Kept(ms[j])
    <3>1. Kept(d \o c) BY <2>4, <2>6
    <3>2. Kept(d) /\ Kept(c) BY <2>2, <2>3, <3>1, KeptParts
    <3>3. Kept(a) BY <2>1, <2>2, <3>2, KeptParts
    <3>4. j = i \/ j \in i + 1 .. n OBVIOUS
    <3> QED BY <1>3, <2>1, <3>2, <3>3, <3>4
  <2> QED BY <2>4, <2>5, <2>6
<1>4. ASSUME NEW k \in 0 .. n, k < n, k \in S PROVE k + 1 \in S
  <2>1. PICK i : i = n - k OBVIOUS
  <2>2. i \in 1 .. n /\ n + 1 - k = i + 1 /\ n + 1 - (k + 1) = i /\ k + 1 \in 0 .. n
    BY <1>4, <2>1
  <2>3. Fine(i + 1) BY <1>4, <2>2
  <2>4. Fine(i) BY <1>3, <2>2, <2>3
  <2> HIDE DEF Fine
  <2> QED BY <2>2, <2>4
<1>5. \A k \in 0 .. n : k \in S
  <2> HIDE DEF S
  <2> QED BY <1>2, <1>4, Counting
<1>6. n \in 0 .. n /\ n + 1 - n = 1 OBVIOUS
<1>7. Fine(1) BY <1>5, <1>6
<1> QED BY <1>7 DEF L

(* An entry is never kept: where all is, there are none. *)
LEMMA KeyedKept ==
    ASSUME NEW o, NEW ms, Len(ms) \in Nat, DOMAIN ms = 1 .. Len(ms),
           \A i \in 1 .. Len(ms) : IsSeq(ms[i])
    PROVE  /\ IsSeq(Listed(Keyed(o, ms))[1])
           /\ Kept(Listed(Keyed(o, ms))[1]) => Listed(Keyed(o, ms))[1] = <<Parens[2]>>
<1>1. PICK k : k = Keyed(o, ms) OBVIOUS
<1>2. ASSUME NEW i \in 1 .. Len(ms) PROVE IsSeq(k[i]) /\ ~Kept(k[i])
  <2>1. PICK e, m : e = <<<<"ident", o.keys[i]>>, Colon>> /\ m = ms[i] OBVIOUS
  <2>2. k[i] = e \o m BY <1>1, <2>1 DEF Keyed
  <2>3. IsSeq(e) /\ IsSeq(m) BY <2>1, TwoLong
  <2>4. IsSeq(e \o m) BY <2>3, Joined
  <2>5. ~Kept(e)
    <3>1. DOMAIN e = 1 .. 2 /\ e[2] = Colon BY <2>1
    <3>2. Colon[1] = "colon" BY DEF Colon
    <3> QED BY <3>1, <3>2 DEF Kept
  <2> QED BY <2>2, <2>3, <2>4, <2>5, KeptParts
<1>3. Len(k) = Len(ms)
  <2>1. DOMAIN k = 1 .. Len(ms) BY <1>1 DEF Keyed
  <2>2. k = [i \in 1 .. Len(ms) |-> k[i]] BY <1>1, <2>1 DEF Keyed
  <2>3. k \in Seq({k[i] : i \in 1 .. Len(ms)}) BY <2>2
  <2> QED BY <2>1, <2>3
<1>4. /\ IsSeq(Listed(k)[1])
      /\ Kept(Listed(k)[1]) => \A i \in 1 .. Len(k) : Kept(k[i])
  BY <1>2, <1>3, ListedKept
<1>5. ASSUME Kept(Listed(k)[1]) PROVE Listed(k)[1] = <<Parens[2]>>
  <2>1. Len(k) = 0
    <3>1. 1 \notin 1 .. Len(k) BY <1>2, <1>3, <1>4, <1>5
    <3> QED BY <1>3, <3>1
  <2>2. Len(k) \in Nat BY <1>3
  <2>3. Listed(k)[Len(k) + 1] = <<Parens[2]>> BY <2>2, ListedIs
  <2>4. Len(k) + 1 = 1 BY <2>1
  <2> QED BY <2>3, <2>4
<1> QED BY <1>1, <1>4, <1>5

(* What is kept is written. *)
LEMMA ShownMeans ==
    \A o \in Trees : IsSeq(Meaning[o]) /\ (Kept(Meaning[o]) => Meaning[o] = Shown[o])
<1> DEFINE Fine(o) == /\ IsSeq(Meaning[o])
                      /\ Kept(Meaning[o]) => Meaning[o] = Shown[o]
           T == {h \in Nat : \E p \in Trees : Height[p] = h /\ ~Fine(p)}
<1>1. SUFFICES ASSUME T # {} PROVE FALSE
  <2>1. \A o \in Trees : Height[o] \in Nat BY ItemsLower
  <2> QED BY <2>1
<1>2. PICK h \in T : \A x \in T : h <= x
  <2>1. T \subseteq Nat OBVIOUS
  <2> HIDE DEF T
  <2> QED BY <1>1, <2>1, Least
<1>3. PICK o \in Trees : Height[o] = h /\ ~Fine(o) BY <1>2
<1>4. ASSUME NEW i \in 1 .. Len(o.items) PROVE Fine(o.items[i])
  <2>1. PICK q : q = o.items[i] OBVIOUS
  <2>2. i \in DOMAIN o.items BY InnerIs
  <2>3. q \in Trees /\ Height[q] \in Nat /\ Height[q] < h
    BY <1>3, <2>1, <2>2, ItemsLower
  <2>4. Height[q] \notin T
    <3>1. ~(h <= Height[q]) BY <1>2, <2>3
    <3> HIDE DEF T
    <3> QED BY <1>2, <3>1
  <2> HIDE DEF Fine
  <2> QED BY <2>1, <2>3, <2>4
<1>5. PICK ms : ms = [i \in DOMAIN o.items |-> Meaning[o.items[i]]] OBVIOUS
<1>6. Meaning[o] = Stands(o, ms) BY <1>5, MeaningIs DEF Says
<1>7. /\ Len(o.items) \in Nat /\ DOMAIN o.items = 1 .. Len(o.items)
      /\ Len(ms) = Len(o.items) /\ DOMAIN ms = 1 .. Len(ms)
      /\ \A i \in 1 .. Len(ms) : ms[i] = Meaning[o.items[i]]
  <2>1. Len(o.items) \in Nat /\ DOMAIN o.items = 1 .. Len(o.items) BY InnerIs
  <2>2. ms = [i \in 1 .. Len(o.items) |-> Meaning[o.items[i]]] BY <1>5, <2>1
  <2>3. ms \in Seq({Meaning[o.items[i]] : i \in 1 .. Len(o.items)}) BY <2>2
  <2> QED BY <2>1, <2>2, <2>3
<1>8. \A i \in 1 .. Len(ms) : IsSeq(ms[i]) BY <1>4, <1>7
<1>9. Shown[o] = Shows(o, Inner(o)) BY ShownShows
<1>10. SUFFICES Fine(o) BY <1>3
<1> HIDE DEF T
<1>11. CASE o.type = "array"
  <2>1. PICK x, l : x = <<Parens[1]>> /\ l = Listed(ms)[1] OBVIOUS
  <2>2. Meaning[o] = x \o l BY <1>6, <1>11, <2>1 DEF Stands
  <2>3. IsSeq(x) /\ IsSeq(l) BY <1>7, <1>8, <2>1, OneLong, ListedKept
  <2>4. IsSeq(x \o l) BY <2>3, Joined
  <2>5. ASSUME Kept(x \o l) PROVE Meaning[o] = Shown[o]
    <3>1. Kept(l) BY <2>3, <2>5, KeptParts
    <3>2. \A i \in 1 .. Len(ms) : Kept(ms[i]) BY <1>7, <1>8, <2>1, <3>1, ListedKept
    <3>3. \A i \in 1 .. Len(ms) : ms[i] = Shown[o.items[i]] BY <1>4, <1>7, <3>2
    <3>4. ms = Inner(o)
      <4>1. ms = [i \in DOMAIN o.items |-> ms[i]] BY <1>5
      <4>2. Inner(o) = [i \in DOMAIN o.items |-> ms[i]] BY <1>7, <3>3 DEF Inner
      <4> QED BY <4>1, <4>2
    <3>5. Shows(o, Inner(o)) = Stands(o, Inner(o)) BY <1>11 DEF Shows
    <3> QED BY <1>6, <1>9, <3>4, <3>5
  <2> QED BY <2>2, <2>4, <2>5
<1>12. PICK l : l = Listed(Keyed(o, ms))[1] OBVIOUS
<1>13. IsSeq(l) /\ (Kept(l) => l = <<Parens[2]>>)
  BY <1>7, <1>8, <1>12, KeyedKept
<1>14. PICK x, y : x = <<Parens[1]>> /\ y = x \o l OBVIOUS
<1>15. IsSeq(x) BY <1>14, OneLong
<1>16. IsSeq(y) /\ (Kept(y) => y = Parens)
  <2>1. IsSeq(y) BY <1>13, <1>14, <1>15, Joined
  <2>2. ASSUME Kept(y) PROVE y = Parens
    <3>1. Kept(l) BY <1>13, <1>14, <1>15, <2>2, KeptParts
    <3> QED BY <1>13, <1>14, <3>1, ParensSound
  <2> QED BY <2>1, <2>2
<1>17. CASE o.type = "map"
  <2>1. Meaning[o] = y BY <1>6, <1>12, <1>14, <1>17 DEF Stands
  <2>2. Shown[o] = Parens BY <1>9, <1>17 DEF Shows
  <2> QED BY <1>16, <2>1, <2>2
<1>18. CASE o.type = "instance"
  <2>1. PICK g, n : /\ g = <<<<"hash", <<"#">>>>>>
                    /\ n = IF o.text = <<>> THEN <<>> ELSE <<<<"ident", o.text>>>>
    OBVIOUS
  <2>2. Meaning[o] = (g \o n) \o y BY <1>6, <1>12, <1>14, <1>18, <2>1 DEF Stands
  <2>3. Shown[o] = (g \o n) \o Parens BY <1>9, <1>18, <2>1 DEF Shows
  <2>4. IsSeq(g) /\ IsSeq(n) BY <2>1, OneLong, NoneBeside
  <2>5. PICK e : e = g \o n OBVIOUS
  <2>6. IsSeq(e) BY <2>4, <2>5, Joined
  <2>7. IsSeq(e \o y) BY <1>16, <2>6, Joined
  <2>8. Kept(e \o y) => Kept(y) BY <1>16, <2>6, KeptParts
  <2> QED BY <1>16, <2>2, <2>3, <2>5, <2>7, <2>8
<1>19. CASE o.type = "float"
  <2>1. PICK tok : tok = <<"float", o.text>> OBVIOUS
  <2>2. Meaning[o] = <<tok>> BY <1>6, <1>19, <2>1 DEF Stands
  <2>3. IsSeq(<<tok>>) BY OneLong
  <2>4. ~Kept(<<tok>>)
    <3>1. DOMAIN <<tok>> = 1 .. 1 /\ <<tok>>[1] = tok /\ tok[1] = "float" BY <2>1
    <3> QED BY <3>1 DEF Kept
  <2> QED BY <2>2, <2>3, <2>4
<1>20. CASE o.type \notin {"array", "map", "instance", "float"}
  <2>1. /\ Shown[o] = Meaning[o]
        /\ \/ Meaning[o] = <<>>
           \/ \E p : Meaning[o] = <<p>>
           \/ \E p, q : Meaning[o] = <<p, q>>
    BY <1>6, <1>9, <1>20 DEF Shows, Stands
  <2>2. IsSeq(Meaning[o])
    <3>1. IsSeq(<<>>) BY DEF IsSeq
    <3>2. ASSUME NEW p, Meaning[o] = <<p>> PROVE IsSeq(Meaning[o])
      BY <3>2, OneLong
    <3>3. ASSUME NEW p, NEW q, Meaning[o] = <<p, q>> PROVE IsSeq(Meaning[o])
      BY <3>3, TwoLong
    <3> QED BY <2>1, <3>1, <3>2, <3>3
  <2> QED BY <2>1, <2>2
<1> QED BY <1>11, <1>17, <1>18, <1>19, <1>20

(* At the end of the text all tokens are there. *)
LEMMA TextInvReads == TextInv => WrittenReads
<1> SUFFICES ASSUME TextInv, outcome = "ok", mode = "done", Kept(Meaning[tree]),
                    NEW q, q = Append(Meaning[tree], <<"eof", <<>>>>)
             PROVE  Back(q)
  BY DEF WrittenReads, Back
<1>1. tree \in Trees BY DEF TextInv, ReadingInv
<1>2. PICK m, f, t : m = Shown[tree] /\ Laid(src, m, f, t) /\ ReadsOn(m, f, t)
  BY DEF TextInv, ReadingInv
<1>3. Sound(m) BY <1>1, <1>2, ShownSound
<1>4. Stage(m, f, t) BY <1>2, <1>3 DEF TextInv, Stage
<1>5. q = Append(m, <<"eof", <<>>>>) BY <1>1, <1>2, ShownMeans
<1> QED BY <1>2, <1>4, <1>5, ReadToTheEnd

LEMMA TextInvAlways == TextSpec => []TextInv
<1>1. TextInit => TextInv BY TextInvBegins
<1>2. TextInv /\ [TextNext]_textVars => TextInv'
  <2>1. ASSUME TextInv, TextNext PROVE TextInv' BY <2>1, TextInvStays
  <2>2. ASSUME TextInv, UNCHANGED textVars PROVE TextInv' BY <2>2, TextInvRests
  <2> QED BY <2>1, <2>2
<1> QED BY <1>1, <1>2, PTL DEF TextSpec

(* What the serializer writes, pretty or not, with whatever white space was *)
(* lost, the lexer reads as the tokens of the object, each with its text    *)
(* unless an append to the scratch buffer was lost, for any object without  *)
(* entries, fields and floats, of any size; if it has a control character   *)
(* or 0xFF in a string, an error is told.                                   *)
THEOREM TextReadsBack == TextSpec => []WrittenReads
<1>1. TextInv => WrittenReads BY TextInvReads
<1> QED BY <1>1, TextInvAlways, PTL

(* The lines and columns told are those a reader counts, of a text that was *)
(* written too.                                                             *)
THEOREM TextLinesCounted == TextSpec => []LinesExact
<1>1. TextInv => LinesExact BY DEF TextInv, LInv
<1> QED BY <1>1, TextInvAlways, PTL

-----------------------------------------------------------------------------
(* What is proved of the lexer on given texts, on those that were written *)

LexerInv == CInv /\ TInv

(* Before anything of a text is read. *)
LEMMA UnreadTokens ==
    Text /\ reads = <<>> /\ mode = "skip" /\ start = at
    /\ at = [pos |-> 1, line |-> 1, col |-> 1]
        => LexerInv /\ Kinds = <<>> /\ Left \in Nat
<1> HAVE Text /\ reads = <<>> /\ mode = "skip" /\ start = at
         /\ at = [pos |-> 1, line |-> 1, col |-> 1]
<1>1. LInv BY UnreadLines
<1>2. at.pos = 1 /\ start.pos = 1 OBVIOUS
<1>3. Taken = 1 /\ Newest = "none" BY DEF Taken, Newest
<1>4. Shape(at, start, mode, Taken, Newest) BY <1>2, <1>3 DEF Shape
<1>5. FInv BY <1>1, <1>4 DEF FInv
<1>6. DOMAIN reads = {} OBVIOUS
<1>7. Covers /\ TextExact BY <1>6 DEF Covers, TextExact
<1>8. Skipped(1, 1) BY SkipNothing
<1>9. Gap(at.pos, start.pos, mode, Taken) BY <1>2, <1>3, <1>8 DEF Gap
<1>10. Kinds = <<>>
  <2>1. Kinds = [i \in {} |-> Kind(reads[i])] BY <1>6 DEF Kinds
  <2> QED BY <2>1
<1>11. Left \in Nat
  <2>1. Len(src) \in Nat BY DEF Text
  <2>2. Left = Len(src) + 1 - 1 BY DEF Left
  <2> QED BY <2>1, <2>2
<1> QED BY <1>5, <1>7, <1>9, <1>10, <1>11 DEF LexerInv, CInv, TInv

LEMMA TokensBegin == TextInit => LexerInv /\ Tokens!Init
<1> SUFFICES ASSUME TextInit PROVE LexerInv /\ Kinds = <<>> /\ Left \in Nat
  BY DEF Tokens!Init
<1>1. PICK s \in Source \cup {<<>>} : LexInit(s) BY DEF TextInit
<1>2. Text
  <2>1. CASE s \in Source BY <1>1, <2>1, LinesBegin DEF LInv
  <2>2. CASE s = <<>> BY <1>1, <2>2, EmptyText DEF LexInit
  <2> QED BY <2>1, <2>2
<1>3. /\ reads = <<>> /\ mode = "skip" /\ start = at
      /\ at = [pos |-> 1, line |-> 1, col |-> 1]
  BY <1>1 DEF LexInit
<1> QED BY <1>2, <1>3, UnreadTokens

(* A step of the serializer is none of the lexer. *)
LEMMA TokensRest ==
    ASSUME LexerInv, UNCHANGED lexVars
    PROVE  LexerInv' /\ UNCHANGED <<Kinds, Left>>
<1>1. FInv' /\ UNCHANGED <<Kinds, Left>> BY FeedsStay DEF LexerInv, CInv
<1>2. CInv'
  <2>1. Gap(at.pos, start.pos, mode, Taken) BY DEF LexerInv, CInv
  <2> QED BY <1>1, <2>1, CoverQuiet DEF LexerInv, lexVars
<1>3. TInv'
  <2>1. Good(at) /\ Good(start) BY DEF LexerInv, TInv, FInv, LInv
  <2>2. at.pos \in Nat /\ start.pos \in Nat BY <2>1 DEF Good, Place
  <2>3. mode = "string" => TextRight(Between(start.pos + 1, at.pos), text, lost)
    BY DEF LexerInv, TInv
  <2> QED BY <1>1, <2>2, <2>3, TextQuiet DEF LexerInv, lexVars
<1> QED BY <1>1, <1>2, <1>3 DEF LexerInv

(* A text that was written replaces the empty one, of which nothing was    *)
(* read.                                                                   *)
LEMMA TokensReplaced ==
    ASSUME TextInv, LexerInv, Returned, outcome' = "ok"
    PROVE  LexerInv' /\ Tokens!Written
<1>1. /\ outcome = "writing"
      /\ UNCHANGED <<at, mode, start, text, lost, reads>>
  BY DEF Returned
<1>2. Unread BY <1>1 DEF TextInv, WritingInv
<1>3. Text' BY ReadsBegin DEF LInv
<1>4. /\ reads' = <<>> /\ mode' = "skip" /\ start' = at'
      /\ at' = [pos |-> 1, line |-> 1, col |-> 1]
  BY <1>1, <1>2 DEF Unread
<1>5. (Text /\ reads = <<>> /\ mode = "skip" /\ start = at
         /\ at = [pos |-> 1, line |-> 1, col |-> 1]
          => LexerInv /\ Kinds = <<>> /\ Left \in Nat)'
  BY UnreadTokens, PTL
<1>6. LexerInv' /\ Kinds' = <<>> /\ Left' \in Nat BY <1>3, <1>4, <1>5
<1>7. Kinds = <<>>
  <2>1. Kinds = [i \in {} |-> Kind(reads[i])] BY <1>2 DEF Unread, Kinds
  <2> QED BY <2>1
<1> QED BY <1>6, <1>7 DEF Tokens!Written

(* Every step of a text is one of TokenSource or none. *)
LEMMA TokensStep ==
    ASSUME TextInv, LexerInv, [TextNext]_textVars
    PROVE  LexerInv' /\ [Tokens!Next]_<<Kinds, Left>>
<1>1. CASE UNCHANGED lexVars BY <1>1, TokensRest
<1>2. CASE Returned
  <2>1. CASE outcome' = "ok" BY <1>2, <2>1, TokensReplaced DEF Tokens!Next
  <2>2. CASE outcome' # "ok"
    <3>1. UNCHANGED lexVars BY <1>2, <2>2 DEF Returned, lexVars
    <3> QED BY <1>1, <3>1
  <2> QED BY <2>1, <2>2
<1>3. CASE Lexes
  <2>1. LexNext BY <1>3 DEF Lexes
  <2>2. CInv' BY <2>1, LexCovers DEF LexerInv
  <2>3. TInv' BY <2>1, LexTells DEF LexerInv
  <2>4. Feeds BY <2>1, LexFeeds DEF LexerInv, CInv
  <2> QED BY <2>2, <2>3, <2>4 DEF LexerInv, Feeds
<1>4. CASE AppendDone \/ LooseFails \/ PieceFails \/ CallRefused \/ CallBegins
           \/ LoopGoesOn
  <2>1. UNCHANGED lexVars
    BY <1>4 DEF AppendDone, LooseFails, PieceFails, CallRefused, CallBegins,
                LoopGoesOn, Appends, Writing
  <2> QED BY <1>1, <2>1
<1>5. CASE Rests \/ UNCHANGED textVars
  <2>1. UNCHANGED lexVars BY <1>5 DEF Rests, textVars
  <2> QED BY <1>1, <2>1
<1> QED BY <1>2, <1>3, <1>4, <1>5 DEF TextNext

LEMMA TokensAlways == TextSpec => [](TextInv /\ LexerInv) /\ FeedsParser
<1>1. TextInit => LexerInv /\ Tokens!Init BY TokensBegin
<1>2. TextInv /\ LexerInv /\ [TextNext]_textVars
        => LexerInv' /\ [Tokens!Next]_<<Kinds, Left>>
  BY TokensStep
<1> QED BY <1>1, <1>2, TextInvAlways, PTL DEF TextSpec, FeedsParser, Tokens!Spec

(* The tokens of a text that was written cover it, as they do any text. *)
THEOREM TextCovered == TextSpec => []Covers
<1>1. LexerInv => Covers BY DEF LexerInv, CInv
<1> QED BY <1>1, TokensAlways, PTL

(* The text of a string is what its literal stands for, less the characters *)
(* whose append failed, in a text that was written too.                     *)
THEOREM TextToldExactly == TextSpec => []TextExact
<1>1. LexerInv => TextExact BY DEF LexerInv, TInv
<1> QED BY <1>1, TokensAlways, PTL

(* The calls on a text that is given, and on one that comes from the        *)
(* serializer while nothing has been read, are what the parser takes for    *)
(* granted.                                                                 *)
THEOREM TextFeedsParser == TextSpec => FeedsParser
BY TokensAlways, PTL
=============================================================================
